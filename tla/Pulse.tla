-------------------------------- MODULE Pulse --------------------------------
(***************************************************************************)
(* One Pulse instance (src/objects/pulse/pulseobj.c) on its tick task.     *)
(*                                                                         *)
(* The scheduler is seen from the object: `armed` counts the AddTaskMilli  *)
(* calls on the instance's one task that have not fired.  Arming a task    *)
(* that is armed already inserts its entry twice (sched.c:399-403), so it  *)
(* must never exceed one.  Interval only moves ticks in time and is left   *)
(* out; `sent` matters only up to the largest Count and stops there.       *)
(* The sink is an observer at the far end of Out, which sees the messages  *)
(* in the order they are sent.                                             *)
(***************************************************************************)
EXTENDS Naturals

CONSTANTS MaxCount,   \* bound: the largest Count the user sets
          EnableMsgs  \* the kinds of message that reach the Enable port

ASSUME PulseAssumption ==
    MaxCount \in Nat \ {0} /\ EnableMsgs \subseteq {"send", "change", "eof"}

VARIABLES placed,     \* the instance exists
          count,      \* the Count property, retuned while the train runs
          active, enabled, scheduled, next, sent,  \* InstanceData
          armed,
          state,      \* the State property
          sink,       \* what the observer makes of the edges
          got         \* falling edges it saw since the train began

vars == <<placed, count, active, enabled, scheduled, next, sent, armed, state, sink, got>>
obs  == <<sink, got>>

TypeOK ==
    /\ placed \in BOOLEAN
    /\ count \in 0 .. MaxCount /\ sent \in 0 .. MaxCount /\ got \in 0 .. MaxCount
    /\ active \in BOOLEAN /\ enabled \in BOOLEAN /\ scheduled \in BOOLEAN
    /\ next \in {0, 1} /\ armed \in {0, 1}
    /\ state \in {"Starting", "Running", "Stopping"}
    /\ sink \in {"quiet", "high", "low", "ended", "broken"}

Init ==
    /\ placed = FALSE
    /\ count = 0 /\ sent = 0 /\ next = 1
    /\ active = FALSE /\ enabled = TRUE /\ scheduled = FALSE
    /\ armed = 0 /\ state = "Starting"
    /\ sink = "quiet" /\ got = 0

Upto(n) == IF n > MaxCount THEN MaxCount ELSE n

\* What a sink makes of a rising edge, a falling edge and the end of a train.
Rise(s) == IF s = "high" THEN "broken" ELSE "high"
Fall(s) == IF s = "high" THEN "low" ELSE "broken"
End(s)  == IF s = "low" THEN "ended" ELSE "broken"

AddTaskMilli == armed' = armed + 1 /\ scheduled' = TRUE

-----------------------------------------------------------------------------
\* A Pulse is placed idle: it ticks only once a flow activates it.
InstanceStart ==
    /\ ~placed /\ placed' = TRUE
    /\ count' = 0 /\ sent' = 0 /\ next' = 1
    /\ active' = FALSE /\ enabled' = TRUE /\ scheduled' = FALSE
    /\ state' = "Starting" /\ sink' = "quiet" /\ got' = 0
    /\ UNCHANGED armed

\* Faulty variant: the task outlives the instance.
InstanceEndKeepsTask ==
    /\ placed /\ placed' = FALSE
    /\ UNCHANGED <<count, active, enabled, scheduled, next, sent, armed, state, obs>>

\* The instance goes, and with it its task.
InstanceEnd ==
    /\ placed /\ placed' = FALSE /\ armed' = 0
    /\ UNCHANGED <<count, active, enabled, scheduled, next, sent, state, obs>>

\* Faulty variant: activation starts a running train afresh.
ActivateAgain ==
    /\ placed
    /\ sent' = 0 /\ next' = 1 /\ active' = TRUE /\ state' = "Running"
    /\ AddTaskMilli
    /\ got' = 0 /\ UNCHANGED <<placed, count, enabled, sink>>

\* A train starts one interval from now; a running train ignores this.
Activate ==
    /\ placed /\ ~active
    /\ sent' = 0 /\ next' = 1 /\ active' = TRUE /\ state' = "Running"
    /\ AddTaskMilli
    /\ got' = 0 /\ UNCHANGED <<placed, count, enabled, sink>>

\* Faulty variants: only the exact count ends the train; one pulse short.
FinishedExactly(n) == count > 0 /\ n = count
FinishedShort(n) == count > 0 /\ n + 1 >= count

\* Has the train run its length?  Count is read now: the user may have
\* lowered it below what was sent.
Finished(n) == count > 0 /\ n >= count

\* Faulty variant: the flag is left set.
HoldKeepsFlag ==
    /\ placed /\ armed > 0 /\ ~(active /\ enabled)
    /\ armed' = armed - 1
    /\ UNCHANGED <<placed, count, active, enabled, scheduled, next, sent, state, obs>>

\* A tick of a paused train keeps the place and arms nothing; a tick of a
\* train that is over would do nothing at all.
Hold ==
    /\ placed /\ armed > 0 /\ ~(active /\ enabled)
    /\ armed' = armed - 1 /\ scheduled' = (scheduled /\ ~active)
    /\ UNCHANGED <<placed, count, active, enabled, next, sent, state, obs>>

\* The rising edge: the train cannot end before the falling one.
TickUp ==
    /\ placed /\ armed > 0 /\ active /\ enabled /\ next = 1
    /\ sink' = Rise(sink) /\ next' = 0
    /\ armed' = armed - 1 + 1 /\ scheduled' = TRUE
    /\ UNCHANGED <<placed, count, active, enabled, sent, state, got>>

\* The falling edge completes a pulse and may end the train: EOF goes out
\* behind it and no tick is armed.
TickDown ==
    /\ placed /\ armed > 0 /\ active /\ enabled /\ next = 0
    /\ next' = 1 /\ sent' = Upto(sent + 1) /\ got' = Upto(got + 1)
    /\ IF Finished(sent + 1)
       THEN /\ sink' = End(Fall(sink)) /\ active' = FALSE /\ state' = "Stopping"
            /\ armed' = armed - 1 /\ scheduled' = FALSE
       ELSE /\ sink' = Fall(sink)
            /\ armed' = armed - 1 + 1 /\ scheduled' = TRUE
            /\ UNCHANGED <<active, state>>
    /\ UNCHANGED <<placed, count, enabled>>

Pulse_Tick == Hold \/ TickUp \/ TickDown

\* Only msg_send is taken; any other kind is dropped.  Waking a paused train
\* arms a tick unless the one it was paused with has not fired yet.
OnEnable(message, value) ==
    /\ placed
    /\ enabled' = (IF message = "send" THEN value ELSE enabled)
    /\ IF message = "send" /\ value /\ ~enabled /\ active /\ ~scheduled
       THEN AddTaskMilli
       ELSE UNCHANGED <<armed, scheduled>>
    /\ UNCHANGED <<placed, count, active, next, sent, state, obs>>

\* The user retunes Count from the panel; nothing handles the write.
SetCount(c) ==
    /\ placed /\ count' = c
    /\ UNCHANGED <<placed, active, enabled, scheduled, next, sent, armed, state, obs>>

Next ==
    \/ InstanceStart \/ InstanceEnd \/ Activate \/ Pulse_Tick
    \/ \E m \in EnableMsgs, v \in BOOLEAN : OnEnable(m, v)
    \/ \E c \in 0 .. MaxCount : SetCount(c)

\* An armed task is run by a later tick of the main loop.
Fairness == WF_vars(Pulse_Tick)

Spec == Init /\ [][Next]_vars /\ Fairness

-----------------------------------------------------------------------------
(* Properties *)

\* However pauses, resumes and activations fall, the `scheduled` flag tells
\* whether the task is armed, and it is never armed twice.
FlagIsTruth == armed = (IF placed /\ scheduled THEN 1 ELSE 0)

\* No wake-up is lost: a running, enabled train has a tick to come, and a train
\* that ended leaves none behind.
TrainTicks ==
    placed => (active /\ enabled => armed = 1) /\ (~active => armed = 0)

\* A sink sees edges alternate, also across pauses and retunings, and a train
\* end only after a falling edge ("we never stop mid-pulse").
NeverMidPulse == sink # "broken"

\* A train that ends has sent the pulses asked for: a train is cut short of
\* Count by nothing (the sink counts for itself).
EndsAtCount == [][placed' /\ active /\ ~active' /\ placed => got' >= count /\ sink' = "ended"]_vars

\* A finite train that stays enabled ends: pauses and retunings on the way do
\* not lose it.
TrainEnds == (<>[]enabled /\ <>[](count > 0)) => []<>(~active \/ ~placed)
==============================================================================
