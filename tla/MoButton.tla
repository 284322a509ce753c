------------------------------ MODULE MoButton -------------------------------
(***************************************************************************)
(* Momentary buttons (src/objects/mobutton/mobutton.c): an edge out on     *)
(* press and on release, and while held the press edge again every         *)
(* Interval.  `armed` counts the AddTaskMilli calls on a button's one      *)
(* repeat task that have not fired; Interval matters only by being         *)
(* positive or not.  `heard` is what a sink on the button's Value heard    *)
(* last: every write of Value is sent to it, in order.                     *)
(*                                                                         *)
(* Nothing tells the handlers that the repeat task of an earlier press is  *)
(* still waiting.  With Hasty = FALSE hands are slow enough never to press *)
(* while it does.                                                          *)
(***************************************************************************)
EXTENDS Naturals

CONSTANTS Buttons, Hasty

ConstantsOK == Hasty \in BOOLEAN

VARIABLES active, enabled, down,  \* InstanceData
          repeats,                \* Interval > 0
          heard, armed

vars == <<active, enabled, down, repeats, heard, armed>>

TypeOK ==
    /\ {active, enabled, down, repeats} \subseteq [Buttons -> BOOLEAN]
    /\ heard \in [Buttons -> {0, 1}] /\ armed \in [Buttons -> {0, 1}]

\* InstanceStart: a button comes up enabled, released, with no auto-repeat.
Init ==
    /\ active = [b \in Buttons |-> FALSE] /\ enabled = [b \in Buttons |-> TRUE]
    /\ down = [b \in Buttons |-> FALSE] /\ repeats = [b \in Buttons |-> FALSE]
    /\ heard = [b \in Buttons |-> 0] /\ armed = [b \in Buttons |-> 0]

\* Faulty variant: a repeat task that fires after the release still sends.
RepeatUnguarded(b) ==
    /\ armed[b] > 0
    /\ heard' = [heard EXCEPT ![b] = 1]
    /\ armed' = [armed EXCEPT ![b] = @ - 1 + IF repeats[b] THEN 1 ELSE 0]
    /\ UNCHANGED <<active, enabled, down, repeats>>

\* The repeat task fires: a button released or disabled meanwhile lets it rest.
Repeat(b) ==
    /\ armed[b] > 0
    /\ LET held == down[b] /\ enabled[b]
       IN  /\ heard' = IF held THEN [heard EXCEPT ![b] = 1] ELSE heard
           /\ armed' = [armed EXCEPT ![b] = @ - 1 + IF held /\ repeats[b] THEN 1 ELSE 0]
    /\ UNCHANGED <<active, enabled, down, repeats>>

\* Press or release; only an edge does anything, and a disabled button drops
\* both.
OnPress(b, press) ==
    /\ enabled[b] /\ press # down[b]
    /\ press /\ repeats[b] => armed[b] = 0 \/ Hasty
    /\ down' = [down EXCEPT ![b] = press]
    /\ heard' = [heard EXCEPT ![b] = IF press THEN 1 ELSE 0]
    /\ armed' = [armed EXCEPT ![b] = @ + IF press /\ repeats[b] THEN 1 ELSE 0]
    /\ UNCHANGED <<active, enabled, repeats>>

\* Faulty variant: a button disabled while held stays down.
OnEnableHolds(b, value) ==
    /\ enabled' = [enabled EXCEPT ![b] = value]
    /\ UNCHANGED <<active, down, repeats, heard, armed>>

\* The msg_send of a new Enable value; other kinds of message are dropped.  A
\* button disabled while held lets go.
OnEnable(b, value) ==
    /\ enabled' = [enabled EXCEPT ![b] = value]
    /\ IF ~value /\ down[b]
       THEN down' = [down EXCEPT ![b] = FALSE] /\ heard' = [heard EXCEPT ![b] = 0]
       ELSE UNCHANGED <<down, heard>>
    /\ UNCHANGED <<active, repeats, armed>>

Activate(b) ==
    /\ ~active[b] /\ active' = [active EXCEPT ![b] = TRUE]
    /\ UNCHANGED <<enabled, down, repeats, heard, armed>>

\* The Interval property is written while the button may be held.
SetInterval(b) ==
    /\ repeats' = [repeats EXCEPT ![b] = ~@]
    /\ UNCHANGED <<active, enabled, down, heard, armed>>

Next == \E b \in Buttons :
    \/ Repeat(b) \/ Activate(b) \/ SetInterval(b)
    \/ \E v \in BOOLEAN : OnPress(b, v) \/ OnEnable(b, v)

\* An armed task is run by a later tick of the main loop.
Fairness == \A b \in Buttons : WF_vars(Repeat(b))

Spec == Init /\ [][Next]_vars /\ Fairness

-----------------------------------------------------------------------------
(* Properties *)

\* No sink is left latched on: whatever is pending when a button is released
\* or disabled, the last thing heard from it is the release.
NeverLatched == \A b \in Buttons : heard[b] = (IF down[b] /\ enabled[b] THEN 1 ELSE 0)

\* A repeat dies out after the release: the task does not stay armed for a
\* button nobody presses again.
RepeatDies == \A b \in Buttons : <>[](~down[b]) => <>[](armed[b] = 0)
==============================================================================
