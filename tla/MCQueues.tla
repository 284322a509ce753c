------------------------------ MODULE MCQueues -------------------------------
(***************************************************************************)
(* What the main loop serves, for TLC: the scheduler's line of tasks and   *)
(* the fabric with its envelopes.  The fabric sees of the line only that   *)
(* it is first come, first served, and the line sees nothing of the        *)
(* fabric, so one of them is looked at in each behaviour and the other     *)
(* rests; `of` says which.                                                 *)
(***************************************************************************)
EXTENDS TaskQueue, Fabric

CONSTANTS t1, t2, t3, MaxSec, a, b, c, Value, Wired

MCClock == (0 .. MaxSec) \X (0 .. MicrosPerSec - 1)

MCDelays == {<<0, 0>>, <<0, 1>>, <<1, 0>>}

\* A fan-out of two that may both be handled, and a watcher of a sink's wiring.
MCWirable == {<<<<a, Value>>, <<b, Value>>>>, <<<<a, Value>>, <<c, Value>>>>,
              <<<<c, Wired>>, <<b, Value>>>>}

\* c may stand for a.
MCLinkable == {<<<<c, Value>>, <<a, Value>>>>}

MCHandled == {<<b, Value>>, <<c, Value>>}

VARIABLE of

QueuesVars == <<of, vars, fabricVars>>

QueuesInit ==
    /\ of \in {"line", "fabric"}
    /\ Init /\ FabricInit
    /\ of = "line" \/ now = <<0, 0>>

LineStep   == of = "line" /\ Next /\ UNCHANGED <<of, fabricVars>>
FabricStep == of = "fabric" /\ FabricNext /\ UNCHANGED <<of, vars>>

QueuesNext == LineStep \/ FabricStep

QueuesSpec == QueuesInit /\ [][QueuesNext]_QueuesVars /\ Fairness /\ FabricFairness
==============================================================================
