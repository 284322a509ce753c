------------------------------- MODULE MCSched -------------------------------
(* Instances of Sched for TLC. *)
EXTENDS Sched, TLC

CONSTANTS t1, t2, t3, MaxSec

\* Every reading of a clock with MaxSec + 1 seconds: TLC meets steps of one
\* second, jumps of more than one, and steps backwards.
MCClock == (0 .. MaxSec) \X (0 .. MicrosPerSec - 1)

\* Now, one microsecond less than a second's worth, and a whole second.
MCDelays == {<<0, 0>>, <<0, 1>>, <<1, 0>>}

TaskSymmetry == Permutations(Tasks)
==============================================================================
