------------------------------ MODULE SchedTime ------------------------------
(***************************************************************************)
(* Clock readings and due times of the scheduler (src/src/sched.c and      *)
(* src/src/timer.c).  A reading is a pair <<seconds, micros>>; the number  *)
(* of microseconds in a second is a parameter so that TLC can meet every   *)
(* carry with a second of two or three ticks.                              *)
(***************************************************************************)
EXTENDS Integers

CONSTANT MicrosPerSec

ASSUME MicrosAssumption == MicrosPerSec \in Nat \ {0}

\* A clock reading as gettimeofday returns it: micros stay below a second.
Reading == Nat \X (0 .. MicrosPerSec - 1)

\* A due time: AddTaskDelay carries only when the sum EXCEEDS a second, so a
\* due time may hold exactly MicrosPerSec microseconds.
DueTime == Nat \X (0 .. MicrosPerSec)

\* a is no later than b: the two-field comparison that the insertion walk
\* (sched.c:439) and ActivateTimedTasks (sched.c:533, negated) both use.
NotAfter(a, b) == a[1] < b[1] \/ (a[1] = b[1] /\ a[2] <= b[2])

\* The absolute due time AddTaskDelay computes from the cached clock.
DueAt(clock, delay) ==
    LET s == clock[1] + delay[1]
        m == clock[2] + delay[2]
    IN  IF m > MicrosPerSec THEN <<s + 1, m - MicrosPerSec>> ELSE <<s, m>>

\* TimeUpdate's verdict on a new reading: the step in whole seconds when it is
\* backwards or more than one second forwards, and otherwise 0 (no correction).
ClockOffset(old, new) ==
    LET step == new[1] - old[1]
    IN  IF step < 0 \/ step > 1 THEN step ELSE 0

\* AdjustDelayedTasks on one due time.  The code adds an unsigned long; a
\* negative offset wraps, which is the same sum.
Shift(d, offset) == <<d[1] + offset, d[2]>>
==============================================================================
