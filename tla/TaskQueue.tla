------------------------------ MODULE TaskQueue ------------------------------
(***************************************************************************)
(* What the scheduler of src/src/sched.c promises, with its linked lists   *)
(* replaced by sequences: one line of pending tasks in order of due time,  *)
(* first come first served among equals, served in ticks.  A tick collects *)
(* the tasks that are due into a batch (the runnow list), then runs the    *)
(* batch one callback at a time; a callback may arm or drop tasks.         *)
(***************************************************************************)
EXTENDS SchedTime, Null, Sequences

CONSTANTS Tasks,    \* task entries
          Delays,   \* the <<seconds, micros>> delays clients pass to AddTaskDelay
          Clock     \* the readings gettimeofday may return

ASSUME QueueAssumption ==
    /\ NULL \notin Tasks
    /\ Delays \subseteq Nat \X (0 .. MicrosPerSec - 1)
    /\ Clock \subseteq Reading
    /\ Clock # {}

VARIABLES queue,   \* the time-sorted main list
          batch,   \* the runnow bucket
          due,     \* due time of each entry
          now,     \* the cached clock, read once per tick by TimeUpdate
          phase,   \* where the main loop is
          cur      \* the task whose callback is running

vars == <<queue, batch, due, now, phase, cur>>

Phases == {"boot", "idle", "collect", "run", "call", "stopped"}

Members(s) == {s[i] : i \in DOMAIN s}

\* Everything armed and not yet run, in the order it will run.
Line == batch \o queue

\* a stands before b in s.
Ahead(s, a, b) == \E i, j \in DOMAIN s : i < j /\ s[i] = a /\ s[j] = b

\* s with t put in behind its first k entries.
InsertAfter(s, k, t) ==
    [i \in 1 .. Len(s) + 1 |->
        IF i <= k THEN s[i] ELSE IF i = k + 1 THEN t ELSE s[i - 1]]

\* s without its k-th entry.
RemoveNth(s, k) == [i \in 1 .. Len(s) - 1 |-> IF i < k THEN s[i] ELSE s[i + 1]]

-----------------------------------------------------------------------------
Init ==
    /\ queue = <<>> /\ batch = <<>>
    /\ due = [t \in Tasks |-> <<0, 0>>]
    /\ now \in Clock
    /\ phase = "boot" /\ cur = NULL

\* Client code runs while the program is set up and inside callbacks.
ClientTurn == phase \in {"boot", "call"}

\* Faulty variants of Arm, to show what the properties catch: without the check
\* that the task is not scheduled; in front of its ties; at the tail whatever is
\* there; straight into the running batch when it is due at once.
ArmTwice(t, d) ==
    /\ ClientTurn
    /\ queue' = Append(queue, t)
    /\ due' = [due EXCEPT ![t] = DueAt(now, d)]
    /\ UNCHANGED <<batch, now, phase, cur>>

ArmBeforeTies(t, d) ==
    /\ ClientTurn /\ t \notin Members(Line)
    /\ LET w == DueAt(now, d) IN
       \E k \in 0 .. Len(queue) :
          /\ \A i \in 1 .. k : ~NotAfter(w, due[queue[i]])
          /\ \A i \in k + 1 .. Len(queue) : NotAfter(w, due[queue[i]])
          /\ queue' = InsertAfter(queue, k, t)
          /\ due' = [due EXCEPT ![t] = w]
    /\ UNCHANGED <<batch, now, phase, cur>>

ArmAtTail(t, d) == t \notin Members(Line) /\ ArmTwice(t, d)

ArmIntoBatch(t, d) ==
    /\ ClientTurn /\ t \notin Members(Line)
    /\ NotAfter(DueAt(now, d), now)
    /\ batch' = Append(batch, t)
    /\ due' = [due EXCEPT ![t] = DueAt(now, d)]
    /\ UNCHANGED <<queue, now, phase, cur>>

\* AddTaskDelay: join the line behind every entry that is due no later.
Arm(t, d) ==
    /\ ClientTurn
    /\ t \notin Members(Line)
    /\ LET w == DueAt(now, d) IN
       \E k \in 0 .. Len(queue) :
          /\ \A i \in 1 .. k : NotAfter(due[queue[i]], w)
          /\ \A i \in k + 1 .. Len(queue) : ~NotAfter(due[queue[i]], w)
          /\ queue' = InsertAfter(queue, k, t)
          /\ due' = [due EXCEPT ![t] = w]
    /\ UNCHANGED <<batch, now, phase, cur>>

\* RemoveTask or DeleteTask on an entry that waits in the line.
Drop(t) ==
    /\ ClientTurn
    /\ \/ \E k \in DOMAIN queue :
             queue[k] = t /\ queue' = RemoveNth(queue, k) /\ batch' = batch
       \/ \E k \in DOMAIN batch :
             batch[k] = t /\ batch' = RemoveNth(batch, k) /\ queue' = queue
    /\ UNCHANGED <<due, now, phase, cur>>

\* Set-up is over, the main loop starts.
EnterLoop ==
    /\ phase = "boot" /\ phase' = "idle"
    /\ UNCHANGED <<queue, batch, due, now, cur>>

\* TimeUpdate and AdjustDelayedTasks: a new reading; when it steps by more
\* than a second the due times of the waiting tasks move along with it.
Tick(n) ==
    /\ phase = "idle" /\ phase' = "collect"
    /\ now' = n
    /\ LET off == ClockOffset(now, n) IN
       due' = [t \in Tasks |-> IF t \in Members(queue) THEN Shift(due[t], off) ELSE due[t]]
    /\ UNCHANGED <<queue, batch, cur>>

\* ActivateTimedTasks: the head of the line is due and joins the batch ...
Collect ==
    /\ phase = "collect" /\ queue # <<>>
    /\ NotAfter(due[Head(queue)], now)
    /\ batch' = Append(batch, Head(queue))
    /\ queue' = Tail(queue)
    /\ UNCHANGED <<due, now, phase, cur>>

\* ... until the head is not due.
Collected ==
    /\ phase = "collect"
    /\ queue # <<>> => ~NotAfter(due[Head(queue)], now)
    /\ phase' = IF queue = <<>> /\ batch = <<>> THEN "stopped" ELSE "run"
    /\ UNCHANGED <<queue, batch, due, now, cur>>

\* ExecTasks takes the first task of the batch and calls it.
Run ==
    /\ phase = "run" /\ batch # <<>>
    /\ cur' = Head(batch) /\ batch' = Tail(batch) /\ phase' = "call"
    /\ UNCHANGED <<queue, due, now>>

\* The callback returns.
Return ==
    /\ phase = "call" /\ phase' = "run" /\ cur' = NULL
    /\ UNCHANGED <<queue, batch, due, now>>

\* The batch is drained; the loop sleeps until it reads the clock again.
Sleep ==
    /\ phase = "run" /\ batch = <<>> /\ phase' = "idle"
    /\ UNCHANGED <<queue, batch, due, now, cur>>

Next ==
    \/ \E t \in Tasks, d \in Delays : Arm(t, d)
    \/ \E t \in Tasks : Drop(t)
    \/ EnterLoop
    \/ \E n \in Clock : Tick(n)
    \/ Collect \/ Collected \/ Run \/ Return \/ Sleep

Spec == Init /\ [][Next]_vars

\* Callbacks return and the main loop goes on: the program is one thread, and
\* nothing in ExecTasks waits.
Fairness == WF_vars(Collect \/ Collected \/ Run \/ Sleep) /\ WF_vars(Return)

-----------------------------------------------------------------------------
(* Properties *)

\* Type correctness of the line and the loop.
TypeOK ==
    /\ queue \in Seq(Tasks) /\ batch \in Seq(Tasks)
    /\ due \in [Tasks -> DueTime]
    /\ now \in Clock /\ phase \in Phases /\ cur \in Tasks \cup {NULL}

\* No task stands in the line twice.
Distinct(s) == \A i, j \in DOMAIN s : s[i] = s[j] => i = j

\* The main list is in order of due time (sched.c:414, 607-612).
Sorted == \A i, j \in DOMAIN queue : i < j => NotAfter(due[queue[i]], due[queue[j]])

\* A task waits in one place only, and the main list is in order.
LineOK == Distinct(Line) /\ Sorted

\* First come, first served: no step lets one waiting task overtake another,
\* and a task that joins the line joins behind every task of the main list that
\* is due no later, ties included (sched.c:415-423: a burst of same-tick sends
\* is delivered in the order it was sent).
FifoStep ==
    /\ \A a, b \in Members(Line) \cap Members(Line)' : Ahead(Line, a, b) => Ahead(Line', a, b)
    /\ \A a \in Members(Line), t \in Members(Line)' \ Members(Line) :
          NotAfter(due'[a], due'[t]) => Ahead(Line', a, t)

Fifo == [][FifoStep]_vars

\* When a tick begins to run callbacks no task that was due is left behind in
\* the main list, although ActivateTimedTasks looks at its head only
\* (sched.c:173-182: a due task stuck behind a far-future timer).
NoneLeftBehindStep ==
    phase = "collect" /\ phase' # "collect" =>
        \A t \in Members(queue) : ~NotAfter(due[t], now)

NoneLeftBehind == [][NoneLeftBehindStep]_vars

\* Once a tick runs callbacks nothing joins its batch: tasks armed by a callback,
\* with no delay even, wait for the next tick (sched.c:561-562).
BatchClosedStep ==
    phase \in {"run", "call"} => Members(batch') \subseteq Members(batch)

BatchClosed == [][BatchClosedStep]_vars

\* A tick comes to its end whatever the callbacks arm: what they schedule, even
\* with no delay, waits for the next tick (sched.c:561-562).
TickEnds == phase = "run" ~> phase = "idle"
==============================================================================
