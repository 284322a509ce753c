-------------------------------- MODULE Sched --------------------------------
(***************************************************************************)
(* The scheduler of src/src/sched.c at the level of its pointers: doubly   *)
(* linked main and runnow lists through the same next/prev fields, the     *)
(* freelist through next, the insertion hint, and malloc/free of entries.  *)
(* The record `list` is the heap the C code mutates; each operator on it   *)
(* is the C function of the same name as a function from heap to heap.     *)
(*                                                                         *)
(* Clients (callbacks, and set-up code before the main loop) call the      *)
(* public functions on the handles they hold.  The code leaves two rules   *)
(* to them.  No task is armed while it is scheduled: every object must     *)
(* keep a flag for that (Pulse, MoButton and PulseGenerator).  And no task *)
(* is retired or deleted once the current tick has moved it to runnow; the *)
(* constant RetireBatched lets clients break this rule, as they do.        *)
(***************************************************************************)
EXTENDS SchedTime, Sequences, FiniteSets

CONSTANTS Tasks, NULL, Delays, Clock, RetireBatched

ASSUME SchedAssumption ==
    /\ NULL \notin Tasks /\ IsFiniteSet(Tasks)
    /\ Delays \subseteq Nat \X (0 .. MicrosPerSec - 1)
    /\ Clock \subseteq Reading /\ Clock # {}
    /\ RetireBatched \in BOOLEAN

VARIABLES list,    \* the task_list and every task_entry
          held,    \* handles that clients own
          now,     \* the cached clock of timer.c
          phase,   \* where the main loop is
          cur      \* the entry whose callback is running

vars == <<list, held, now, phase, cur>>

Ptr == Tasks \cup {NULL}

ListType ==
    [head : Ptr, tail : Ptr, rhead : Ptr, rtail : Ptr, pool : Ptr, insertHint : Ptr,
     next : [Tasks -> Ptr], prev : [Tasks -> Ptr], linked : [Tasks -> BOOLEAN],
     callback : [Tasks -> BOOLEAN], due : [Tasks -> DueTime], heap : SUBSET Tasks]

-----------------------------------------------------------------------------
(* sched.c, function by function *)

CreateList ==
    [head |-> NULL, tail |-> NULL, rhead |-> NULL, rtail |-> NULL,
     pool |-> NULL, insertHint |-> NULL,
     next |-> [t \in Tasks |-> NULL], prev |-> [t \in Tasks |-> NULL],
     linked |-> [t \in Tasks |-> FALSE], callback |-> [t \in Tasks |-> FALSE],
     due |-> [t \in Tasks |-> <<0, 0>>], heap |-> {}]

\* The entries that a walk along next visits, in order (a chain never needs
\* more steps than there are entries).
Chain(L, start) ==
    LET at[k \in 1 .. Cardinality(Tasks)] ==
            IF k = 1 THEN start
            ELSE LET p == at[k - 1] IN IF p = NULL THEN NULL ELSE L.next[p]
        met == {k \in 1 .. Cardinality(Tasks) : at[k] # NULL}
    IN  [k \in 1 .. Cardinality(met) |-> at[k]]

\* Where a walk stops that looks for the first of the places K.
StopAt(s, K) == IF K = {} THEN NULL ELSE s[CHOOSE k \in K : \A j \in K : k <= j]

\* malloc hands out an entry that is not allocated; its fields are cleared.
CreateTask(L, t) ==
    [L EXCEPT !.heap = @ \cup {t}, !.next[t] = NULL, !.prev[t] = NULL,
              !.linked[t] = FALSE, !.callback[t] = FALSE]

\* Unlinking goes by the entry's own pointers and by task->owner, which is the
\* main list whichever list the entry is in.
Unlink(L, t) ==
    LET p == L.prev[t]
        n == L.next[t]
    IN  [L EXCEPT
           !.insertHint = IF @ = t THEN NULL ELSE @,
           !.head = IF p = NULL THEN n ELSE @,
           !.tail = IF n = NULL THEN p ELSE @,
           !.next = [u \in Tasks |-> IF u = t THEN NULL ELSE IF u = p THEN n ELSE @[u]],
           !.prev = [u \in Tasks |-> IF u = t THEN NULL ELSE IF u = n THEN p ELSE @[u]],
           !.linked[t] = FALSE]

\* Faulty variant of RemoveTaskFromList: the insertion hint stays on the entry.
RemoveKeepsHint(L, t) ==
    IF L.linked[t] THEN [Unlink(L, t) EXCEPT !.insertHint = L.insertHint] ELSE L

\* An entry in no list is left alone.
RemoveTaskFromList(L, t) == IF L.linked[t] THEN Unlink(L, t) ELSE L

\* GetTask when the freelist has an entry; otherwise it is CreateTask.
PopPool(L) == [L EXCEPT !.pool = L.next[L.pool], !.next[L.pool] = NULL]

RemoveTask(L, t) ==
    LET R == RemoveTaskFromList(L, t)
    IN  [R EXCEPT !.callback[t] = FALSE, !.next[t] = R.pool, !.pool = t]

\* The freelist link that points at t, as DeleteTask searches it.
PoolPred(L, t) ==
    LET s == Chain(L, L.pool)
    IN  StopAt(s, {k \in DOMAIN s : L.next[s[k]] = t})

\* Faulty variant of DeleteTask: a retired entry stays on the freelist.
DeleteKeepsPool(L, t) ==
    LET R == RemoveTaskFromList(L, t)
    IN  [R EXCEPT !.insertHint = IF @ = t THEN NULL ELSE @, !.heap = @ \ {t},
                  !.prev[t] = NULL, !.callback[t] = FALSE]

\* DeactivateTask, out of the freelist, out of the hint, free.  The
\* task_deactivate call returns at once in every callback.
DeleteTask(L, t) ==
    LET R == RemoveTaskFromList(L, t)
        p == PoolPred(R, t)
        Q == IF R.pool = t THEN [R EXCEPT !.pool = R.next[t]]
             ELSE IF p # NULL THEN [R EXCEPT !.next[p] = R.next[t]] ELSE R
    IN  [Q EXCEPT !.insertHint = IF @ = t THEN NULL ELSE @,
                  !.heap = @ \ {t}, !.next[t] = NULL, !.prev[t] = NULL,
                  !.callback[t] = FALSE]

\* The insertion walk, past every entry that is due no later than w.
WalkPast(L, w, start) ==
    LET s == Chain(L, start)
    IN  StopAt(s, {k \in DOMAIN s : ~NotAfter(L.due[s[k]], w)})

\* Faulty variant of InsertPoint: any linked hint is trusted.
InsertPointTrustsHint(L, w) ==
    WalkPast(L, w, IF L.insertHint # NULL /\ L.linked[L.insertHint] THEN L.insertHint ELSE L.head)

\* Where an entry due at w goes: the walk starts from the hint when that is
\* usable, else from the head.
InsertPoint(L, w) ==
    LET usable == /\ L.insertHint # NULL
                  /\ L.linked[L.insertHint]
                  /\ NotAfter(L.due[L.insertHint], w)
    IN  WalkPast(L, w, IF usable THEN L.insertHint ELSE L.head)

\* The splice in front of c (NULL: at the tail).
Splice(L, t, c) ==
    IF L.head = NULL THEN [L EXCEPT !.head = t, !.tail = t]
    ELSE IF c = L.head THEN [L EXCEPT !.prev[c] = t, !.next[t] = c, !.head = t]
    ELSE IF c = NULL THEN [L EXCEPT !.next[L.tail] = t, !.prev[t] = L.tail, !.tail = t]
    ELSE [L EXCEPT !.prev = [@ EXCEPT ![t] = L.prev[c], ![c] = t],
                   !.next = [@ EXCEPT ![t] = c, ![L.prev[c]] = t]]

\* AddTaskDelay does not unlink an entry that is already scheduled.
AddTaskDelay(L, t, w) ==
    LET A == [L EXCEPT !.callback[t] = TRUE, !.due[t] = w, !.next[t] = NULL,
                       !.prev[t] = NULL, !.linked[t] = TRUE]
    IN  [Splice(A, t, InsertPoint(A, w)) EXCEPT !.insertHint = t]

\* AddTaskToTail on runnow.
AddTaskToTail(L, t) ==
    IF L.rhead = NULL
    THEN [L EXCEPT !.linked[t] = TRUE, !.rhead = t, !.rtail = t,
                   !.next[t] = NULL, !.prev[t] = NULL]
    ELSE [L EXCEPT !.linked[t] = TRUE, !.next = [@ EXCEPT ![L.rtail] = t, ![t] = NULL],
                   !.prev[t] = L.rtail, !.rtail = t]

\* ExecTasks takes the head of runnow; the new head's prev is not cleared.
PopRunnow(L) ==
    [L EXCEPT !.rhead = L.next[L.rhead], !.next[L.rhead] = NULL,
              !.prev[L.rhead] = NULL, !.linked[L.rhead] = FALSE]

AdjustDelayedTasks(L, offset) ==
    LET waiting == Chain(L, L.head)
    IN  [L EXCEPT !.due = [t \in Tasks |->
            IF \E i \in DOMAIN waiting : waiting[i] = t THEN Shift(@[t], offset) ELSE @[t]]]

-----------------------------------------------------------------------------
Elems(s) == {s[i] : i \in DOMAIN s}
MainChain == Chain(list, list.head)
RunChain == Chain(list, list.rhead)
PoolChain == Chain(list, list.pool)

Init ==
    /\ list = CreateList /\ held = {}
    /\ now \in Clock /\ phase = "boot" /\ cur = NULL

ClientTurn == phase \in {"boot", "call"}

\* CreateTask (a fresh entry) and GetTask (a recycled one while there is one).
AcquireTask(t) ==
    /\ ClientTurn
    /\ \/ /\ list.pool = t /\ list' = PopPool(list)
       \/ /\ t \notin list.heap /\ list' = CreateTask(list, t)
    /\ held' = held \cup {t}
    /\ UNCHANGED <<now, phase, cur>>

\* AddTaskDelay and its shorthands AddTaskNow, AddTaskMilli and AddTaskSec.
ScheduleTask(t, d) ==
    /\ ClientTurn /\ t \in held /\ ~list.linked[t]
    /\ list' = AddTaskDelay(list, t, DueAt(now, d))
    /\ UNCHANGED <<held, now, phase, cur>>

MayRetire(t) == RetireBatched \/ t \notin Elems(RunChain)

\* The client gives its handle up.
RetireTask(t) ==
    /\ ClientTurn /\ t \in held /\ MayRetire(t)
    /\ list' = RemoveTask(list, t)
    /\ held' = held \ {t}
    /\ UNCHANGED <<now, phase, cur>>

\* DeleteTask, on a task in use or on one retired earlier (ComfyUI and
\* StableDiffusion do both); the running callback may delete its own task.
FreeTask(t) ==
    /\ ClientTurn /\ t \in list.heap /\ MayRetire(t)
    /\ t \in held \/ t \in Elems(PoolChain)
    /\ list' = DeleteTask(list, t)
    /\ held' = held \ {t}
    /\ UNCHANGED <<now, phase, cur>>

EnterLoop ==
    /\ phase = "boot" /\ phase' = "idle"
    /\ UNCHANGED <<list, held, now, cur>>

\* MainLoop: TimeUpdate, AdjustDelayedTasks, then into ExecTasks.
MainLoop(n) ==
    /\ phase = "idle" /\ phase' = "collect"
    /\ now' = n
    /\ list' = AdjustDelayedTasks(list, ClockOffset(now, n))
    /\ UNCHANGED <<held, cur>>

\* One turn of the loop in ActivateTimedTasks.
ActivateOne ==
    /\ phase = "collect" /\ list.head # NULL
    /\ NotAfter(list.due[list.head], now)
    /\ list' = AddTaskToTail(RemoveTaskFromList(list, list.head), list.head)
    /\ UNCHANGED <<held, now, phase, cur>>

\* The first entry that is not due ends it.  ExecTasks returns 0 when there is
\* nothing to run and nothing waiting, and the main loop then stops.
ActivateEnd ==
    /\ phase = "collect"
    /\ list.head # NULL => ~NotAfter(list.due[list.head], now)
    /\ phase' = IF list.head = NULL /\ list.rhead = NULL THEN "stopped" ELSE "run"
    /\ UNCHANGED <<list, held, now, cur>>

\* One turn of the loop in ExecTasks, up to the call of the callback.
ExecOne ==
    /\ phase = "run" /\ list.rhead # NULL
    /\ list' = PopRunnow(list)
    /\ IF list.callback[list.rhead]
       THEN cur' = list.rhead /\ phase' = "call"
       ELSE UNCHANGED <<cur, phase>>
    /\ UNCHANGED <<held, now>>

CallbackReturn ==
    /\ phase = "call" /\ phase' = "run" /\ cur' = NULL
    /\ UNCHANGED <<list, held, now>>

ExecEnd ==
    /\ phase = "run" /\ list.rhead = NULL /\ phase' = "idle"
    /\ list' = [list EXCEPT !.rtail = NULL]
    /\ UNCHANGED <<held, now, cur>>

Next ==
    \/ \E t \in Tasks : AcquireTask(t) \/ RetireTask(t) \/ FreeTask(t)
    \/ \E t \in Tasks, d \in Delays : ScheduleTask(t, d)
    \/ EnterLoop
    \/ \E n \in Clock : MainLoop(n)
    \/ ActivateOne \/ ActivateEnd \/ ExecOne \/ CallbackReturn \/ ExecEnd

Spec == Init /\ [][Next]_vars

-----------------------------------------------------------------------------
(* Properties *)

\* Type correctness of the scheduler's state; no client holds a freed entry.
TypeOK ==
    /\ list \in ListType
    /\ held \subseteq list.heap
    /\ now \in Clock
    /\ phase \in {"boot", "idle", "collect", "run", "call", "stopped"}
    /\ cur \in Ptr

\* No armed task is ever lost or reachable twice: the entries marked linked are
\* exactly those that a walk of the main list or of runnow visits, each once,
\* the tail ends the walk (sched.c:65-71, 166-169), and the insertion hint is an
\* entry of the main list, never one that moved to runnow, to the freelist or was
\* freed (sched.c:173-182: the stall).
NothingLost ==
    LET m == MainChain
        r == RunChain
    IN  /\ \A t \in Tasks : list.linked[t] <=> t \in Elems(m) \cup Elems(r)
        /\ Cardinality(Elems(m) \cup Elems(r)) = Len(m) + Len(r)
        /\ list.tail = IF m = <<>> THEN NULL ELSE m[Len(m)]
        /\ \A i \in 1 .. Len(m) : list.prev[m[i]] = IF i = 1 THEN NULL ELSE m[i - 1]
        /\ list.insertHint # NULL => list.insertHint \in Elems(m)

\* No walk of the main list, of runnow or of the freelist reaches an entry that
\* has been freed, be it that DeleteTask took it from the main list, from the
\* freelist or from no list (sched.c:262-284), and the freelist is exactly the
\* allocated entries that no client owns: GetTask hands out no task in use, and
\* none leaks (sched.c:121-124, 203-241).  An entry in runnow is left out: with
\* RetireBatched = TRUE this does not hold, against "any list it is in".
DeleteCopes ==
    /\ Elems(MainChain) \cup Elems(RunChain) \cup Elems(PoolChain) \subseteq list.heap
    /\ \A t \in Elems(PoolChain) : ~list.linked[t]
    /\ Elems(PoolChain) = list.heap \ held

\* The pointer structure implements the time-ordered line of TaskQueue.
LineOf == INSTANCE TaskQueue WITH
    queue <- MainChain, batch <- RunChain, due <- list.due

\* What AddTaskDelay, ActivateTimedTasks, ExecTasks and the removals do to the
\* linked lists is what TaskQueue says of the line.
ImplementsTaskQueue == LineOf!Spec
==============================================================================
