----------------------------- MODULE PollClient ------------------------------
(***************************************************************************)
(* The widgets that talk to a model server: ComfyUI, StableDiffusion and   *)
(* Ollama (src/objects/comfyui, stablediffusion and ollama).  Each opens a *)
(* socket, polls it from a task until the reply is complete or a deadline  *)
(* passes, and may have a second task, `retry`.  What the server and the   *)
(* network do is any of the outcomes the code distinguishes.               *)
(*                                                                         *)
(* Of a task the client holds only a pointer.  RemoveTask puts the entry   *)
(* on the scheduler's freelist, from which any SndMsg takes it (sched.c,   *)
(* GetTask); a client that arms or retires it again uses an entry that is  *)
(* no longer its own.  `retired` are the tasks given up this way, and      *)
(* `tainted` records that such a task, or one that was armed, was used.    *)
(* From there on the scheduler's lists are damaged; the model follows the  *)
(* client alone, whose task may be taken from it.                          *)
(***************************************************************************)
EXTENDS Naturals

CONSTANT Kinds  \* which of the three widgets are looked at

ConstantsOK == Kinds \subseteq {"comfyui", "stablediffusion", "ollama"} /\ Kinds # {}

VARIABLES kind,
          placed,   \* the instance exists
          built,    \* runs of BuildTask: 1 panel built, 2 settled
          enabled,
          late,     \* time(NULL) >= deadline
          c         \* the rest of InstanceData, and the Status line

vars == <<kind, placed, built, enabled, late, c>>

Tasks == {"poll", "retry"}

Fresh == [phase |-> "idle", step |-> "main", prompt |-> FALSE, status |-> "ended",
          armed |-> [t \in Tasks |-> FALSE], retired |-> {}, tainted |-> FALSE]

TypeOK ==
    /\ kind \in Kinds /\ placed \in BOOLEAN /\ built \in 0 .. 2
    /\ enabled \in BOOLEAN /\ late \in BOOLEAN
    /\ c \in [phase : {"idle", "conn", "send", "recv"}, step : {"main", "history", "models"},
              prompt : BOOLEAN, status : {"busy", "ended"}, armed : [Tasks -> BOOLEAN],
              retired : SUBSET Tasks, tainted : BOOLEAN]

\* The deadline of a new instance is 0, which has passed.
Init ==
    /\ kind \in Kinds /\ placed = FALSE /\ built = 0
    /\ enabled = TRUE /\ late = TRUE /\ c = Fresh

-----------------------------------------------------------------------------
(* What the handlers are made of *)

Arm(s, t) == [s EXCEPT !.armed[t] = TRUE,
                       !.tainted = @ \/ s.armed[t] \/ t \in s.retired]

RemoveTask(s, t) == [s EXCEPT !.armed[t] = FALSE, !.retired = @ \cup {t},
                              !.tainted = @ \/ t \in s.retired]

\* The callback of t runs: the entry is in no list meanwhile.
Fired(s, t) == [s EXCEPT !.armed[t] = FALSE]

Reset(s) == [s EXCEPT !.phase = "idle"]

\* Faulty variant: only the socket is dropped.
FailKeepsPrompt(s) ==
    [Reset(IF kind = "ollama" THEN s ELSE RemoveTask(RemoveTask(s, "poll"), "retry"))
       EXCEPT !.status = "ended"]

\* The request or the whole pipeline ends with a message; Ollama keeps its
\* task for the next time.
Fail(s) ==
    [Reset(IF kind = "ollama" THEN s ELSE RemoveTask(RemoveTask(s, "poll"), "retry"))
       EXCEPT !.prompt = FALSE, !.status = "ended"]

\* Resolving, opening and connecting the socket succeed or not.
Begin(s, step, ok) ==
    LET r == Reset(s)
    IN  IF ~ok THEN Fail(r)
        ELSE [Arm(r, "poll") EXCEPT !.phase = "conn", !.step = step,
                                    !.status = IF kind = "ollama" THEN "busy" ELSE @]

\* The reply of StableDiffusion or Ollama is published whatever it says.
Publish(s) == [Reset(s) EXCEPT !.status = "ended"]

\* Faulty variant: the next look at the history is not armed.
CompleteForgets(s, good, ok) ==
    IF s.step = "main"
    THEN IF good THEN Begin([Reset(s) EXCEPT !.prompt = TRUE], "history", ok) ELSE Fail(s)
    ELSE IF good THEN [Reset(s) EXCEPT !.prompt = FALSE, !.status = "ended"]
         ELSE [Reset(s) EXCEPT !.status = "busy"]

\* ComfyUI's first reply holds the id of the render or a refusal; then its
\* history is asked for, and again a second later, until it names a file.
Comfy_Complete(s, good, ok) ==
    IF s.step = "main"
    THEN IF good THEN Begin([Reset(s) EXCEPT !.prompt = TRUE], "history", ok) ELSE Fail(s)
    ELSE IF good THEN [Reset(s) EXCEPT !.prompt = FALSE, !.status = "ended"]
         ELSE Arm([Reset(s) EXCEPT !.status = "busy"], "retry")

-----------------------------------------------------------------------------
(* Placing, settling, deleting *)

InstanceStart ==
    /\ ~placed /\ placed' = TRUE /\ built' = 0
    /\ enabled' = TRUE /\ late' = TRUE
    /\ c' = [Fresh EXCEPT !.tainted = c.tainted] /\ UNCHANGED kind

\* DeleteTask looks for the entry on the freelist, not at who has it since.
InstanceEnd ==
    /\ placed /\ placed' = FALSE
    /\ c' = [Fresh EXCEPT !.tainted = c.tainted \/ c.retired # {}]
    /\ UNCHANGED <<kind, built, enabled, late>>

\* A tick after placing the panel is activated, and two of the three ask for
\* the list of models; 300 ms later the widget has settled.
BuildTask(ok) ==
    /\ placed /\ built < (IF kind = "ollama" THEN 1 ELSE 2) /\ built' = built + 1
    /\ c' = IF built = 0 /\ kind # "comfyui" /\ enabled THEN Begin(c, "models", ok) ELSE c
    /\ late' = (late /\ ~(built = 0 /\ kind = "ollama" /\ enabled /\ ok))
    /\ UNCHANGED <<kind, placed, enabled>>

-----------------------------------------------------------------------------
(* The handlers *)

\* Generate, Send, or a prompt arriving on In.  StableDiffusion arms its
\* progress task behind a request that may have failed already.
OnGenerate(ok) ==
    /\ placed /\ enabled /\ (kind # "ollama" => built = 2)
    /\ LET b == Begin([c EXCEPT !.prompt = FALSE,
                                !.status = IF kind = "ollama" THEN @ ELSE "busy"], "main", ok)
       IN  c' = IF kind = "stablediffusion" THEN Arm(b, "retry") ELSE b
    /\ late' = (late /\ kind = "ollama" /\ ~ok)
    /\ UNCHANGED <<kind, placed, built, enabled>>

\* The list of models is fetched again; only Ollama gives it a deadline.
OnRefresh(ok) ==
    /\ placed /\ enabled /\ kind # "comfyui"
    /\ c' = Begin(c, "models", ok)
    /\ late' = (late /\ ~(kind = "ollama" /\ ok))
    /\ UNCHANGED <<kind, placed, built, enabled>>

\* Unchecking mid-render cancels.
OnEnable(value) ==
    /\ placed /\ enabled' = value
    /\ c' = IF value \/ (kind = "ollama" /\ c.phase = "idle") THEN c ELSE Fail(c)
    /\ UNCHANGED <<kind, placed, built, late>>

-----------------------------------------------------------------------------
(* The tasks *)

Polling == placed /\ c.armed["poll"]
Later(p) == CASE p = "conn" -> {"conn", "send", "recv"} [] p = "send" -> {"send", "recv"}
              [] OTHER -> {p}

\* Faulty variant: nobody looks at the clock.
ExpiredNever == FALSE

Expired == late

PollIdle == Polling /\ c.phase = "idle" /\ c' = Fired(c, "poll")

PollLate == Polling /\ c.phase # "idle" /\ Expired /\ c' = Fail(Fired(c, "poll"))

OnTime == Polling /\ c.phase # "idle" /\ ~Expired

\* Connected, sent or read something, or nothing: look again.
PollOn ==
    /\ OnTime
    /\ \E p \in Later(c.phase) :
         c' = [Arm(Fired(c, "poll"), "poll") EXCEPT
                 !.phase = p,
                 !.status = IF p = "conn" THEN @ ELSE "busy"]

PollBroken == OnTime /\ c' = Fail(Fired(c, "poll"))

\* The peer closed: the reply is complete.
PollDone(good, ok) ==
    /\ OnTime
    /\ LET s == Fired(c, "poll")
       IN  c' = IF kind = "comfyui" THEN Comfy_Complete(s, good, ok) ELSE Publish(s)

Poll ==
    /\ PollIdle \/ PollLate \/ PollOn \/ PollBroken
       \/ \E good, ok \in BOOLEAN : PollDone(good, ok)
    /\ UNCHANGED <<kind, placed, built, enabled, late>>

\* ComfyUI asks for the history again.
RetryHistory(ok) ==
    /\ kind = "comfyui"
    /\ LET s == Fired(c, "retry")
       IN  c' = IF ~c.prompt THEN s
                ELSE IF Expired THEN [s EXCEPT !.prompt = FALSE, !.status = "ended"]
                ELSE Begin(s, "history", ok)

\* StableDiffusion asks for the progress on a socket of its own.
RetryProgress ==
    /\ kind = "stablediffusion"
    /\ LET s == Fired(c, "retry")
       IN  \/ c.phase = "idle" /\ c' = s
           \/ c.phase # "idle" /\ Expired /\ c' = Fail(s)
           \/ c.phase # "idle" /\ ~Expired
              /\ \E st \in {"busy", c.status} : c' = [Arm(s, "retry") EXCEPT !.status = st]

Retry ==
    /\ placed /\ c.armed["retry"]
    /\ RetryProgress \/ \E ok \in BOOLEAN : RetryHistory(ok)
    /\ UNCHANGED <<kind, placed, built, enabled, late>>

\* The deadline passes.
Expire == ~late /\ late' = TRUE /\ UNCHANGED <<kind, placed, built, enabled, c>>

\* Some SndMsg takes an entry that was retired and armed again from the
\* freelist: the entry is the message's from now on.
GetTask(t) ==
    /\ t \in c.retired /\ c.armed[t]
    /\ c' = [c EXCEPT !.armed[t] = FALSE]
    /\ UNCHANGED <<kind, placed, built, enabled, late>>

Press == \E ok \in BOOLEAN : OnGenerate(ok) \/ OnRefresh(ok)
Build == \E ok \in BOOLEAN : BuildTask(ok)

Next ==
    \/ InstanceStart \/ InstanceEnd \/ Build \/ Press \/ Poll \/ Retry \/ Expire
    \/ \E v \in BOOLEAN : OnEnable(v)
    \/ \E t \in Tasks : GetTask(t)

\* Armed tasks are run by later ticks of the main loop, and time passes.
Fairness == WF_vars(Build) /\ WF_vars(Poll) /\ WF_vars(Retry) /\ WF_vars(Expire)

Spec == Init /\ [][Next]_vars /\ Fairness

-----------------------------------------------------------------------------
(* Properties *)

UnderWay == placed /\ (c.phase # "idle" \/ c.prompt)

\* "Timeout - seconds before giving up" (the widgets' READMEs): whatever is
\* under way has a task armed that will look at the deadline, the poll while a
\* request is open and the retry between two requests.
UnderWayWakes ==
    placed => /\ c.phase # "idle" => c.armed["poll"]
              /\ c.phase = "idle" /\ c.prompt => c.armed["retry"]

\* The same for as long as no task was used after it had been retired, nor
\* armed a second time.
UnderWayWakesUnlessTainted == c.tainted \/ UnderWayWakes

\* The Status line never says that something is under way when nothing is.
BusyIsTrue == placed /\ c.status = "busy" => UnderWay

\* "unchecking mid-render cancels": a disabled widget has nothing under way,
\* and no poll, retry or late reply starts it again.
DisabledIsIdle == ~enabled => ~UnderWay

\* A pipeline left alone comes to an end by its deadline at the latest.
GivesUp == ([]~c.tainted /\ <>[][~Press]_vars) => (UnderWay ~> ~UnderWay)
==============================================================================
