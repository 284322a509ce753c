# DataObj: a verification development

DataObj is a message-passing object runtime in C: one process, one thread (next to
one that looks up names), one scheduler. Objects ("instances") are property trees;
properties are wired to one another; a write or a send on a property is queued as a
task of the scheduler and dispatched to the wires of the property on the next tick.
Classes are shared libraries that put handlers on properties and arm timers. A
browser front end creates, wires, renames, moves and deletes instances over a
WebSocket bridge.

This directory holds TLA+ models of the core and of the objects that wait, poll and
watch, the TLC configurations that check them, and TLAPS proofs of the results that
matter most.

    tlc -workers 2 -config Queues.cfg MCQueues      # any line of the table of runs
    tlapm TaskQueueProofs.tla                       # any of the eight *Proofs modules

`PROJECT.json` lists components, runs, mutants (a plausible bug for every checked
property that makes TLC report it), the source lines behind every definition,
findings, hazards and theorems.

## 1. Inventory

| Component | State | Operations | Model |
|---|---|---|---|
| Scheduler (`src/src/sched.c`, `timer.c`, `main.c`) | main list sorted by due time, runnow list, freelist, insertion hint, cached clock | CreateTask, GetTask, AddTaskDelay, RemoveTask, DeleteTask, TimeUpdate, AdjustDelayedTasks, ActivateTimedTasks, ExecTasks | `SchedTime`, `TaskQueue`, `Sched` |
| Message fabric (`src/src/object.c`, `node.c`) | Subscriber and Subscription records, links, queued envelopes, dispatch cursor | Connect, Disconnect, LinkPropertyAs, SetProp*, SndMsg, DispatchMsg, DeleteInstance | `WireEnds`, `Wiring`, `Lists`, `Fabric` |
| Timed objects (`src/objects/pulse`, `mobutton`, `pulsegenerator`) | instance flags, one task each | activation, Enable, Start, Stop, press, tick | `Pulse`, `MoButton`, `PulseGenerator` |
| Namespace trie (`src/src/namespace.c`) | nodes with one character each, sorted siblings | NSInsert, NSSearch, NSDelete | `NameTrie` |
| Paths and containment (`object.c`, `objects/bridge/bridge.c`, `objects/script/script.c`) | Name, Container, Members, the path index, alias Targets | create, create-alias, rename, move, set-property Container, delete, destroy | `PathIndex` |
| Bridge taps (`bridge.c`, `object.c`, `node.c`, `objects/serializer/serializer.c`) | tap records, the bridge's Subscriber records, what is in flight to it, what clients show, what a load has still to destroy | create, alias, point, write, subscribe, delete, destroy, load-flow | `BridgeTaps` |
| DNS engine and Resolver panel (`objects/dns`, `objects/resolver`) | lookup queue, the worker thread's entry, pending names and pump per instance, lamps | lookup, cancel, enable, delete, pump, the thread's work | `Dns`, `Resolver` |
| Model-server clients (`objects/comfyui`, `stablediffusion`, `ollama`) | request phase, poll and retry tasks, deadline, Status | generate, refresh, enable, poll, retry, time out, fail | `PollClient` |
| TCP (`objects/network/tcp.c`), its panel and the old TCP class (`objects/tcpport`, `objects/tcpshim`) | connections with send buffers, poll task, limit, TLS context; panel state and lamps; tags | start, stop, send, poll, accept, connect; listen, open, close, enable, activate | `Tcp`, `TcpPort`, `TcpShim` |
| Class registry and loader (`object.c`, `main.c`) | class index, dependency rounds | LoadClasses, RegisterClass, RegisterInstance | planned |
| Class chain and verbs (`object.c`) | class handlers, verdicts | PuntToClass, ObjectClassMsg, DeliverToHandlers | planned |
| Clone | copied tree, wires, aliases | CloneInstance | planned |
| Script hosts, import and export | callback records, remapped names | eval, import | planned in part |
| UDP, HTTP, WebSocket, Router, TP-Link, MCP source | parsers, per-connection decisions, one connection per command | open, receive, send, close | planned in part |
| Widgets, simple controls, tables, radio groups, streams, stopwatch | values and links | store, switch, read and write | planned in part |
| Web client, tools, third-party languages, tests | - | - | not modelled |

**Interaction.** All objects share the scheduler's one task list. A send allocates
an envelope and a task whose callback is `DispatchMsg`; handlers run inside that
callback and may call every operation of every component. Timers are tasks whose
handle the object keeps. Deleting an instance has to undo what all the others hold
about it: wire records at the far ends, links, queued envelopes, index keys,
Members entries, its own tasks.

**What is hard.** There is no preemption, so the interleavings are those of
callbacks: what a handler does to the list that is being walked above it on the
stack; what happens to a task between the tick that armed it and the tick that
runs it; what is in flight to or from an instance when it is deleted; the order in
which a subtree is re-pathed. Timers race with the user: a pause leaves a pending
tick, a release leaves a pending repeat, a stop leaves a pending poll. Answers come
late: a name was cancelled or its panel deleted, a peer is gone, the control that a
client watches stands for something else by now. One thread runs beside the loop and
shares its job with it without a lock. The scheduler puts two obligations on its
clients that nothing enforces: not to arm an armed task, not to retire a task that
the running tick has already collected.

**What makes each component correct.** The scheduler serves tasks in order of due
time, ties in order of arrival, leaves no due task behind and ends every tick. The
fabric delivers each message once to every wire that was there at dispatch and is
not removed before its turn, and keeps nothing that leads to a freed instance. A
timed object keeps its task armed exactly when it should, and never twice. The trie
finds what was registered. Every live instance answers to its own path and lies in
a container that exists. Whoever watches a property is told its value under the name
asked for. Whoever asks for a name is answered, once, and nobody else is. A request to
a server ends by its deadline. Every peer is sent its own stream, and whoever talks to
it learns when it is gone.

## 2. The modules and the code

**SchedTime** - clock readings and due times: the microsecond carry of
`AddTaskDelay`, which carries only *above* one second, the comparison used by the
insertion walk and by `ActivateTimedTasks`, and `TimeUpdate`'s verdict on a clock
step. `MicrosPerSec` is a parameter so that a small second meets every carry.

**Null** - the one value that stands for a NULL pointer, which TaskQueue and WireEnds
share.

**TaskQueue** - what the scheduler promises, over sequences: `queue` (main list),
`batch` (runnow), `due`, `now`, and the loop's `phase`. Actions: `Arm`, `Drop`,
`EnterLoop`, `Tick` (one round of MainLoop: TimeUpdate and the correction),
`Collect`/`Collected` (ActivateTimedTasks, and the stop of the loop when both lists
are empty), `Run`, `Return` and `Sleep`.

**Sched** - the same scheduler at the level of pointers: `next`/`prev` shared by two
lists and the freelist, `linked`, `insertHint`, malloc and free. Each operator on the
record `list` is the C function of its name. A walk along `next` is read off as the
sequence of entries it meets (`Chain`), and the walks of `AddTaskDelay` and `DeleteTask`
stop at the first place of it that their test picks (`WalkPast`, `PoolPred`): closed
forms, which the proofs can reason about. `ImplementsTaskQueue` reads the lists off the
pointers and states that every step is a step of TaskQueue.

**WireEnds, Wiring** - the fabric over sets: `wires` between ends, one-hop `link`s,
envelopes as the end they go out of, and the set of sinks a running dispatch has
still to reach.

**Lists** - the linked lists of records as sequences, and what unlinking records leaves
of one (`Without`). It is defined by counting places instead of by recursion, so that its
proofs need no induction.

**Fabric** - the fabric over its records: newest-first Subscriber and Subscription
lists, links with their separate `LinkInst`, envelopes with source instance and
property node, and `DispatchMsg`'s cursor in the live list, across handler calls.
`DeleteInstance` is the whole teardown: scrub by records and by registry sweep,
links, cancellation in both task lists. Handlers are client code between the call
and `HandlerReturn`: every client operation may happen there. `ImplementsWiring`
is the refinement. The scheduler appears as two FIFO lists, `queued` and `runnow`, which is what TaskQueue
promises for equal delays; `outPort` and `stage` say what is being dispatched. Its
specification is `FabricSpec`, and so on, because MCQueues extends TaskQueue as well.

**Pulse, MoButton, PulseGenerator** - the timed objects, each with a count `armed`
of the arms of its one task that have not fired, and an observer at its output.
`Pulse` keeps a `scheduled` flag, the other two do not. `PulseGenerator` models the
C arithmetic of the phase widths: int product with wrap, truncating division, clamps.
`AddTaskMilli` stands for the scheduler, whose promise that an armed task runs on a
later tick becomes weak fairness.

**NameTrie** - nodes named by the string that leads to them, with their sibling
lists in order. `NSSearch` is the code's walk, with its early stop; a history
variable `named` records what was registered.

**PathIndex** - names, containers, index, members and alias targets. Renaming and
moving re-path a subtree in **any** registry order, as the registry's order depends
on history the model leaves out. Names are sequences of letters, because
`RepathSubtree` compares paths as strings. The index itself is taken to be exact
here; NameTrie is about whether it is. A container may be given as "" (`Canvas`), which
some of the code takes for the root view (bridge.c:1750-1753, 765, 822) and some for no
container at all (object.c:370-376); `CreateAlias` is the engine's birth under a minted
name, `PlaceInstance`, which writes the Container as it was given, and the registration
under the name asked for, in that order. A name may be given without a slash
(`ShortKey`), which is entered without retiring or naming anything. Two of the lists'
properties are apart: what is on a Members list is there (`MembersReal`), and what is
there is on the list (`MembersComplete`); only the first holds.

**BridgeTaps** - the records by which the bridge hears of changes, and what its
clients end up showing. Nodes are addresses: a name created where a deleted one was
gets the same one. A write is queued when somebody is subscribed at that moment
(`FanOutSubscribers`), and the bridge passes it on to the taps that are there when it
arrives. `LoadFlow` lets go of all taps and leaves what it destroys to one step per
tick, as the serializer does.

**Dns, Resolver** - the queue shared by all instances, the one thread and the pump of
each instance (`Dns`), composed with the panel in front of it (`Resolver`). The
thread's two writes become visible in either order; the join before the address is
read is what makes that harmless. Instances and entries are addresses that are handed
out again.

**PollClient** - the shape that ComfyUI, Stable Diffusion and Ollama share: open,
poll, complete or fail, and between two requests a retry task. What differs is told
by `kind`. The server and the network may do anything the code tells apart. `tainted`
is history: a task was armed while armed, or used after it was given back.

**Tcp, TcpPort, TcpShim** - the TCP object as operators on its record, because two
owners embed it, and the owners as modules of their own. The poll is taken connection
by connection; a call takes the owner's state along and answers with the outcomes the
system calls allow, each with the owner as the callbacks made on the way left it (the
constant `Tell` is what an owner makes of one). Units of data are named after the peer
they are meant for. A panel sends to whoever was heard of last;
the old class sends to the tag of the message, whenever a driver comes with it.
Allocation is taken to succeed, as everywhere (of a TLS session too, without which a
client's connection would go on in the clear, tcp.c:376-385).

**MCQueues, MCTimed, MCSession** - runs over several objects that share no state: `of` says
which one a behaviour is about, and the others rest. One run then answers for a group
of objects of one kind.

### Rules left to clients

The code accepts some calls that it cannot cope with. The models carry each such
rule as a constant, a Boolean or a member of a set of things clients do, and the passing
runs state what holds when clients keep it: they say **nothing** of the calls that a rule
excludes. Setting the constant the other way shows what it guards:

| Constant | Rule when the run passes | Otherwise |
|---|---|---|
| `Sched.RetireBatched = FALSE` | no task is retired or deleted once it is in runnow | `DeleteCopes`: runnow leads to a freed entry (sched.c:190, against "any list it is in", 262) |
| `Fabric.Reentrant = FALSE` | no handler removes the wire it was called through | `CursorLive` (run fabric_reentrant) |
| `Fabric.Relink = FALSE` | no property that is linked to becomes a link | with a second link, `EnvelopeOwner` (bridge.c:1469) |
| `MoButton.Hasty = FALSE` | nobody presses again before the pending repeat fires | `TasksArmedOnce` (mobutton.c:116) |
| `PulseGenerator.ReArm = FALSE` | no start while a tick is pending | `TasksArmedOnce` (pulsegenerator.c:164) |
| `PulseGenerator.ReActivate = FALSE` | the panel is activated once | `GenSound`: Out stays 1 next to NotOut 1 |
| `PathIndex.Rash = {}` | "taken": nothing is made or moved under a name that is taken | `Addressable` in three states |
| | "gone": nothing is moved to a container that does not exist | `Contained` in three |
| | "inside": no Container is written that lies in the thing itself (bridge.c:1940) | `Contained` in four |
| | "spill": nothing that holds something is destroyed, other than by delete-instance (script.c:455) | `Contained` in four |
| | "canvas": what is in the root view is not put into "" (bridge.c:1755), and no alias is asked for by name in "" (bridge.c:822) | `Addressable` in four, `NoStaleKeys` in three |
| | "short": no new thing is given a name without a slash | `NoStaleKeys` in three |
| `BridgeTaps.Risks = {}` | "share": no control is re-pointed away from or onto a node with another tap | `TapsGrounded` (run taps_share) |
| | "orphan": nobody deletes what a watched control stands for, or is still heard under | `TapsGrounded` in five states (bridge.c:2009) |
| | "destroy": nothing watched, and nothing a watched control stands for, is freed past the bridge | `TapsGrounded` in four (script.c:463) |
| | "load": nobody subscribes, deletes or loads again before a load is over | `TapsGrounded` in five (serializer.c:987) |
| | "late": nobody subscribes, or re-points a control, where the bridge has let go of its record and a change from before that is under way | `ViewsTrue` in eleven (node.c:851) |

Two conditions are history variables instead, because no client could keep them:
`Dns.slipped` (the running lookup was cancelled or the address of its instance reused,
run resolver_slip) and `PollClient.tainted` (run timed_rearm); the properties next to
them say what holds until then. Stable Diffusion is tainted by its first Generate: the
list of models is fetched with a deadline that has already passed, so the fetch fails
and gives its task back. What is said of its tasks holds of the behaviours before that.

A scheduled task is never armed a second time in `Sched`: that obligation is what
the timed objects are checked for.

## 3. Runs

| Run | Module, cfg | Checks |
|---|---|---|
| queues | MCQueues, Queues | line: LineOK (no task twice, order of due time), Fifo, NoneLeftBehind, BatchClosed, TickEnds; fabric: WireSymmetry, EnvelopeOwner, NoFreedTarget, ImplementsWiring, DispatchEnds |
| sched | MCSched, Sched | NothingLost (lists, tails and insertion hint), DeleteCopes (heap and freelist), ImplementsTaskQueue |
| timed | MCTimed, Timed | Pulse: FlagIsTruth, TrainTicks, NeverMidPulse, EndsAtCount, TrainEnds; buttons: ButtonNeverLatched, ButtonRepeatDies; generator: GenSound, GenShotEnds; clients: ClientTrue, ClientGivesUp; TCP: SocketPolled, PeersTrue, StreamsTrue, PanelTrue, PeersTold |
| session | MCSession, Session | paths: NamesTrue, ContainersTrue, MovesOne; trie: TrieExact; taps: TapsHeard, ViewsTrue |
| resolver | Resolver, Resolver | NoFreedEntry, OwedIsPumpedAndShown, AnswerGoesHome, EveryAskEnds, PumpRests |
| fabric_reentrant | MCQueues, FabricReentrant | CursorLive, **violated** |
| timed_rearm | MCTimed, TimedReArm | TasksArmedOnce, **violated** |
| name_trie_miss | MCNameTrie, NameTrieMiss | MissesReported, **violated** |
| members_order | MCPathIndex, PathIndexMembers | MembersComplete, **violated** |
| path_extends | MCPathIndex, PathIndexExtend | Addressable, **violated** |
| taps_share | BridgeTaps, TapsShare | TapsGrounded, **violated** |
| resolver_slip | Resolver, ResolverSlip | OwedIsPumped, **violated** |

Every module states its types as `TypeOK` (in Dns `EngineTypeOK`); they are kept as
documentation and for the proofs, and can be added to any configuration.

### The seven disagreements

- **fabric_reentrant.** `DispatchMsg` steps to the next sibling of the Subscriber
  record it has just called through (object.c:2908). A handler that deletes either
  end of that wire has freed it; the envelope in hand is on neither task list, so
  the cancellation does not see it. The MCP source does this on every reply.
- **timed_rearm.** Objects arm their one task without asking whether it is pending:
  Ollama on a second request, PulseGenerator on Stop and Start within a phase,
  MoButton on a second press. Pulse, DNS and TCP keep a flag, and for them the same
  property is proved or checked.
- **name_trie_miss.** `NSSearch` stops at the first sibling that is not smaller and
  goes on into it without comparing; a name that is not registered can be answered
  with another one's instance.
- **members_order.** `RegisterPath` enters an instance on its container's Members list
  only if the container's path resolves (object.c:239-257). A subtree is re-pathed in the
  order of the registry, and what comes before the container it is in leaves that
  container's list and is not entered again, although the list is "an index of"
  containment (object.c:53-68).
- **path_extends.** `Bridge_RepathSubtree` compares a path prefix without its
  boundary. Renaming V to V2 swaps the members' Container twice.
- **taps_share.** All taps on a node share one Subscriber record. A control that is
  re-pointed drops it for the others, who are never told again.
- **resolver_slip.** Cancelling the lookup that runs counts its answer off twice, so
  the pump stops with another answer owed.

Observations that are not runs:

- the carry at exactly one second gives equal instants two representations that
  compare as different (sched.c:394);
- a property write arrives as `msg_change`, which most handlers, Pulse's Enable among
  them, drop, although `src/objects/pulse/README.md` says that any source can drive it;
- a TCP panel whose Listen or Open fails within the call is put back to IDLING by the
  callback and then set to LISTEN or OPENING all the same (tcpport.c:274, 381), where
  tcpport.c:266-268 says that a failure "puts this panel back to IDLING"; a dial that
  fails later leaves the socket started, so the next Open is refused without a word and
  says OPENING for ever. `PanelTrue` is about the Connected and Disabled lamps only;
- DeleteTask is to remove a task "from any list it is in" (sched.c:262), but goes by
  `task->owner`, the main list (sched.c:190): for a task of the running tick's batch it
  sets the wrong list's ends. `DeleteCopes` leaves such tasks out, and with
  RetireBatched = TRUE TLC finds it violated;
- the empty container is the root view to Bridge_Rename (bridge.c:1750-1753), to the
  comments at object.c:288-289 and 3198, and to create-alias without one (bridge.c:765),
  but PathOfInstance takes it for no container (object.c:370-376). A thing of the root
  view that is moved to "" keeps "" as its Container, because its path is the same and
  Bridge_Rename returns (bridge.c:1755): it answers to no path. `create-alias` with "as"
  and without a container, the form documented at bridge.c:732, leaves the name that the
  engine minted in the index, because PlaceInstance has cleared the Container (bridge.c:822)
  when RegisterPath looks for an older name to retire;
- in server mode the old TCP class never puts out its Connected lamp when peers leave:
  the callback comes before the connection is counted off (tcp.c:855-862);
- a start that fails behind its TLS context keeps it, and a later start without
  security then speaks TLS (tcp.c:407, 765); the old class never switches it off again;
- a connection that is gone stays in the Conns tables of its taps (bridge.c:2128), and
  a tap that moves leaves its Subscription record behind (bridge.c:2388);
- the main loop ends when no task is scheduled, so an object that only waits for a wire
  does not keep the program alive (main.c:143).

### Bounds, and why they are enough

- *queues (the line), sched*: three tasks, a second of two microseconds, clock readings of
  three seconds (`MaxSec = 2`), delays of nothing, one microsecond and one second.
  Three tasks put an entry before, at and behind every walk, hint and removal;
  the readings include repeated, one-second, larger and backward steps; two
  microseconds reach the carry at and above a second. Tasks are symmetric in
  `sched` (no liveness is checked there).
- *queues (the fabric)*: three instances with a value and a wiring property; three wires, two of
  which fan out of one property and one of which watches a sink's wiring; one link
  from a sink to the source; two sinks that may or may not have a handler, decided
  before or after they are wired; two envelopes (`MaxSends`), so that a send is
  queued while another is dispatched. `Room` keeps clients from exceeding the bound
  and reserves what the running dispatch may still store.
- *timed*: Count up to 3, so that it is lowered below and raised above what was sent;
  two buttons; a 16-bit `MaxInt` and a period of 700, so that the product with a duty
  of 50 wraps; periods 0 and 1 and duties 0, 100 and 120 reach every clamp; all three
  kinds of client. TCP: a limit of two connections (`MaxConns`), three peers (`MaxIds`),
  so that one is refused at the limit and one takes a place that was given back; two
  units for a connection (`MaxAsked`) and blocks of two (`Block`), so that a send is
  short and the rest is joined by more.
- *session*, paths: a root and four instances, one of which may be made as an alias, two
  names: three levels of containment, so that contents are re-pathed before and after
  the container in between. Neither name begins the other; path_extends is the other
  case, with three instances, and members_order has four, none of them a control. Trie: three characters, nine names that are beginnings of
  one another or part at the first, second and third character. Taps: two originals, two
  controls, two values, two taps (`MaxTaps`), and two envelopes for the bridge
  (`MaxQueue`; a re-point may add a third), so that a change and a re-point are under way
  together. One connection: connections meet only in a tap's Conns table, which is a set.
  Instances, originals and controls are symmetric.
- *resolver*: two panels, two names, two entries (`Entries`): one is looked up while one
  waits, of the same panel or of the other, and each address is used again.

Deadlock checking is off where the system may stop: the main loop ends when no task
is left, and the fabric rests when nothing is queued and the send bound is reached.

### Fairness

The program is one thread, and `ExecTasks` neither waits nor returns before runnow is
empty; callbacks and handlers return. Hence weak fairness of collecting, running and
returning in `TaskQueue`, and of delivering, returning and ending a dispatch in
`Fabric` (the operators `Fairness` and `FabricFairness`). Nothing is assumed of clients: they need never create, send or delete.
In the timed objects the tick of an armed task is weakly fair, which is what
TaskQueue gives a task whose due time passes. Clock steps do not spoil it: waiting
due times move with the correction. In PollClient time passes (`Expire`) and its tasks
fire. In Resolver the system's resolver gives up on a name in the end, so the thread
ends, and the pump is strongly fair: a tick that has to join the thread waits for it,
and is not skipped. Nothing is assumed of peers or of the TCP poll: what is said of TCP
is safety only.

## 4. Proofs

TLAPS proves the following for every value of the constants that meets the named
assumptions (`MicrosAssumption`, `QueueAssumption`, `EndsAssumption`, `SchedAssumption`,
`FabricAssumption`, `PulseAssumption`, `TimedAssumption`, `DnsAssumption`,
`PathIndexAssumption`, `SessionAssumption`). The client
rules of section 2 are hypotheses of the theorems that need them.

**TaskQueueProofs**: `TypeCorrect` (the module's TypeOK), `LineCorrect`,
`NoneLeftBehindThm`, `BatchClosedThm` and the action property `FifoThm`. The inductive
invariant is `IInv == TypeOK /\ HalvesOK /\ NotOverdue`. `LineOK` speaks of
`batch \o queue` and is not inductive in a form the solvers can use: `HalvesOK` says the
same of the two halves, and `HalvesLine` shows them equivalent. `NotOverdue` is needed for
the types: whenever the clock is about to be read, no waiting task is due in an earlier
second than the last reading, so a correction that moves due times back with the clock
cannot take them below zero. Insertion and removal are reduced to "every entry of the
result comes from this place of the argument" (`InsertSource`, `RemoveSource`,
`TailSource`), order is a lemma about pairs (`Order`), and a clock correction keeps
it (`ShiftOrder`). `NoneLeftBehind` follows from sortedness: if the head is not due,
nothing is (`HeadDecides`). `Fifo` compares the places of two tasks before and after a
step: an insertion, a removal and a collection keep the order of those that stay, and an
armed task goes behind all that are due no later.

**SchedProofs**: `SchedTypes`, `NothingLostThm`, `DeleteCopesThm` and
`PointersImplementLine` (ImplementsTaskQueue), for any number of entries and under the
client rule RetireBatched = FALSE. With the last one all that TaskQueueProofs says of the
line holds of the pointers. Reading a list off its pointers is a recursion, and what it
yields is settled once: `IsWalk(next, start, s)` says without recursion that a walk from
`start` meets exactly `s`, no entry twice, and then NULL, and `ChainIs` shows that `Chain`
then yields `s`. It is the one place that needs induction, over the places of a walk, taken
as the least place where two functions differ (`UpTo`, from the library's `WFMin`). The
invariant is `SInv == Heap /\ LP!IInv`. `Heap` says which walks the main list, runnow and
the freelist are, that `prev` leads back along the main list and that the tails are their
last entries (`ListsOK`), and how `linked`, the hint, the heap and the clients' hold on
entries agree with the three sequences (`MarksOK`); that no entry is in two of them is what makes the shared
`next` harmless. Each C function is a lemma of its own: what it does to the pointers is an
insertion into, or a removal from, one of the sequences, and leaves the other two alone.
The insertion walk may start at the hint because the list is sorted, which is TaskQueue's
own invariant; hence `LP!IInv`, the line's invariant through an instance of
TaskQueueProofs, is the other half of `SInv`. The rule is needed where `RemoveTask` is:
taken off runnow as if it stood in the main list, an entry leaves both damaged.

**ListProofs**: `Without` keeps what it is not asked to take out, brings in nothing and
puts nothing twice, for lists of every length: every entry of the result stood at a place
of the argument, in the same order, and every place that was to stay is met (`IsTrace`).

**FabricProofs**: `FabricTypes`, `TwoRecordsPerWire` (WireSymmetry), `OwnersCancel`
(EnvelopeOwner), `NothingDangles` (NoFreedTarget) and `CursorStands` (CursorLive), for
any set of instances and properties and any number of wires and sends, when clients keep
the rules Reentrant = FALSE and Relink = FALSE. The invariant is `IInv == RecordsOK /\
LinksOK /\ EnvelopesIn(queued) /\ EnvelopesIn(runnow) /\ WalkOK`. `RecordsOK` says of
each end's two lists that they name live ends, hold no record twice and answer one
another; `LinksOK` that a link takes one hop and that its LinkInst is the instance its
target belongs to. That second half is what EnvelopeOwner rests on: an envelope takes its
source instance from LinkInst and its node from the link, and a deletion cancels by
instance. `WalkOK` ties the cursor of a running dispatch to the list it walks: as no
handler removes its own wire, the record stays where the walk will look for the next one.
fabric_reentrant and the table of client rules show the same invariants broken when the
rules are not kept.

`ListsImplementSets` shows that Fabric implements Wiring: the initial
states map to initial ones, and each action to a step of Wiring or to none. An operation
on the lists maps to one on the sets because the lists agree (`RecordsOK`) and hold
nothing twice, so that taking a record out takes its wire out of the set.

Of Wiring itself, through the instance that Fabric refines: `SetsTypes`,
`SetsNothingDangles` and `SetsLinksOneHop`, with `SetsInv`, their conjunction, as the
invariant. The parts lean on each other: wiring resolves both ends, so no wire dangles
because no link does; a dispatch takes its sinks from the wires; `OneHop` holds because a
link is made only where nothing leads to yet, and collapses to the original.
`ListsKeepSets` carries both over to the record lists.

**TimedProofs**: each object by itself, and then in the composition `MCTimed`, where
the other objects rest.

- Pulse: `PulseTyped`, `FlagCorrect`, `TicksKept`, `NoBrokenPulse`, `EndsCorrect`. The
  invariant joins the types, the three safety invariants, that the sink's count is the
  object's, and `EdgeAgrees`: the line is high exactly between the two edges of a running
  train. Without it a tick could raise the line twice.
- Buttons: `NeverLatchedThm` and `ButtonsRelease`, for any set of buttons and for hasty
  hands too. `NeverLatched` alone is not inductive: the guard of `OnPress` ignores a
  release of a disabled button, which is safe only because a disabled button was let go
  of when it was disabled (`DisabledIsUp`).
- Generator: `LineAgrees` and `GeneratorSound`, for every period, duty and width of an
  int, under ReArm = FALSE and ReActivate = FALSE (timed_rearm shows what happens without
  the first). `GenQuiet` strengthens them: only a running generator is high, and none runs
  before its panel is built, which is what `Activate` relies on when it settles everything
  but Out. That both phases last and fill the period is arithmetic about the clamps, which
  hold whatever the wrapped product was (`WrapFits`, `WidthsOK`).
- Clients: `ClientTruth` and `ClientsTrue`, for each of the three kinds. The invariant
  `ClientInv` adds what the stages of a request owe one another: only ComfyUI has a
  pipeline of prompt, history and picture; an answer to a history request that comes in
  time finds the prompt it is about; and a task that was given back and is armed again has
  tainted the client (`ClientNoted`), after which only Status and Enable are spoken for.

- TCP's owners: `PanelTruth` and `ShimTruth` of each by itself, and in the composition
  `PollsOnce` (SocketPolled), `PeersCounted` (PeersTrue), `StreamsExact` (StreamsTrue),
  `PanelsTrue` (PanelTrue) and `DriversTold` (PeersTold). What an owner knows has to agree
  with the socket at every moment of a poll, not only at rest: `PanelOK` says that Connected
  goes with a current connection that is there, `ShimOK` that the drivers hold open only
  peers that are there, and that a tag a reply may carry names the peer it came from, among
  those met so far. The last is what keeps a late reply from a peer that came since.

**TcpProofs**: what each call of the TCP object does, under any owner (`Tell` is a
constant), for any limit, block and number of peers. `SockOK` is the invariant of a socket:
whose task is pending (`TurnOK`), what is open (`PlugsOK`), the count (`CountOK`) and, of
each connection, that its id is the number of its peer, that what its peer was sent and
what is still buffered are what was queued, and that nothing of it was meant for another
peer (`ConnsOK`). `PolledGood` says of every part of a poll, from its head through accept
and service to its end, that it keeps `SockOK` and that what it tells the owner agrees with
what became of the connections (`Told`): "new" adds a peer, "data" and "error" leave them
as they are, and "closed", which comes last and may follow both, takes one away and still
counts it.

**ResolverProofs**: `ResolverTypes`, `NothingFreedIsUsed` (NoFreedEntry), `OwedPumped`
(OwedIsPumpedAndShown) and the action property `AnswersGoHome` (AnswerGoesHome), for any
number of panels, names and entries. The invariant has a part for each place that holds an
entry: the queue (`QueueOK`), the names an instance waits for (`AskedOK`), the thread
(`ThreadOK`), the pump (`PumpOK`), the count of what is owed (`OwedOK`) and the lamp
(`LampOK`). An address is handed out again after a free, so "nothing freed is used" needs
that each entry is held in one place only; that an answer reaches whoever asked follows
from `AskedOK` with `ThreadOK`, until the running lookup is cancelled or its instance's
address reused (`slipped`), and resolver_slip shows what happens then.

**SessionProofs**: the taps, by themselves (`TapsGroundedThm`, `ViewsTrueThm`) and in the
composition (`TapsHeardThm`, `SessionViewsTrueThm`), for any number of originals, controls,
connections, values, taps and envelopes.

- `TapsGrounded`, that every tap is on a node that exists and carries the bridge's record,
  needs `HeardInv`: links lead between live names (`LinksLive`); while a load is under way
  there are no taps (`LoadAlone`), so what it destroys is watched by nobody; and nobody else
  is on, or about to be on, a node that a tap is to leave (`Exclusive`), because letting go
  of the record there would deafen the other. It holds without the rule "late".
- `ViewsTrue`, that once nothing is under way a client shows the present value of what it
  asked for, needs four things more (`ViewInv`). A tap that has to move has its re-point
  queued (`RepointsTold`). A connection shows a name only if it is in a tap for it
  (`ShownAsked`). Of the changes under way from a node that carries the record the last one
  holds its present value (`NewestLast`). And a tap on its right node shows the present
  value unless a change of it, or a re-point, is queued (`ShownNow`). `NewestLast` is where
  the rule "late" comes from: a change queued before the record was let go of is older than
  the value that a new subscription hands out. The proof attempt showed that the rule has to
  cover re-points too, which hand out a value when they arrive: with more controls and a
  longer queue than the run has, a change queued behind two re-points takes such a value
  back.

The paths, by themselves (`PathsTrueThm`) and in the composition (`NamesTrueThm`,
`ContainersTrueThm`, `MovesOneThm`), for any finite set of instances, any names and paths
of any depth. The theorems assume `Tidy`: clients do nothing of `Rash` (`Rash = {}`, section
2), and no name given begins another or the root's (`Distinct`, which the run path_extends
shows to be needed). A container given as "" is covered except for the two uses named there.
That Members lists are complete is no part of them.

- `PathInv` is inductive: the root view is at the top (`Rooted`); each instance is
  registered under its path and nothing else is (`Keyed`); everything else lies in
  something there is (`Homed`); what Members lists hold lies there (`Listed`); every path
  is made of names that somebody gave, which is what makes the comparison of strings one of
  paths (`Spelt`); and an alias is linked to something live and says where it is
  (`Aliased`). Each command's checks look only at the one path that it is about to take.
  That nothing lies *below* a free path, so that a subtree carried there meets nobody, is
  the lemma `NoneBelow`: the shortest path below it would have a container that is not
  there.
- A command that re-paths or deletes a subtree takes `PathInv` apart and puts it together
  again, one instance at a time in whatever order. `Halfway` says what holds when the
  instances of a set D are done: these are registered under their new paths, the others
  still under their old ones, and Members lists hold only what will lie there at the end.
  `Partway` says the same of a delete. Both are stated for a set and not for a position,
  which is why the order does not matter; the loops are functions of the number of steps,
  and the argument over that number is a least counterexample, as the induction theorems
  cannot be used.
- `MovesOne` compares the containers before and after: in a re-path each instance's new
  container is the new path of its old one, so only the instance that was named may change
  containers; create and delete move nothing.

The search tree (`TrieExactThm`), for any keys of any length that fits NSDelete's arrays
(`MaxDepth`).

- `TrieInv` says which nodes there are, those for the beginnings of the registered keys
  (`Spelling`), and of each that it holds its key's value and that its Child list is in
  order and names exactly the nodes that go on from it (`NodesTrue`). The order is what the
  search needs: it stops at the first sibling not below its character, and that is the
  character itself only in a list that is in order (`FirstNotBelow`). Of a key that is
  registered, the node after i rounds is the one for its first i characters; of one that is
  not, nothing is said, and name_trie_miss shows why.
- A deletion frees from the end of the string up to the last node that carries another key.
  `CarriesLeads` and `LeadsCarried` show that to be right both ways: what it keeps leads to
  another key, and whatever leads to one is kept, because where that key parts from the
  deleted one there is a node with a value or with two children.

**Model-checked only.** Every safety property of a passing run is proved. Liveness is not
(TickEnds, DispatchEnds, TrainEnds, ButtonRepeatDies, GenShotEnds, ClientGivesUp,
EveryAskEnds, PumpRests): the prover does not do fairness.

## 5. Plan

Done: scheduler, fabric, timed objects, trie, paths, taps with the staged destroy, DNS and
Resolver, model-server clients, TCP with its panel and the old class; the proofs of section
4: task queue, the pointer-level scheduler and its refinement, wiring, fabric and its
refinement, timed objects, clients, TCP and its owners, resolver, taps, paths, trie. Next:

1. *Class registry and loader*: dependency rounds end, every class is registered after
   what it needs, a cycle is reported.
2. *Class chain*: verdicts handled, dropped and refused along PuntToClass; composed
   with Fabric's `Deliver`.
3. *TP-Link, MCP source, UDP*: one connection per command on top of `Tcp`; the UDP panel's
   scheduled flag.
4. *Router*: its per-connection decision on the tags of `TcpShim`.
5. *Clone and import*: wires inside the copied set and aliases; import's remap.
6. *Radio group, Queue and Stack at their limits, table views, view keys.*
7. *Scrub walk*: a property wired to itself (object.c:3722).

## 6. Not modelled, and why

Payload text, formatting, parsing and JSON; drawing and layout; socket, TLS and file
calls, which answer as they like; the front end; test code. QuickJS with libbf, Lua and
Atlast are linked into the script classes, but what goes on inside a language
implementation is not this program's logic; they are two thirds of the C lines in the
repository, so that the share of all lines that is modelled stays small. The servers
under `c10KNetwork` are stand-alone experiments. Many classes are a registration, a
panel table and one handler that stores a value.

In the modelled components: `DeleteList` and the introspection counters of the
scheduler, `NSRelease` (throw-away trees), the bridge's login, view keys and scoped
events, private handles without a name, cloning and import, the Receive and Debug boxes
of the TCP panel and `TCP_CLOSE_CONNECTION_MSG`, which no owner sends.
