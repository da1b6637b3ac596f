# ACECode verification

TLA+ specifications of [ACECode](../src/README.md), a coding agent written in
C++ that runs as a terminal program, a headless command, a daemon behind a web
page and a desktop shell. The specifications are about its concurrent core: what
happens inside one session while threads of several front ends talk to it, and
what happens to a session, a schedule or the shared daemon while several
processes use them. Everything below is read from the code under `src/`; paths
are relative to that directory's own `src/`.

## Inventory

One *session* is one conversation. It owns a worker thread that runs the agent,
an event stream that clients subscribe to, a goal in a database, and files on
disk. Every front end (terminal, WebSocket, remote chat channel, LOOP scheduler,
headless) is a client of sessions. The components, the state they keep and what
makes them correct:

| component | state | operations | what is hard | what makes it correct |
|---|---|---|---|---|
| **AgentLoop** `agent_loop.cpp` | two task queues, the task being run, the active turn and its pending steers, three atomic flags, the conversation | `submit*`, `steer_input`, `interrupt_turn`, `enqueue_control`, `abort`, `shutdown`; the worker's turn loop; goal continuation | callers on any thread against the worker; two mutexes and three atomics read one at a time | an input is committed once, in the turn it was accepted for, in order; a promise made to a caller is kept |
| **EventDispatcher** `session/event_dispatcher.cpp` | sequence counter, replay buffer with coalescing keys, subscriptions with a queue each | `emit`, `subscribe`, `unsubscribe`, `set_observer` | listeners run outside the mutex, may call back, may leave at any time | each client sees each event once, in order, and none is left undelivered |
| **Prompters** `session/permission_prompter.cpp`, `session/ask_user_question_prompter.cpp` | pending requests | `prompt`, `notify_*`, `resolve_all`, `snapshot_pending_requests` | decisions, abort and timeout race; a client connects between any two events | one outcome per request, announced as it was taken; every client sees the open requests and no others |
| **LOOP scheduler and store** `loop/` | loops, runs, next times in a database | claim, miss, run, report, interrupt | several daemons, crash, sleep, completion after stop | no occurrence lost or doubled, the history says what the session did |
| **Daemon pool, supervisor, worker** `desktop/daemon_pool.cpp`, `desktop/daemon_supervisor.cpp`, `daemon/` | one shared slot; pid, GUID, port, manifest, heartbeat and owner files | probe, reuse, replace, clean up, spawn, stop; boot, heartbeat, watch the owner, exit | process death at every step, stale files, reused process ids, a new desktop while the old daemon winds down | one daemon shared by all workspaces, its files its own, nothing left in the way of the next |
| **Session writer lease, registry, manager** `session/session_writer_lease.cpp`, `session_registry.cpp`, `session_manager.cpp` | a lease file and a transcript per session; the sessions in memory, resumes in flight | `acquire`, `refresh`, `release`; create, resume, destroy; append | several processes, crashes, no file lock, leases that grow old, requests against destruction | one context per process, messages saved by the holder of the lease, no gap in its history |
| **Thread goal store** `session/thread_goal_store.cpp` | one row per session, and the goal the loop accounts for | get, replace, update, pause, delete, account usage | read and write are separate statements; worker, parallel tools and commands use them at once | no charge is doubled, none is lost unless somebody interferes with it, the budget stops the goal, a decision about one goal does not reach the next |
| **Compaction, history recovery** `commands/compact.cpp`, `session/thread_repair.cpp`, `session/session_history_recovery.cpp` | the conversation, the transcript and its checkpoints | recover, compact, repair, rewind, resume | crashes between a call and its result or in the middle of a record, repeated and malformed ids, system rows between results, checkpoints on checkpoints | what is sent is well paired, a resumed session sends what the old one would have |
| **Thread service, subagents** `session/thread_service.cpp` | child sessions, waits | spawn, send, wait, close | a child ending while its parent waits or stops | every wait ends |
| **File checkpoints, rewind, mtimes** `session/file_checkpoint_store.cpp`, `tool/mtime_tracker.cpp` | file versions per turn | record, rewind | partial failure | rewind restores what the turn found |
| **Doom guard, retry** `agent_loop_doom_guard.cpp`, `provider/retry_policy.cpp` | counters | observe, decide | boundaries | a loop is cut, a retry is bounded |
| Tool executor, permissions, hooks, MCP | registries | decide, run | verdicts of external programs | decisions follow the rules |
| Storage, catalogue, search, pins, attention, todos, usage | JSONL files, caches | append, load, query | partial writes | what is written is read |
| Remote control, web, PTY, desktop windows, TUI, headless | connections, views | forward to the session layer | platform I/O | they call the operations above |
| Providers, LSP, worktrees, skills, experts, memory, config, network, upgrade, utilities | – | external services, files, parsing | – | – |

How they interact. A front end calls `AgentLoop` (through `SessionClient` or
directly) and subscribes to the session's `EventDispatcher`. The worker thread
of `AgentLoop` emits events, asks through a prompter (which emits the request
and waits), runs tools, charges the goal store and asks it whether to continue.
`/goal` commands write the same goal row from their own thread and also ask for
a continuation. Before every request the history goes through recovery; what it
records goes through `SessionManager`, which takes the writer lease with the
first message and refreshes it with each one. `SessionRegistry` makes, resumes
and destroys the sessions of a daemon; a terminal has one `SessionManager` of its
own. The LOOP scheduler is a client that creates a session, sends one input and
watches its events. The desktop shell starts the daemon in which all this runs,
and the daemon watches the desktop.

## Modules

| module | what it is |
|---|---|
| `EventDispatcher` | `EventDispatcher`: one action per section under `mu_` and per listener call |
| `OrderedDelivery` | what the dispatcher promises a client: an abstract specification without buffers, queues, claims or threads |
| `MCEventDispatcher` | symmetry for TLC |
| `EventDispatcherProofs` | theorems about `EventDispatcher`, the refinement among them |
| `AgentTurn` | the worker of one session: queues, turn loop, steering, interrupt, abort, control, shutdown, goal continuation |
| `MCAgentTurn` | symmetry and a view for TLC |
| `AgentTurnProofs` | theorems about `AgentTurn` |
| `Prompter` | permissions and questions of one turn: tools that wait, clients that answer, mode change, stop, timeout, late subscribers |
| `PrompterProofs` | theorems about `Prompter` |
| `LoopScheduler` | scheduled runs: one database, several daemons, their scheduler threads and sessions |
| `MCLoopScheduler` | schedules, workspaces and symmetry for TLC |
| `LoopSchedulerProofs` | theorems about `LoopScheduler` |
| `DesktopDaemon` | desktops and daemons that start, watch, replace and outlive each other, and the runtime files between them |
| `DesktopDaemonProofs` | theorems about `DesktopDaemon` |
| `SessionOwnership` | one session, the processes that open it, its lease file and a daemon's registry |
| `SessionOwnershipProofs` | theorems about `SessionOwnership` |
| `ThreadGoal` | one goal row under worker, tools and commands, one SQL statement per step |
| `ThreadGoalProofs` | theorems about `ThreadGoal` |
| `ModelHistory` | messages in memory, the transcript with its checkpoints, and the functions that recover, repair and compact a history |
| `MCModelHistory` | call lists for TLC |
| `ModelHistoryProofs` | theorems about `ModelHistory`, and the induction over histories they rest on |

The modules meet at operations that one abstracts and the other details: the turn
of `AgentTurn` asks `Prompter`'s requests, charges `ThreadGoal`'s row and records
`ModelHistory`'s messages; the message a context of `SessionOwnership` saves is a
record of `ModelHistory`; a LOOP run is an input of `AgentTurn`.

Where a property needs more than the code keeps, the module has *history*
variables; no guard reads them, except that `charged` bounds the answers of
`ThreadGoal`. A property that only says that every variable has its type is not
run: `TypeOK` of every module with proofs is a theorem.

### EventDispatcher

`EventDispatcher::emit` assigns the next `seq`, stores the event in the replay
buffer, appends it to the queue of every open subscription and claims those
nobody is delivering to; all in one section (`Emit`). The emitting thread then
drains the subscriptions it claimed one after the other: a pop (`DrainPop`), the
listener call outside the mutex (`DrainCall`), and the section that finds the
queue empty and gives the claim back (`DrainStop`). `subscribe` registers the
listener as catching up with a copy of the buffered history (`Subscribe`), calls
it with that history (`ReplayNext`, `CatchUpCall`), then flushes what arrived
meanwhile (`FlushPop`) until it finds the queue empty in the section that opens
the subscription (`Open`). `unsubscribe` may come at any point (`Unsubscribe`).
`set_observer` is four sections (`ObserverTake`, `ObserverErase`,
`ObserverSubscribe`, `ObserverStore`).

Variables correspond to members: `seq` to `next_seq_`, `buffer` to `buffer_`
(an entry keeps its `seq` and its coalescing key), `phase`, `pending` and
`delivering` to the fields of `Subscription`. `delivered` is a history variable:
the sequence of events each listener has been called with. Payload, kind and
timestamp are not modelled; an event is its `seq`. A thread that emits or
subscribes has a record of where it stands; `set_observer` may be called by one
thread at a time (as its two callers do).

*Properties.* `OneCaller`: two threads never call one listener at once.
`DeliveredInOrder`: no listener sees an event twice or after a later one.
`BufferComplete`: the buffer holds exactly the events that are buffered at all
and above the highest evicted one, the last of every key. `PendingDelivered`: a
queued event reaches the listener of a subscription that stays.
`ImplementsOrderedDelivery`: the dispatcher refines `OrderedDelivery`, where a
client is owed some of the past events in their order from the moment it
subscribes (the dispatcher: the buffered ones above the seq it names), then every
later one, and is called with exactly the next one it is owed. Two more are
proved and not run, because the others stand on them:
`PendingIsOwned` (a queued event always has a thread that will come back for it)
and `BufferIncreasing` (the buffer is bounded and ordered).

*Runs.* `ed_delivery` has two emitters, two clients, a buffer of two and three
events, under the fair specification: a client can resume above the first event
or replay history while two later events, of two emitters, are queued behind it,
and one event can be flushed while another is drained. With two events a replay
would leave nothing later to be reordered. 620416 states. `ed_buffer` has one
emitter, no client but the observer, two keys, a buffer of two and four events, so
that an overflow evicts keyed and unkeyed entries and a key comes back after its
eviction. `MaxSeq`, the number of events, is the only bound; the theorems have
none.

*Fairness.* Threads that are draining or subscribing are scheduled and listeners
return (weak fairness on each thread's actions). No fairness on emitting,
subscribing or unsubscribing. `PendingDelivered` relies on emission pausing,
which `MaxSeq` enforces: with an unbounded stream of emits one emitter can stay
with one target, and `subscribe` can stay in its flush loop. The code promises no
more.

### AgentTurn

`AgentLoop::worker_main` takes the first task of `priority_task_queue_`, else of
`task_queue_`, runs it and clears `worker_task_active_`. A chat or goal task is a
*turn*: `run_agent_with_input` opens it to steering, runs the user-prompt hook,
commits the user message and then loops: drain the soft steers, call the model,
act on the answer. When the answer is final it closes the turn to steering in the
same section that finds no steer pending (`BoundaryCloses`), otherwise it commits
them and goes on (`BoundaryCommits`). After the loop `abort_requested_` is read
three times (`LimitCheck`, `ClaimInterrupt`, `Settle`), then remaining steers are
discarded (`Close`), `busy_` is cleared (`Idle`) and the goal may be continued
(`ContinueCheck`, `ContinuePush`).

One action is one section under `queue_mu_` or `active_turn_mu_`, or one access
to an atomic that another thread may change in between. So
`clear_stale_abort_request` is two actions (`SubmitRead`, `SubmitClear`),
`maybe_continue_goal` is two (`ContinueCheck`, `ContinuePush`), and
`interrupt_turn` is one, because it holds both mutexes until it has stored the
flags.

*What is abstracted.* A model answer is the branch the loop takes on it: retry
(context repair, empty answer), error, text or terminating tool, other tools;
`ResponseRetry` may repeat without the limits the code has, so nothing that is
checked depends on a turn ending by itself. Shell and compact tasks are one step.
The goal is its status and the tokens charged to it, one token per answer; the
store is read and written one status at a time (`ThreadGoal` has it statement by
statement). Plan mode, where a goal is not continued, is left out, and so is
editing a goal.

*History variables* record what clients were told and what became of it:
`transcript` (committed user messages and their turn), `accepted` and `named`
(inputs accepted by steer or interrupt and the turn they named), `gone` (inputs
refused by the hook or discarded), `interruptedTurns`, `outcomes`, `wiped` (an
abort of the running task was withdrawn by a late `clear_stale_abort_request`),
`last`. None guards an action except through the turn number.

*Properties.* `ExactlyOnce`, `LandsInNamedTurn`, `AcceptedInOrder`,
`DiscardedOnlyByFailure`: what happens to an input. `PromisedRunFirst`: nothing
overtakes the input of an interrupt. `ReceiptHolds`: `enqueue_control` tells its
caller the truth about the turns before it. `GoalNotLost`: an active goal without
a pending stop is not left alone by both the worker and a command.
`SteerServed`, `InterruptEndsTurn`: liveness under a model that may call tools for
ever.

*Runs.* `at_inputs` has three inputs (one for a running turn, one to steer it,
one to interrupt it), a control, two steers per turn and two iterations;
`at_goal` one input, a job, two goal commands and no iteration limit, checked up
to a view that drops the history no action or property of the run reads;
`at_live` two inputs under the fair specification: one that runs and one that
steers or interrupts. `MaxIter = 0` stands for the default of no iteration limit.
`MaxCommands` and the number of inputs bound the environment, `Budget` the tokens
a goal may be charged. `CHECK_DEADLOCK` is off because a session with no more
inputs is idle.

*Fairness.* The worker thread runs on, a model call and a tool return, and a
submit or command that has begun reaches its end. A user never has to do
anything.

Behaviour the model has and no property speaks of: a worker that has taken its
task before `shutdown()` began resets the abort and runs the turn while
`shutdown()` waits in `join`; a submit that read `busy_` before the turn began
clears an abort requested during it; an interrupt accepted between two reads of
`abort_requested_` pauses the goal as a stop would; the prompt hook may refuse
the promised input of an interrupt; an interrupt accepted between `Settle` and
`Close` finds a turn whose outcome is already decided; an input submitted while
the session shuts down stays in the queue; a text answer in exactly the last
allowed iteration is reported as an error; a continuation that was queued still
runs after `/goal pause`.

### Prompter

For a tool call that needs a permission the worker first asks the permission
manager (`CheckAllow`), reads the mode once more (`CheckMode`), runs a hook that
may decide (`HookDecides`), and else calls `AsyncPrompter::prompt`: the request
enters `pending_` (`Register`), is announced (`Announce`), and the worker waits,
looking every 50 ms at the answer, the abort flag and the timeout in that order
(`WaitAnswered`, `WaitAborted`, `WaitTimedOut`); then it leaves the table
(`Erase`) and is announced as closed (`Close`). `AskUserQuestion` calls go the
same way without the checks and may wait side by side. A client answers in two
sections (`Respond` looks the request up, `Answer` settles it or is told that it
is over), a switch to Yolo in three (`SetMode`, `ResolveCopy`, `ResolveVisit`).
A client that connects subscribes (`Connect`), copies each table
(`SnapshotCopy`), looks at each entry (`SnapshotLook`) and sends what is
unanswered (`SnapshotSend`), while events reach it through `stream`. `card` is
the client's own queue of cards with its tombstones (`permissionRequestQueue.js`).

`Abort` is the stop of the turn. `ClearStale` is the second half of a submit that
read `busy_` before the turn began (`clear_stale_abort_request`, in two steps as
in `AgentTurn`): it clears the flag though the turn has been stopped since, and a
wait that has not looked at it by then goes on.

What is asked and answered is left out: `verdict[r]` is who settled the request,
`returned[r]` what `prompt` came to, `told` what the client's answer came to.
`turn` is one turn, in which permissions are asked one by one.

*Properties.* `AcceptedAnswerCounts`: a client told that its answer was accepted
is the one the tool acts on, and only such answers are acted on. `NoMissedRequest`:
a client that connects at any moment has a card for every open request.
`NoStaleCardInTurn`: during the turn it keeps no card of a request that is over;
after the turn it may, because the tombstones are gone. `StopEndsTurn`: a stop
releases the worker from every wait and the turn ends, or a late submit takes the
stop back; without that exception it does not hold of the model. Proved and not run:
`VerdictIsFinal`, the first of answer, mode change, stop and timeout stays.

*Run.* `prompter_answers` has one permission, one question with a timeout, one
client that connects at any moment, one mode change, a stop and one late submit
(`MaxLate`): that is a race on one request while another is open, a stop given
again after it was taken back, and a snapshot between any two events. More
clients do not meet each other except through the requests; the theorems hold for
any number.

*Fairness.* A tool call that has begun goes on (its wait looks at the flag every
50 ms, hooks return), and the turn ends when no call is left. Nobody has to answer.

### LoopScheduler

Each daemon has a scheduler thread. `LoopScheduler::start` sweeps what was due
while no daemon ran into one missed record per LOOP (`Start`, `RecordMissed`); the
thread then repeats: sweep what is late by more than the grace (`Sweep`), claim
the first due LOOP (`Claim`: a running record, or a missed one if a run of the
workspace is active), launch it (`Launch`, `Disable`, `Send`), or look up the next
time and the stop flag (`Look`) and wait (`EnterWait`, `WaitElapsed`,
`SpuriousWake`). Requests create, toggle and delete LOOPs (`Create`, `SetEnabled`,
`Delete`) and notify the scheduler of their own process (`Notify`). A session
reports through a callback (`Ask`, `Answered`, `Finish`: the section under
`callbacks_->mu`; `Persist`: the update of the row). `stop()` is `StopFlag`,
`StopNotify`, `StopJoined`; a process ends with `Exit` or `Crash`, and a restarted
one is another member of `Daemons`, because `owner_id_` is new in every process.

`loop` and `runs` are the two tables; a schedule is the set of its occurrences on
a clock that counts the smallest distance that matters, so calendar arithmetic is
`NextAfter`. `since` is a history variable: when a schedule was last computed.
`find_schedule_conflict` is the assumption that no two LOOPs of a workspace share
an occurrence. Completed and failed runs are both `settled`.

*Properties.* `AccountedOnce`: every occurrence a LOOP has gone past is in exactly
one record. `NoCatchUp`: no run is started later than the grace.
`StatusFollowsSession`: the history agrees with the session as long as the daemon
listens. `SettledStays`: a settled run is not reopened before its daemon stops.

*Run.* `loop_history` has two daemons, one of which may end, two LOOPs of one
workspace (l1 at 3, l2 at 1 and 2), one of them not created yet, one request to
create, toggle or delete, no grace and three moments. That is enough for a crash
between claim and launch, two daemons on one occurrence, a sweep after a stall,
an occurrence while the workspace is busy, and a deletion under a running session.
`MaxTime`, `MaxEdits` and `MaxEnds` are the bounds; the theorems hold for any
grace, schedule and number of daemons.

Behaviour the model has and no property speaks of: a run whose daemon crashed
stays running for ever and keeps its workspace busy; the notification of `stop()`
may be lost between the look at the flag and the wait, and `join` then returns
with the next occurrence or never; deleting a LOOP deletes its running run while
the session works on. Nothing is fair here: no property of this module is about
what must happen.

`SetEnabled` joins the two transactions of `set_loop_enabled`: the second finds the
LOOP again and computes its schedule then, so only an edit of the definition in
between could tell.

*Not in the model:* a PUT that changes schedule or workspace, SQLite errors, a
clock that steps back, worktrees. A comment in `run()` speaks of a one-minute
grace where the constant is five seconds; `Grace` is a parameter, so nothing here
depends on it.

### DesktopDaemon

The desktop shell keeps one *slot*, shared by all workspaces. `activate()` of a
stopped slot (`Activate`) reads the runtime files (`ReadSnapshot`), classifies
them by what the process ids, the port, the heartbeat and a status request say
(`Inspect` with `Verdict`, as `inspect_existing_daemon` does) and then takes the
daemon over as it is (`Attach`), replaces it (`Attach`, `Terminate`, `Kill`,
`Replaced`), removes what a dead one left (`CleanCompare`, then `CleanFile` for one file after
the other) and starts a new one (`Spawn`, `Ready`), or gives up (`Fail`,
`Failed`). `SetKeepAlive` is the preference `continue_background_process`, `Quit`
and `QuitDone` are `shutdown_all`, `Launch` publishes a new desktop's owner
record, `Crash` ends the desktop at any step.

A worker compares the recorded GUID (`ValidateCanStart`), writes its files one by
one (`WriteFiles`), reads and writes the owner record (`ReadOwner`, `WriteOwner`),
beats (`Beat`), and its monitor adopts a new owner (`Adopt`), notices that its own
has gone (`OwnerGone`, twice: before and after the grace of 600 ms) and decides to
go on or to end (`Decide`). `Exit` is the end of `run_worker` in its steps: the
server stops, the generation is compared, the process id, port, heartbeat,
manifest and GUID are removed one by one, and the process lives on (`leaving`)
until its sessions are destroyed. A process that was sent SIGKILL runs nothing any
more but is there until the system has ended it (`killed`, `Dies`). `DaemonCrash`,
`Hang` and `PidReused` are the failures, each possible between any two of these
steps.

Who gets a dead daemon's process id is told apart by what the identity check sees
(`Identity`, `StartsLate`): another program (`other`), an ACECode that started
later (`acecode`), one that started within `timestamp_tolerance_ms` of the last
heartbeat or whose start cannot be read (`recent`), a program whose executable
cannot be read (`hidden`), and one that shows neither (`unknown`).

`slot`, `sup`, `act`, `snap` are the pool (its state, the process the supervisor
holds, where the main thread stands, the snapshot it looks at); `files` the
directory, each file named by the daemon it speaks of; `proc` and `monitor` the
workers; `owner` the owner record. A daemon's process id and GUID are one name,
because the desktop makes a new GUID for each process it spawns. History
variables: `bootRace` (a desktop crashed before its child's process id was on
disk), `overlap` (a daemon was spawned while another had its GUID still to
remove), `doomed` (daemons that had taken their last look at the owner record when
another desktop published itself, or whose record was overwritten), `victims`
(foreign processes signalled).

*Abstractions.* Time is left out: a wait may end at any moment. A snapshot of the
files is one step, and so is one file written or removed; token and port stand
next to each other in both orders and are told apart by no reader. A write that
fails is a crash; the clean-up of a worker that could not write its manifest or its
owner record (`worker.cpp:373`, `391`) is left out. A process id is not given to another
program while an activation is looking at it.

*Properties.* `SpawnsAlone`: a desktop spawns only when no other daemon is at work,
whatever crashed before: one that serves, boots or still has a file to remove that
names it. An old worker whose GUID is all it has left, or that only runs its
destructors, does not keep a desktop from spawning, because nothing tells the
desktop of it. `FilesOfServing`: a serving daemon's files are its own, whatever
others write, compare and remove. `RefusesOnlyBesideLive`: nothing left on disk
keeps a new daemon from starting. `HeldServes`: the daemon a desktop holds does not
stop on account of an earlier owner. `SparesStrangers`: a replacement signals no
other program that was given a daemon's process id, and the same program only if
its start does not show it: within the tolerance, unreadable, or without a
heartbeat to compare with. `CoupledExit`: without a desktop, and unless it may go on in the
background, every daemon that still responds ends. The first three are limited to
`~bootRace`, `FilesOfServing` also to `~overlap`, and `HeldServes` to daemons
outside `doomed`: without those limits they do not hold of the model. In an
`overlap` the old worker, past its comparison, removes the new generation's GUID;
the design document says of the comparison that it "prevents a late old process
from deleting a replacement's files", which holds of every file but that one.

*Run.* `desktop_handover` has two desktops one after the other, two daemons, one
change of the preference, and process ids that go to another program, another
ACECode or one within the tolerance: what one generation leaves meets the next
(532401 states). A third adds histories, not kinds of neighbours; the theorems hold for
any number and all five kinds of programs.

*Fairness.* A worker boots on, its monitor looks every now and then, and unless it
hangs it goes through its exit. Nothing is fair about the desktop.

### SessionOwnership

One session. A *context* is one use of it: the `SessionManager` of a terminal, or
the one a daemon makes for each resume. The lease file is read in one step
(`ReadLease`, `RefreshRead`, `ReleaseRead`) and written or removed in another
(`WriteLease`, `RefreshWrite`, `ReleaseRemove`), as in
`session_writer_lease.cpp`; nothing locks it. `resume()` of the registry waits for
the one in flight (`RegistryResume`), loads the transcript (`LoadMessages`), then
takes the lease, and enters `entries_` at the end (`Publish`); `create()` takes
the lease with the first message (`RegistryCreate`, `OnMessage`). A refused daemon
drops what it was resuming (`RefusedDaemon`); a refused terminal keeps the session
id without its history (`RefusedOpen`). `AppendMessage` is the record in the
transcript. `Leave` is the terminal's end of a session, `Destroy` and `Joined` the
registry's. `ProcessEnds` is an exit or a crash of a daemon or a crash of a
terminal at any step, `LeaseAges` the 30 s after which a lease counts as stale.

`ctx` tells where each context stands and whether `created_` and
`writer_lease_active_` are set, `mapped` what is in `entries_`, `inflight` the
resume in flight. History variables: `blind` (contexts that miss a saved message),
`alone` (took the session while nobody else used it), `disputed` (lost a lease by
its age, took such a lease, or took one in a race).

*Properties.* `OneContext`: two requests that resume a session at once get the
same one. `WritesUnderLease`: a message is saved only while the lease names the
process that saves it, unless the lease was disputed. `HistoryComplete`: who was
alone has every message in its history. `InflightEnds`: no resume stays in flight.
`Serialized` is the statement of a document that does not hold (below).

*Runs.* `session_lease` has a daemon and two terminals and two contexts at a time:
all pairs of kinds of processes, in every order of steps. `session_serial` has a
daemon and a terminal.

*Fairness.* A call that has begun goes on while its process lives. Nobody has to
open, write or leave; a lease need not age.

### ThreadGoal

The row of `thread_goals` for one session, and `goal_accounting_goal_id_` in
`AgentLoop`, which is handed to the store by reference: every look at it is a look
at its value of that moment. Each SQL statement and each such look is a step of
the thread that makes it: `Account`, `Charge` (the read and the early returns of
`account_thread_goal_usage`), `Write` (its `UPDATE` with what was read before),
`Reread`, `Emit` (publishing, with `note_goal_updated`), `Restore`, `Adopt`
(`restore_goal_runtime`); `Look` and then `Replace`, `Delete`, `UpdateStatus`,
`UpdateObjective` or `PauseActive` for the tools, the commands and a turn that
fails or is stopped. The worker's turn is `TurnBegins`, `Answer`, `RunTools`,
`Harvest`, `TurnError`, `TurnEnds`; goal tools of a batch run beside it, because
they are marked read-only; `GoalCommand` is a `/goal` command on its own thread.

`Restore` clears the accounted id and reads nothing, `Select` is the read that
follows, `Adopt` takes the id it found: an answer that is charged in between finds
no id, and the charge is dropped.

History variables: `charged` (tokens the goal in the row is to be charged: counted
when the answer comes, whatever becomes of it), `owed` (the goal of the answer being
charged), `missed` (those that were dropped), `shaken` (while the answer was being
charged another thread changed the accounted id, or stopped or replaced the goal),
`asked` (what was decided about it), `crossed` (the usage of another goal was written
into its row: the `UPDATE` names the goal accounted for by now, which may have
replaced the one that was read).

*Properties.* `UsageExact`: what a goal has used, what was dropped and what is being
charged is what it was to be charged; so no answer is charged twice, none is
overwritten, and one is dropped (`missed` grows) only when the loop accounted for another goal
at the time of the answer, or another thread interfered before the `UPDATE`. A
`/goal edit` or `resume` of the same active goal is enough: it restores the id
while the worker charges, and the tokens are gone. `BudgetStops`: active only below
the budget, `budget_limited` only at or above. `StatusIsItsOwn`: what was decided
about one goal does not happen to the one that replaced it. All are limited to
`~crossed`, and do not hold of the model without it. That a pause or a
completion stays is not asked: an accounting write that read the row before may
make the goal active again.

*Run.* `goal_usage` has the worker, one goal tool and one command, two goals after
each other, no budget and a budget of one token: each of the three kinds of
threads once, between any two statements of the others, and a replacement under
each. `MaxCommands`, `MaxGoals` and `MaxTokens` are the bounds (2092367 states).

### ModelHistory

What the model is sent. `Recover` is `recover_provider_history`: calls are kept if
well formed and new, results if awaited, missing results become placeholders.
`Effective` is the history a transcript with checkpoints stands for
(`compact_checkpoint.cpp`), `Cuts`, `Pruned` and `Repairs` are
`plan_thread_repair`, `Compacted` and `WithoutOldest` the replacement history of a
compaction and the shrinking of its own request; `Uncalled` is the call that a result
without it takes along (the first message that makes it, as in
`remove_oldest_history_item`). They are recursive functions over sequences of
messages: `Recovery(h)[n]` is the loop's state after `n` messages, `Shrunk(h)[n]` the
request after `n` removals, `Only` a filter. Around them is the session: `UserMessage`,
`AssistantMessage`, `RecordResult`, `SystemRow`, `Compact`, `Repair`, `RepairOnDisk`
(of a session nobody has loaded), `Rewind`, `Ends` (at any point, between a call and
its result too), `DiesWriting` (in the middle of a record) and `Resume`.

A message is its role, the ids of its calls or of the call it answers, and whether
it says anything; its tokens count as one. A system row may stand anywhere, between
a call and its result too, where it does not end the wait: the loop records none
itself, but transcripts hold them. A record that was cut short is a line that cannot
be read (`Partial`); the next record goes behind it on a line of its own
(`Written`), every reader passes over it, and a repair takes it as reason enough even
when no message changes (`Repairs`). Shell turns of the user, rows no projection
keeps and records that could not be written by a process that lives on are left out.

*Properties.* `RequestsPaired`: what is sent is well paired (each call answered
once, behind it with at most system rows between, no id called twice) and recovering it again changes nothing.
`RealResultWins`: no placeholder for a call whose result was recorded, unless two
messages made a call of that id.
`ShrunkStaysPaired`: a compaction that gives up items one by one stays well paired.
`ResumeAgrees`: a resumed session sends what the ended one would have.
`RepairKeepsLastTurn`: a repair cuts off old turns only.

*Run.* `history_recovery` (516610 states) has up to five records, whole or partial, and answers without calls, with
one, two, and a list with a malformed and a repeated id. Five records hold a prompt,
an answer with two calls and their results with a crash between any two of them, a
checkpoint on a checkpoint, a system row before a late result, a partial line
between two records, or two turns to cut between. Whatever the bound, the
theorems have none: they hold for any set of call ids, any lists of them and
histories of any length.

## Disagreement with a document

One run is expected to fail.

| run | what is said | what happens |
|---|---|---|
| `session_serial` | "Writer leases under the project session directory serialize TUI and daemon activation of the same transcript." (`AGENT.md:188`) | a terminal whose resume was refused keeps the session id; once the owner has gone its next message takes the lease and is appended to a transcript it has never read |

## Proofs

The proofs are in one module per component. Each needs only what the component
assumes of its constants (the sets do not overlap, the bounds are natural numbers,
the names of clients are not those of reasons): `ConstantsAssumption` of
`EventDispatcher`, `AgentTurn`, `Prompter` and `LoopScheduler`, `NamesAssumption`
of `AgentTurn` and `Prompter`, `DesktopAssumption`, `ProcessesAssumption`,
`GoalAssumption` and `CallAssumption`. So every theorem holds for all numbers of threads, clients,
processes, inputs or daemons and all bounds. `TypeCorrect` of each module is
`Spec => []TypeOK`, by a strengthening where the types do not keep themselves up.
What a run checks held on its instance before it was proved for all.

**`EventDispatcherProofs`**: `OwnershipCorrect` (`OneCaller`, `PendingIsOwned`),
`DeliveryCorrect` (`DeliveredInOrder`), `BufferCorrect` (`BufferIncreasing`),
`BufferCompleteCorrect` (`BufferComplete`), `RefinementCorrect`
(`ImplementsOrderedDelivery`).

- `Ownership` says who holds a subscription: at most one thread (`UniqueHolder`),
  only an open one (`HeldIsOpen`), exactly when `delivering` is set
  (`ClaimedIsHeld`), a thread that is calling holds it (`CallIsHeld`), the
  subscribing thread is the only one in its phase (`RegisteredPhase`,
  `CatchHandPhase`), and a non-empty queue has an owner (`PendingIsOwned`).
- `Order` lines the events up: buffer, delivered, the one in hand, the queue and
  the next `seq` increase in that order (`BufferOrder`, `ChainOrder`,
  `CatchHandOrder`, `HandOrder`). Ownership is needed for it: if two threads could
  hold one subscription, two events in hand could be delivered either way round.
- `Complete` says that the buffer holds exactly the live events and that each
  key's mark is its last one; without the marks an emit could erase the wrong entry.
- The refinement maps what a client is owed to the event in hand, what is left of
  the replay, and the queue, in that order. Then an emit is an emit, `DrainCall`
  and `CatchUpCall` deliver, `Subscribe` joins, leaving drops what was queued, and
  every other step stutters.

**`AgentTurnProofs`**: `Typed` (with `Stage`: where the worker stands, and what is
open then) carries everything else.

- `ExactlyOnceCorrect`: `Placed` counts the places an input can be in (the transcript,
  both queues, the steers, the worker's hands, refused or discarded): the count is 1
  for an input that was sent and 0 for one that was not. Counting is what makes it
  inductive: disjointness alone does not follow a move that takes one occurrence of
  several.
- `LandsCorrect`: `Aimed` adds what waits, a steer only for the open turn, an
  interrupt's input only for one that is interrupted.
- `OrderCorrect`: `InOrder` says of two inputs accepted for one turn that the earlier
  is committed, in hand, in the priority queue or among the steers *ahead* of the
  later one, wherever the two are; `Open` and `Heard` say that a steer was accepted
  for the turn that is open. It needs the counting and the landing.
- `DiscardedCorrect` (`Ends`, `Recorded`, `Dropped`), `PromisedCorrect` (`Promised`),
  `ReceiptCorrect` (`Told`), `GoalCorrect` (`Awake`: somebody will still look).

**`PrompterProofs`**: `AnswersCorrect` by `AnswerKept`: nobody holds a request that
was not prompted for (`BeforePrompt`), a call that has left its wait returned the
verdict it found or set there (`ReturnedVerdict`), and "accepted" is told to exactly
the client that is the verdict. `VerdictCorrect` follows step by step.
`NoMissedCorrect` and `NoStaleCorrect` by `Displayed`: an open request has been
announced or will be (`Opened`), a client that is connected knows it by a card, by
its stream or by a snapshot still to be sent (`Attached`, `Shown`, `Known`,
`Coming`), and a request that is over has its end in the stream behind whatever
brings the card.

**`LoopSchedulerProofs`**: `AccountedCorrect` by `Table` (one row an occurrence;
between `since` and the next time the records leave none out and do not overlap) and
`Onward` (a schedule goes on, or starts anew); `NoCatchUpCorrect` by `OnTime`;
`StatusCorrect` by `Follows`: what a launching thread holds (`Hand`), no two hold one
run (`Apart`), what a session reported is in the row or on its way (`Sess`).
`SettledCorrect` follows from the same.

**`DesktopDaemonProofs`**: `Numbered` first: desktops and daemons are numbered as
they start, and nothing refers to a later one. `Handed` is, unless `bootRace`: at most
one daemon is at work (`Alone`), a desktop that waits for a child has no other
(`Cradle`), the files a phase has written, or has not yet removed, name its daemon
(`Table`; of the GUID only unless `overlap`), a worker with its GUID still to remove beside
one at work is such an overlap (`Lapse`), what the desktop saw is still so while it acts on it
(`Sighted`), and since it looked files have only been removed (`Current`). It gives
`SpawnsAloneCorrect`, `FilesCorrect` and `RefusesCorrect`. `Alone` counts the daemons
at work rather than those that run, because a worker that has removed its last file
lives on unseen. `SparesCorrect` by `Replacing`, `Bodies` (only the dead have an
occupant) and `Spared` (what stands in the way of a replacement may be taken for a
daemon, `MayBeTaken`); `HeldCorrect` by `Heeds` (every daemon outside `doomed` has the
present desktop as owner, or will look) and `Held`.

**`SessionOwnershipProofs`**: `Basic` (types, and which flags go with which place),
`OneContextCorrect`; `LeaseCorrect` by `LeaseInv`: a created context is named by the
lease or disputed (`Hold`), and of two processes that are about to write the file, or
where one takes it from the other, the loser is disputed (`Pair`). `HistoryCorrect` by
`AloneInv`: until who was alone has taken the lease nobody else is there, and
afterwards nobody takes it without a dispute (`Apart`); it needs `LeaseInv`.

**`ThreadGoalProofs`**: `UsageCorrect`, `BudgetCorrect` and `StatusCorrect` by one
invariant. `Turns` says which threads can be accounting when; that is what makes the
read and the write of `account_thread_goal_usage` safe: nothing else charges between
them. `Given` says that goal ids are new, so that what was read of an earlier goal never
names its successor, `Found` that a pending statement was preceded by one that found
a goal, `Steady` that a pending write still carries what was charged. `Owing` follows
one answer from where it is counted to where its charge lands: nothing is owed outside
the worker's accounting, and unless another thread has interfered (`shaken`) the loop
accounts for the goal it is owed to and that goal can be charged, so that the charge
cannot be dropped on the way.

**`ModelHistoryProofs`** is about what recursive functions compute for histories of
any length, so it brings its own induction. The library's induction theorems take an
operator as a parameter, which no prover here can instantiate; but a *set* that holds
0 and the successor of each of its members holds every natural number
(`SetInduction`), and that follows from the theory of finite sets: otherwise
subtracting one would map the missing numbers up to some `n` one to one onto a smaller
set. `RecursionExists` says by that induction that a function given by its value at 0
and a step exists, so that `Only`, `NewCalls`, `Recovery` and `Shrunk` are what their
equations say (`OnlySteps`, `NewCallsSteps`, `RecoverySteps`, `ShrunkPaired`);
`MinIsLeast` and `MaxIsGreatest` give `Cuts` and `Start` their meaning.

- `Paired(h, open)` is the invariant of the recovery: well paired but for the calls in
  `open`, which the last answer made. `WellPaired` alone is not kept by a step: while
  results are awaited the output is not well paired. One message keeps it with `open`
  the pending calls (`RecoveredSound`, from `PairedUser`, `PairedAssistant`,
  `PairedResults`), so `Paired(Recover(h), {})` of any history (`RecoverPaired`), and
  that is `WellPaired` (`PairedIsWellPaired`: the count of the answers needs that ids
  in a list of calls are distinct).
- A paired history is its own recovery (`RecoverFixed`), by what is waited for after
  each row (`Waits`). So `RecoveryIsSound` holds of all messages in any order, system
  rows among the results too, whether a session can come by them or not, and `RequestsStayPaired` follows.
- The end of a paired history that does not begin with a result is paired
  (`PairedSuffix`). That is what a repair keeps (`PrunedIsEnd`), and what is left when
  the oldest item goes (`WithoutOldestPaired`): the results of the oldest answer stand
  behind it with only system rows between, and no other result has their ids. It also shows that the oldest
  item of such a request is never a result: the branch that takes its call along is not
  reached from a compaction. `ShrinkingIsSound` follows by induction over the removals.
- `RecoveryKeepsPrompts` is proved and not run: what the user said, hidden prompts,
  summaries and system rows are in the recovered history, all of them and in their order.
- `IInv` is the invariant of the session: types, `ResumeAgrees`, nothing in memory
  while no loop has the session, and `TranscriptRecorded`: every result stands behind
  an answer that made its call, a placeholder is the only one of its id there
  (`Recorded`), and results that are due are calls of the latest answer, behind which
  only recorded results and system rows stand (`DueOwned`). `ResumeAgrees` is inductive with the types
  alone; `Effective` of one more row is one more message, or the checkpoint's history
  (`EffectiveMessage`, `EffectiveCheckpoint`, `EffectivePlain`).
- `RealResultsWin` needs the rest: a placeholder that is sent was recorded, or was put
  where the answers to a call end (`PlaceholderOrigin`), and in both cases `Recorded`
  leaves no place for a result of that id behind the one message that called it.
- `RepairsKeepLastTurn` follows step by step: only `Repair` and `RepairOnDisk` put a
  repair checkpoint at the end, of a history that was just recovered.

Only model-checked: the liveness properties (`PendingDelivered`, `SteerServed`,
`InterruptEndsTurn`, `StopEndsTurn`, `InflightEnds`, `CoupledExit`), because the
prover has no fairness.

## Plan

Done: all modules above; every invariant and action property a passing run checks has
its theorem.

Next, in this order:

1. Thread service and subagents: spawn, send, wait, collect and close over the
   sessions of `SessionOwnership`, where a child ends while its parent waits or
   stops. Promise: every wait ends, for the reason it reports. `ThreadService::wait`
   looks at `is_busy` first and subscribes afterwards, from the caller's cursor or
   from now on: a turn that ends in between wakes nobody, and the wait runs into its
   timeout.
2. File checkpoints and rewind as pure operators over a sequence of turns, with a
   record that fails between two files; `Rewind` of `ModelHistory` then takes its
   files along.
3. Doom guard and retry policy as pure operators against a reference definition.
4. Language servers and MCP connections: pairing of requests and answers over a
   restart.

## Not modelled

Everything the inventory lists without a module. Rendering, parsing, transport,
file formats and platform code are left out for good: they keep no state that
several actors change. The list in `PROJECT.json` gives each part and the reason.

Limits inside the modelled parts:

- `DesktopDaemon`: the Windows supervisor, the standalone worker, `stop_all` on
  failures of the browser host.
- `SessionOwnership`: purging, moving and forking a session; file errors. An owner
  that is idle for 30 s may be overtaken though it lives; what then happens to the
  two of them is what `disputed` excepts.
- `ThreadGoal`: opening the database and its errors; `usage_limited` is blocked.
- `ModelHistory`: the shell turns of the user; a record or a checkpoint that could
  not be written, which `apply_compact_result` (`agent_loop.cpp:1250`) ignores;
  `post_user_prompt` handling that nothing reaches (`agent_loop.cpp:3843`); a repair
  of a closed session that another process has open.
- `LoopScheduler`, `AgentTurn`: see their sections.
