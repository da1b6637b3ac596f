------------------------------ MODULE AgentTurn ------------------------------
(***************************************************************************)
(* The worker of one session (src/agent_loop.cpp): its two task queues,    *)
(* the turn it is running, and the threads that submit, steer, interrupt,  *)
(* abort, control and shut it down while it runs.                          *)
(*                                                                         *)
(* One action is one section under queue_mu_ or active_turn_mu_, or one    *)
(* load or store of an atomic flag another thread may change meanwhile.    *)
(* interrupt_turn is a single action: it holds both mutexes to its end.    *)
(* What a message, a tool or a shell command contains is left out; what a  *)
(* model answers is only told apart by the branch the loop takes on it.    *)
(* The goal store is read and written one status at a time.                *)
(***************************************************************************)
EXTENDS Integers, Sequences, FiniteSets, SequencesExt

CONSTANTS
  Inputs,                  \* user inputs: each is submitted, steered or used to interrupt
  Jobs,                    \* submit_shell() and submit_compact() requests
  Controls,                \* enqueue_control() requests
  Continuation,            \* the hidden goal context a continuation submits
  NoTask,                  \* the worker runs no task
  MaxSteers,               \* kMaxPendingTurnSteers
  MaxIter,                 \* loop_cfg_.max_iterations, 0 when there is no limit
  Budget,                  \* a goal's token budget, one token per model answer
  MaxCommands,             \* bound: at most this many /goal commands
  UserStops                \* whether the user presses stop

ASSUME ConstantsAssumption ==
  /\ Inputs \intersect (Jobs \union Controls \union {Continuation}) = {}
  /\ Jobs \intersect (Controls \union {Continuation}) = {}
  /\ Continuation \notin Controls
  /\ MaxSteers \in Nat \ {0}
  /\ MaxIter \in Nat
  /\ Budget \in Nat \ {0}
  /\ MaxCommands \in Nat
  /\ UserStops \in BOOLEAN

Kinds == {"chat", "goal", "job", "control"}
TurnKinds == {"chat", "goal", "job"}        \* is_turn_task
Tasks == [kind : {"chat"}, id : Inputs] \union
         [kind : {"goal"}, id : {Continuation}] \union
         [kind : {"job"}, id : Jobs] \union
         [kind : {"control"}, id : Controls]
Requests == Inputs \union Jobs

ASSUME NamesAssumption == NoTask \notin Tasks

VARIABLES
  tasks,                   \* task_queue_
  priority,                \* priority_task_queue_
  task,                    \* the worker's task while worker_task_active_
  pc,                      \* where the worker stands
  abort,                   \* abort_requested_
  interruptReq,            \* turn_interrupt_requested_
  busy,                    \* busy_
  turn,                    \* active_turn_id_ (0: empty)
  accepting,               \* active_turn_accepting_
  steers,                  \* pending_turn_inputs_
  iter,                    \* total_iterations
  terminator,              \* terminator_fired
  interrupted,             \* interrupted_for_new_turn
  outcome,                 \* turn_timing_status
  goal,                    \* status of the session's goal in the store
  used,                    \* its tokens_used
  charged,                 \* goal_accounting_goal_id_: none, the current goal, a stale one
  caller,                  \* where submit() of each request stands
  command,                 \* where the thread running a /goal command stands
  commands,                \* /goal commands run so far
  stop,                    \* where shutdown() stands
  receipt,                 \* what enqueue_control() answered
  turnNo,                  \* history: turns begun
  transcript,              \* history: user messages in messages_, and their turn
  accepted,                \* history: inputs accepted by steer or interrupt, in order
  named,                   \* history: the turn such an input named
  gone,                    \* history: inputs that will never be committed
  interruptedTurns,        \* history: turns an interrupt was accepted for
  outcomes,                \* history: outcome of every finished turn
  wiped,                   \* history: an abort of the running task was withdrawn
  last                     \* history: kind of the task that ended last

queueVars == <<tasks, priority>>
turnVars == <<turn, accepting, steers>>
loopVars == <<iter, terminator, interrupted, outcome>>
goalVars == <<goal, used, charged>>
callerVars == <<caller, command, commands, stop, receipt>>
promiseVars == <<accepted, named, interruptedTurns>>
historyVars == <<turnNo, transcript, gone, outcomes, last>>
vars == <<queueVars, task, pc, abort, interruptReq, busy, turnVars, loopVars,
          goalVars, callerVars, promiseVars, historyVars, wiped>>

Init ==
  /\ tasks = <<>>
  /\ priority = <<>>
  /\ task = NoTask
  /\ pc = "wait"
  /\ abort = FALSE
  /\ interruptReq = FALSE
  /\ busy = FALSE
  /\ turn = 0
  /\ accepting = FALSE
  /\ steers = <<>>
  /\ iter = 0
  /\ terminator = FALSE
  /\ interrupted = FALSE
  /\ outcome = "completed"
  /\ goal = "none"
  /\ used = 0
  /\ charged = "none"
  /\ caller = [r \in Requests |-> "new"]
  /\ command = "ready"
  /\ commands = 0
  /\ stop = "running"
  /\ receipt = [c \in Controls |-> "none"]
  /\ turnNo = 0
  /\ transcript = <<>>
  /\ accepted = <<>>
  /\ named = [i \in Inputs |-> 0]
  /\ gone = [i \in Inputs |-> "no"]
  /\ interruptedTurns = {}
  /\ outcomes = <<>>
  /\ wiped = FALSE
  /\ last = "none"
-----------------------------------------------------------------------------
(* Plausible mistakes in the code below.  No action uses them: each one,   *)
(* put in the place of the definition it is named after, must break a      *)
(* property.                                                               *)

BehindTurnFromBusy == busy                   \* looks at busy_, not at the queues
ExpectsAnyTurn(i, expected) ==               \* forgets expected_turn_id
  caller[i] = "new" /\ accepting /\ turn # 0
RequestInterruptOnly ==                      \* forgets abort_requested_
  interruptReq' = TRUE /\ UNCHANGED abort
FollowUpsNewestFirst(inputs) ==              \* the interrupting input first
  [k \in DOMAIN inputs |-> [kind |-> "chat", id |-> inputs[Len(inputs) + 1 - k]]]
DrainSteersNever == UNCHANGED <<transcript, steers>>
DrainSteersCopies ==                         \* copies the inputs, no swap
  /\ transcript' = transcript \o [k \in DOMAIN steers |->
                                     [id |-> steers[k], turn |-> turn]]
  /\ UNCHANGED steers

DequeueOrdinaryFirst ==                      \* looks at task_queue_ first
  /\ pc = "wait"
  /\ stop = "running"
  /\ \/ /\ tasks # <<>>
        /\ task' = Head(tasks)
        /\ tasks' = Tail(tasks)
        /\ UNCHANGED priority
     \/ /\ tasks = <<>> /\ priority # <<>>
        /\ task' = Head(priority)
        /\ priority' = Tail(priority)
        /\ UNCHANGED tasks
  /\ pc' = IF task'.kind = "control" THEN "finish" ELSE "begin"
  /\ UNCHANGED <<abort, interruptReq, busy, turnVars, loopVars, goalVars,
                 callerVars, promiseVars, historyVars, wiped>>

HookBlocksForGood ==                         \* returns without maybe_continue_goal
  /\ pc = "hook"
  /\ task.kind = "chat"
  /\ gone' = [gone EXCEPT ![task.id] = "blocked"]
  /\ busy' = FALSE
  /\ pc' = "finish"
  /\ UNCHANGED <<queueVars, task, abort, interruptReq, turnVars, loopVars,
                 goalVars, callerVars, promiseVars, turnNo, transcript,
                 outcomes, last, wiped>>

BoundaryClosesAnyway ==                      \* closes over pending steers
  /\ pc = "boundary"
  /\ turn' = IF accepting THEN 0 ELSE turn
  /\ accepting' = FALSE
  /\ pc' = "limit"
  /\ UNCHANGED <<queueVars, task, abort, interruptReq, busy, steers, loopVars,
                 goalVars, callerVars, promiseVars, historyVars, wiped>>
-----------------------------------------------------------------------------
(* submit, submit_shell, submit_compact: clear_stale_abort_request loads   *)
(* busy_ and then stores abort_requested_, then the task is queued.        *)

WithdrawAbort ==
  /\ abort' = FALSE
  /\ wiped' = (wiped \/ (abort /\ pc # "wait"))

SubmitRead(r) ==
  /\ caller[r] = "new"
  /\ caller' = [caller EXCEPT ![r] = IF busy THEN "push" ELSE "clear"]
  /\ UNCHANGED <<queueVars, task, pc, abort, interruptReq, busy, turnVars,
                 loopVars, goalVars, command, commands, stop, receipt,
                 promiseVars, historyVars, wiped>>

SubmitClear(r) ==
  /\ caller[r] = "clear"
  /\ caller' = [caller EXCEPT ![r] = "push"]
  /\ WithdrawAbort
  /\ UNCHANGED <<queueVars, task, pc, interruptReq, busy, turnVars, loopVars,
                 goalVars, command, commands, stop, receipt, promiseVars,
                 historyVars>>

SubmitPush(r) ==
  /\ caller[r] = "push"
  /\ caller' = [caller EXCEPT ![r] = "sent"]
  /\ tasks' = Append(tasks, [kind |-> IF r \in Jobs THEN "job" ELSE "chat",
                             id |-> r])
  /\ UNCHANGED <<priority, task, pc, abort, interruptReq, busy, turnVars,
                 loopVars, goalVars, command, commands, stop, receipt,
                 promiseVars, historyVars, wiped>>

(* enqueue_control: the receipt says whether a turn is before the control. *)
BehindTurn ==
  \/ task # NoTask /\ task.kind \in TurnKinds
  \/ \E t \in Range(priority) \union Range(tasks) : t.kind \in TurnKinds

EnqueueControl(c) ==
  /\ receipt[c] = "none"
  /\ stop = "running"
  /\ receipt' = [receipt EXCEPT ![c] = IF BehindTurn THEN "behind" ELSE "free"]
  /\ tasks' = Append(tasks, [kind |-> "control", id |-> c])
  /\ UNCHANGED <<priority, task, pc, abort, interruptReq, busy, turnVars,
                 loopVars, goalVars, caller, command, commands, stop,
                 promiseVars, historyVars, wiped>>

(* steer_input and interrupt_turn, their accepting paths; the others       *)
(* return a status and change nothing.  expected is the turn the client    *)
(* believes is running: any turn it has heard of.                          *)

Expects(i, expected) ==
  /\ caller[i] = "new"
  /\ accepting /\ turn # 0
  /\ expected = turn

Promise(i, expected) ==
  /\ caller' = [caller EXCEPT ![i] = "sent"]
  /\ accepted' = Append(accepted, i)
  /\ named' = [named EXCEPT ![i] = expected]

SteerInput(i, expected) ==
  /\ Expects(i, expected)
  /\ Len(steers) < MaxSteers
  /\ steers' = Append(steers, i)
  /\ Promise(i, expected)
  /\ UNCHANGED <<queueVars, task, pc, abort, interruptReq, busy, turn,
                 accepting, loopVars, goalVars, command, commands, stop,
                 receipt, interruptedTurns, historyVars, wiped>>

RequestInterrupt == interruptReq' = TRUE /\ abort' = TRUE

FollowUps(inputs) == [k \in DOMAIN inputs |-> [kind |-> "chat", id |-> inputs[k]]]

InterruptTurn(i, expected) ==
  /\ Expects(i, expected)
  /\ Len(priority) + Len(steers) + 1 <= MaxSteers
  /\ priority' = priority \o FollowUps(Append(steers, i))
  /\ steers' = <<>>
  /\ accepting' = FALSE
  /\ RequestInterrupt
  /\ Promise(i, expected)
  /\ interruptedTurns' = interruptedTurns \union {turn}
  /\ UNCHANGED <<tasks, task, pc, busy, turn, loopVars, goalVars, command,
                 commands, stop, receipt, historyVars, wiped>>

(* abort *)
Abort ==
  /\ UserStops
  /\ abort' = TRUE
  /\ UNCHANGED <<queueVars, task, pc, interruptReq, busy, turnVars, loopVars,
                 goalVars, callerVars, promiseVars, historyVars, wiped>>

(* shutdown: the flag under queue_mu_, then the abort flag, then the join. *)
ShutdownFlag ==
  /\ stop = "running"
  /\ stop' = "stopping"
  /\ UNCHANGED <<queueVars, task, pc, abort, interruptReq, busy, turnVars,
                 loopVars, goalVars, caller, command, commands, receipt,
                 promiseVars, historyVars, wiped>>

ShutdownAbort ==
  /\ stop = "stopping"
  /\ stop' = "joining"
  /\ abort' = TRUE
  /\ UNCHANGED <<queueVars, task, pc, interruptReq, busy, turnVars, loopVars,
                 goalVars, caller, command, commands, receipt, promiseVars,
                 historyVars, wiped>>

ShutdownJoin ==
  /\ stop = "joining" /\ pc = "exited"
  /\ stop' = "joined"
  /\ UNCHANGED <<queueVars, task, pc, abort, interruptReq, busy, turnVars,
                 loopVars, goalVars, caller, command, commands, receipt,
                 promiseVars, historyVars, wiped>>
-----------------------------------------------------------------------------
(* maybe_continue_goal, run by the worker after a turn and by a command:   *)
(* the flags and the goal are read first, the queues later.                *)

MayContinue == ~abort /\ ~busy /\ goal = "active"

PushContinuation ==
  tasks' = IF stop = "running" /\ priority = <<>> /\ tasks = <<>>
           THEN <<[kind |-> "goal", id |-> Continuation]>>
           ELSE tasks

(* /goal.  Only setting and resuming a goal go on to maybe_continue_goal.  *)
CommandStart ==
  /\ command = "ready"
  /\ commands < MaxCommands
  /\ commands' = commands + 1

GoalSet ==
  /\ CommandStart
  /\ goal' = "active"
  /\ used' = 0
  /\ charged' = IF charged = "current" THEN "stale" ELSE charged
  /\ command' = "check"
  /\ UNCHANGED <<queueVars, task, pc, abort, interruptReq, busy, turnVars,
                 loopVars, caller, stop, receipt, promiseVars, historyVars,
                 wiped>>

GoalResume ==
  /\ CommandStart
  /\ goal \in {"active", "paused", "blocked"}
  /\ used < Budget
  /\ goal' = "active"
  /\ command' = "read"
  /\ UNCHANGED <<queueVars, task, pc, abort, interruptReq, busy, turnVars,
                 loopVars, used, charged, caller, stop, receipt, promiseVars,
                 historyVars, wiped>>

GoalStop ==
  /\ CommandStart
  /\ goal' \in {"paused", "none"}
  /\ goal' = "paused" => goal = "active"
  /\ goal' = "none" => goal # "none"
  /\ UNCHANGED <<queueVars, task, pc, abort, interruptReq, busy, turnVars,
                 loopVars, used, charged, caller, command, stop, receipt, promiseVars,
                 historyVars, wiped>>

CommandRead ==
  /\ command = "read"
  /\ command' = IF busy THEN "check" ELSE "clear"
  /\ UNCHANGED <<queueVars, task, pc, abort, interruptReq, busy, turnVars,
                 loopVars, goalVars, caller, commands, stop, receipt,
                 promiseVars, historyVars, wiped>>

CommandClear ==
  /\ command = "clear"
  /\ command' = "check"
  /\ WithdrawAbort
  /\ UNCHANGED <<queueVars, task, pc, interruptReq, busy, turnVars, loopVars,
                 goalVars, caller, commands, stop, receipt, promiseVars,
                 historyVars>>

CommandCheck ==
  /\ command = "check"
  /\ command' = IF MayContinue THEN "push" ELSE "ready"
  /\ UNCHANGED <<queueVars, task, pc, abort, interruptReq, busy, turnVars,
                 loopVars, goalVars, caller, commands, stop, receipt,
                 promiseVars, historyVars, wiped>>

CommandPush ==
  /\ command = "push"
  /\ command' = "ready"
  /\ PushContinuation
  /\ UNCHANGED <<priority, task, pc, abort, interruptReq, busy, turnVars,
                 loopVars, goalVars, caller, commands, stop, receipt,
                 promiseVars, historyVars, wiped>>
-----------------------------------------------------------------------------
(* worker_main *)
Dequeue ==
  /\ pc = "wait"
  /\ stop = "running"
  /\ \/ /\ priority # <<>>
        /\ task' = Head(priority)
        /\ priority' = Tail(priority)
        /\ UNCHANGED tasks
     \/ /\ priority = <<>> /\ tasks # <<>>
        /\ task' = Head(tasks)
        /\ tasks' = Tail(tasks)
        /\ UNCHANGED priority
  /\ pc' = IF task'.kind = "control" THEN "finish" ELSE "begin"
  /\ UNCHANGED <<abort, interruptReq, busy, turnVars, loopVars, goalVars,
                 callerVars, promiseVars, historyVars, wiped>>

Exit ==
  /\ pc = "wait"
  /\ stop # "running"
  /\ pc' = "exited"
  /\ UNCHANGED <<queueVars, task, abort, interruptReq, busy, turnVars,
                 loopVars, goalVars, callerVars, promiseVars, historyVars,
                 wiped>>

Finish ==
  /\ pc = "finish"
  /\ pc' = "wait"
  /\ task' = NoTask
  /\ last' = task.kind
  /\ UNCHANGED <<queueVars, abort, interruptReq, busy, turnVars, loopVars,
                 goalVars, callerVars, promiseVars, turnNo, transcript, gone,
                 outcomes, wiped>>

(* The first statements of run_agent_with_input, run_compact, run_shell.   *)
Begin ==
  /\ pc = "begin"
  /\ abort' = FALSE
  /\ interruptReq' = (interruptReq /\ task.kind = "job")
  /\ busy' = TRUE
  /\ wiped' = FALSE
  /\ charged' = IF task.kind = "job" THEN charged
                ELSE IF goal = "active" THEN "current" ELSE "none"
  /\ pc' = IF task.kind = "job" THEN "job" ELSE "hook"
  /\ UNCHANGED <<queueVars, task, turnVars, loopVars, goal, used, callerVars,
                 promiseVars, historyVars>>

JobDone ==
  /\ pc = "job"
  /\ busy' = FALSE
  /\ pc' = "finish"
  /\ UNCHANGED <<queueVars, task, abort, interruptReq, turnVars, loopVars,
                 goalVars, callerVars, promiseVars, historyVars, wiped>>

(* run_agent_with_input.  A hook may refuse the prompt of a user's turn.   *)
HookBlocks ==
  /\ pc = "hook"
  /\ task.kind = "chat"
  /\ gone' = [gone EXCEPT ![task.id] = "blocked"]
  /\ busy' = FALSE
  /\ pc' = "continue"
  /\ UNCHANGED <<queueVars, task, abort, interruptReq, turnVars, loopVars,
                 goalVars, callerVars, promiseVars, turnNo, transcript,
                 outcomes, last, wiped>>

Commit(ids, t) == transcript \o [k \in DOMAIN ids |-> [id |-> ids[k], turn |-> t]]

(* stop_active_goal_after_turn_error *)
StopGoal == goal' = IF goal = "active" THEN "blocked" ELSE goal

(* account_goal_usage of one model answer.  A turn that began without a    *)
(* goal charges the one it finds; one whose goal was replaced charges none. *)
Account ==
  IF goal = "active" /\ charged # "stale"
  THEN /\ used' = used + 1
       /\ goal' = IF used + 1 >= Budget THEN "done" ELSE goal
       /\ charged' = "current"
  ELSE UNCHANGED goalVars

(* prepare_user_turn, begin_active_turn; a failed pre-turn compaction      *)
(* leaves the turn nothing to do but end.                                  *)
Prepare ==
  /\ pc = "hook"
  /\ transcript' = Commit(<<task.id>>, turnNo + 1)
  /\ turnNo' = turnNo + 1
  /\ turn' = turnNo + 1
  /\ accepting' = TRUE
  /\ steers' = <<>>
  /\ iter' = 0
  /\ terminator' = FALSE
  /\ interrupted' = FALSE
  /\ \/ /\ outcome' = "completed"
        /\ pc' = "top"
        /\ UNCHANGED goal
     \/ /\ outcome' = "error"
        /\ pc' = "limit"
        /\ StopGoal
  /\ UNCHANGED <<queueVars, task, abort, interruptReq, busy, used, charged,
                 callerVars, promiseVars, gone, outcomes, last, wiped>>

AtLimit == MaxIter > 0 /\ iter >= MaxIter
Counted == IF MaxIter > 0 THEN iter + 1 ELSE iter   \* no limit: not observed

(* drain_active_turn_inputs(false) at the head of the loop *)
DrainSteers ==
  IF accepting
  THEN /\ transcript' = Commit(steers, turn)
       /\ steers' = <<>>
  ELSE UNCHANGED <<transcript, steers>>

LoopExit ==
  /\ pc = "top"
  /\ abort \/ AtLimit
  /\ pc' = "limit"
  /\ UNCHANGED <<queueVars, task, abort, interruptReq, busy, turnVars,
                 loopVars, goalVars, callerVars, promiseVars, historyVars,
                 wiped>>

(* No provider is configured, found after the drain; or the automatic      *)
(* compaction failed before it.                                            *)
LoopError ==
  /\ pc = "top"
  /\ ~abort /\ ~AtLimit
  /\ iter' = Counted
  /\ outcome' = "error"
  /\ StopGoal
  /\ DrainSteers \/ UNCHANGED <<transcript, steers>>
  /\ pc' = "limit"
  /\ UNCHANGED <<queueVars, task, abort, interruptReq, busy, turn, accepting,
                 terminator, interrupted, used, charged, callerVars,
                 promiseVars, turnNo, gone, outcomes, last, wiped>>

ModelCall ==
  /\ pc = "top"
  /\ ~abort /\ ~AtLimit
  /\ iter' = Counted
  /\ DrainSteers
  /\ pc' = "response"
  /\ UNCHANGED <<queueVars, task, abort, interruptReq, busy, turn, accepting,
                 terminator, interrupted, outcome, goalVars, callerVars,
                 promiseVars, turnNo, gone, outcomes, last, wiped>>

(* The model's answer, whose tokens were charged if they were reported.    *)
(* An abort seen here ends the turn whatever came.                         *)
ResponseAborted ==
  /\ pc = "response"
  /\ abort
  /\ Account \/ UNCHANGED goalVars
  /\ pc' = "limit"
  /\ UNCHANGED <<queueVars, task, abort, interruptReq, busy, turnVars,
                 loopVars, callerVars, promiseVars, historyVars,
                 wiped>>

(* Context repair, or an empty answer (which is charged): again, and the   *)
(* iteration is free.                                                      *)
ResponseRetry ==
  /\ pc = "response"
  /\ ~abort
  /\ Account \/ UNCHANGED goalVars
  /\ iter' = IF MaxIter > 0 THEN iter - 1 ELSE iter
  /\ pc' = "top"
  /\ UNCHANGED <<queueVars, task, abort, interruptReq, busy, turnVars,
                 terminator, interrupted, outcome, callerVars, promiseVars,
                 historyVars, wiped>>

(* A provider error, or one empty answer too many (which is charged, and   *)
(* may use up the budget before the goal is stopped).                      *)
ResponseError ==
  /\ pc = "response"
  /\ ~abort
  /\ outcome' = "error"
  /\ \/ StopGoal /\ UNCHANGED <<used, charged>>
     \/ /\ goal = "active" /\ charged # "stale"
        /\ used' = used + 1
        /\ charged' = "current"
        /\ goal' = IF used + 1 >= Budget THEN "done" ELSE "blocked"
  /\ pc' = "limit"
  /\ UNCHANGED <<queueVars, task, abort, interruptReq, busy, turnVars, iter,
                 terminator, interrupted, callerVars, promiseVars,
                 historyVars, wiped>>

(* Text, or a tool that ends the turn; a stop hook may ask for more.       *)
ResponseFinal ==
  /\ pc = "response"
  /\ ~abort
  /\ Account
  /\ \/ pc' = "top" /\ UNCHANGED terminator
     \/ pc' = "boundary" /\ terminator' \in BOOLEAN
  /\ UNCHANGED <<queueVars, task, abort, interruptReq, busy, turnVars, iter,
                 interrupted, outcome, callerVars, promiseVars, historyVars,
                 wiped>>

(* Tools that do not end the turn; update_goal may end the goal.           *)
ResponseTools ==
  /\ pc = "response"
  /\ ~abort
  /\ \/ Account
     \/ /\ goal = "active"
        /\ goal' = "done"
        /\ used' = IF charged = "stale" THEN used ELSE used + 1
        /\ charged' = IF charged = "stale" THEN charged ELSE "current"
  /\ pc' = "top"
  /\ UNCHANGED <<queueVars, task, abort, interruptReq, busy, turnVars,
                 loopVars, callerVars, promiseVars, historyVars, wiped>>

(* drain_active_turn_inputs(true): the turn closes to steering in the same *)
(* section that finds nothing left to commit.                              *)
BoundaryCommits ==
  /\ pc = "boundary"
  /\ accepting /\ steers # <<>>
  /\ transcript' = Commit(steers, turn)
  /\ steers' = <<>>
  /\ terminator' = FALSE
  /\ pc' = "top"
  /\ UNCHANGED <<queueVars, task, abort, interruptReq, busy, turn, accepting,
                 iter, interrupted, outcome, goalVars, callerVars,
                 promiseVars, turnNo, gone, outcomes, last, wiped>>

BoundaryCloses ==
  /\ pc = "boundary"
  /\ ~(accepting /\ steers # <<>>)
  /\ turn' = IF accepting THEN 0 ELSE turn
  /\ accepting' = FALSE
  /\ pc' = "limit"
  /\ UNCHANGED <<queueVars, task, abort, interruptReq, busy, steers, loopVars,
                 goalVars, callerVars, promiseVars, historyVars, wiped>>

(* After the loop: three reads of abort_requested_, each on its own.       *)
LimitCheck ==
  /\ pc = "limit"
  /\ outcome' = IF ~abort /\ ~terminator /\ AtLimit THEN "error" ELSE outcome
  /\ pc' = "claim"
  /\ UNCHANGED <<queueVars, task, abort, interruptReq, busy, turnVars, iter,
                 terminator, interrupted, goalVars, callerVars, promiseVars,
                 historyVars, wiped>>

ClaimInterrupt ==
  /\ pc = "claim"
  /\ interrupted' = (abort /\ interruptReq)
  /\ interruptReq' = (interruptReq /\ ~abort)
  /\ pc' = "settle"
  /\ UNCHANGED <<queueVars, task, abort, busy, turnVars, iter, terminator,
                 outcome, goalVars, callerVars, promiseVars, historyVars,
                 wiped>>

Settle ==
  /\ pc = "settle"
  /\ outcome' = IF abort THEN "aborted" ELSE outcome
  /\ goal' = IF abort /\ ~interrupted /\ goal = "active" THEN "paused" ELSE goal
  /\ pc' = "close"
  /\ UNCHANGED <<queueVars, task, abort, interruptReq, busy, turnVars, iter,
                 terminator, interrupted, used, charged, callerVars,
                 promiseVars, historyVars, wiped>>

(* close_active_turn_and_discard *)
Close ==
  /\ pc = "close"
  /\ gone' = [i \in Inputs |-> IF i \in Range(steers) THEN "discarded" ELSE gone[i]]
  /\ steers' = <<>>
  /\ accepting' = FALSE
  /\ turn' = 0
  /\ outcomes' = Append(outcomes, [result |-> outcome, wiped |-> wiped])
  /\ pc' = "idle"
  /\ UNCHANGED <<queueVars, task, abort, interruptReq, busy, loopVars,
                 goalVars, callerVars, promiseVars, turnNo, transcript, last,
                 wiped>>

Idle ==
  /\ pc = "idle"
  /\ busy' = FALSE
  /\ pc' = "continue"
  /\ UNCHANGED <<queueVars, task, abort, interruptReq, turnVars, loopVars,
                 goalVars, callerVars, promiseVars, historyVars, wiped>>

ContinueCheck ==
  /\ pc = "continue"
  /\ pc' = IF MayContinue THEN "push" ELSE "finish"
  /\ UNCHANGED <<queueVars, task, abort, interruptReq, busy, turnVars,
                 loopVars, goalVars, callerVars, promiseVars, historyVars,
                 wiped>>

ContinuePush ==
  /\ pc = "push"
  /\ PushContinuation
  /\ pc' = "finish"
  /\ UNCHANGED <<priority, task, abort, interruptReq, busy, turnVars,
                 loopVars, goalVars, callerVars, promiseVars, historyVars,
                 wiped>>
-----------------------------------------------------------------------------
Turn == \/ Begin \/ HookBlocks \/ Prepare \/ LoopExit \/ LoopError \/ ModelCall
        \/ ResponseAborted \/ ResponseRetry \/ ResponseError \/ ResponseFinal
        \/ ResponseTools \/ BoundaryCommits \/ BoundaryCloses \/ LimitCheck
        \/ ClaimInterrupt \/ Settle \/ Close \/ Idle \/ ContinueCheck
        \/ ContinuePush

Worker == Dequeue \/ Exit \/ Finish \/ JobDone \/ Turn

Submitter(r) == SubmitRead(r) \/ SubmitClear(r) \/ SubmitPush(r)

Commander == \/ GoalSet \/ GoalResume \/ GoalStop
             \/ CommandRead \/ CommandClear \/ CommandCheck \/ CommandPush

Next ==
  \/ Worker
  \/ Commander
  \/ \E r \in Requests : Submitter(r)
  \/ \E c \in Controls : EnqueueControl(c)
  \/ \E i \in Inputs, expected \in 1..turnNo :
       SteerInput(i, expected) \/ InterruptTurn(i, expected)
  \/ Abort \/ ShutdownFlag \/ ShutdownAbort \/ ShutdownJoin

Spec == Init /\ [][Next]_vars

(* The worker thread is always scheduled, a model call and a tool return,  *)
(* and a submit or command that has begun runs on to its end.              *)
Fairness ==
  /\ WF_vars(Worker)
  /\ WF_vars(CommandRead \/ CommandClear \/ CommandCheck \/ CommandPush)
  /\ \A r \in Requests : WF_vars(SubmitClear(r) \/ SubmitPush(r))
  /\ WF_vars(ShutdownAbort)

FairSpec == Spec /\ Fairness
-----------------------------------------------------------------------------
(* Properties *)

Stages == {"wait", "finish", "begin", "job", "hook", "top", "response",
           "boundary", "limit", "claim", "settle", "close", "idle",
           "continue", "push", "exited"}
Results == {"completed", "error", "aborted"}

(* Every variable stays in its range, and both steering queues respect the *)
(* limit steer_input and interrupt_turn check.                             *)
TypeOK ==
  /\ tasks \in Seq(Tasks)
  /\ priority \in Seq([kind : {"chat"}, id : Inputs]) /\ Len(priority) <= MaxSteers
  /\ task \in Tasks \union {NoTask}
  /\ pc \in Stages
  /\ abort \in BOOLEAN /\ interruptReq \in BOOLEAN /\ busy \in BOOLEAN
  /\ turn \in Nat
  /\ accepting \in BOOLEAN
  /\ steers \in Seq(Inputs) /\ Len(steers) <= MaxSteers
  /\ iter \in Nat /\ (MaxIter > 0 => iter <= MaxIter)
  /\ terminator \in BOOLEAN /\ interrupted \in BOOLEAN
  /\ outcome \in Results
  /\ goal \in {"none", "active", "paused", "blocked", "done"}
  /\ used \in 0..Budget
  /\ charged \in {"none", "current", "stale"}
  /\ caller \in [Requests -> {"new", "clear", "push", "sent"}]
  /\ command \in {"ready", "read", "clear", "check", "push"}
  /\ commands \in 0..MaxCommands
  /\ stop \in {"running", "stopping", "joining", "joined"}
  /\ receipt \in [Controls -> {"none", "free", "behind"}]
  /\ turnNo \in Nat
  /\ transcript \in Seq([id : Inputs \union {Continuation}, turn : Nat])
  /\ accepted \in Seq(Inputs)
  /\ named \in [Inputs -> Nat]
  /\ gone \in [Inputs -> {"no", "blocked", "discarded"}]
  /\ interruptedTurns \subseteq Nat
  /\ outcomes \in Seq([result : Results, wiped : BOOLEAN])
  /\ wiped \in BOOLEAN
  /\ last \in Kinds \union {"none"}

Committed(i) == {k \in DOMAIN transcript : transcript[k].id = i}
Queued(q, i) == {k \in DOMAIN q : q[k].id = i}
InHand(i) == pc \in {"begin", "hook"} /\ task.id = i

Copies(i) ==
  Cardinality(Committed(i)) + Cardinality(Queued(tasks, i))
  + Cardinality(Queued(priority, i))
  + Cardinality({k \in DOMAIN steers : steers[k] = i})
  + (IF InHand(i) THEN 1 ELSE 0)
  + (IF gone[i] # "no" THEN 1 ELSE 0)

(* An input that was submitted, steered or used to interrupt is in exactly *)
(* one place from then on: a queue, the worker's hands, the transcript, or *)
(* explicitly given up.  submit, steer_input, interrupt_turn and the two   *)
(* drains hand it over without losing or duplicating it.                   *)
ExactlyOnce ==
  \A i \in Inputs : Copies(i) = IF caller[i] = "sent" THEN 1 ELSE 0

(* An input accepted for a turn is committed in that turn, or, when that   *)
(* turn was interrupted, in a turn that began after it.  The expected id   *)
(* is checked in the section that queues the input.                        *)
LandsInNamedTurn ==
  \A i \in Inputs : named[i] # 0 =>
    \A k \in Committed(i) :
      \/ transcript[k].turn = named[i]
      \/ named[i] \in interruptedTurns /\ transcript[k].turn > named[i]

(* Inputs accepted for one turn are committed in the order of acceptance,  *)
(* also when an interrupt moved the earlier ones to the priority queue; a  *)
(* later one never overtakes an earlier one, unless a hook refused that.   *)
AcceptedInOrder ==
  \A a, b \in DOMAIN accepted :
    (a < b /\ named[accepted[a]] = named[accepted[b]]) =>
      \A k \in Committed(accepted[b]) :
        \/ gone[accepted[a]] = "blocked"
        \/ \E j \in Committed(accepted[a]) : j < k

(* A steer that was acknowledged is dropped only by a turn that did not    *)
(* complete: a model answer never ends a turn over a steer accepted before *)
(* the final boundary.  The exception is a turn whose abort a late         *)
(* clear_stale_abort_request withdrew.                                     *)
DiscardedOnlyByFailure ==
  \A i \in Inputs : gone[i] = "discarded" =>
    LET end == outcomes[named[i]]
    IN  end.result # "completed" \/ end.wiped

(* While an input promised by interrupt_turn waits, nothing is committed   *)
(* but inputs that steering or interrupting accepted: ordinary queued work *)
(* and goal continuations stay behind it.                                  *)
PromisedRunFirst ==
  [][priority # <<>> =>
       \A k \in DOMAIN transcript' \ DOMAIN transcript :
         transcript'[k].id \in Range(accepted)]_vars

(* A control whose receipt says it is behind no turn runs before any turn: *)
(* while it waits no turn runs and none is queued before it.               *)
ReceiptHolds ==
  \A k \in DOMAIN tasks :
    (tasks[k].kind = "control" /\ receipt[tasks[k].id] = "free") =>
      /\ task = NoTask \/ task.kind = "control"
      /\ priority = <<>>
      /\ \A j \in 1..(k - 1) : tasks[j].kind = "control"

Quiet ==
  /\ pc = "wait" /\ stop = "running"
  /\ tasks = <<>> /\ priority = <<>>
  /\ command = "ready"
  /\ \A r \in Requests : caller[r] \in {"new", "sent"}

(* Whichever of a turn's end and a /goal command comes first, one of them  *)
(* continues an active goal: it is left alone in an idle session only when *)
(* an abort is pending or when the last task was no turn of the agent,     *)
(* after which worker_main looks at no goal.                               *)
GoalNotLost ==
  (Quiet /\ goal = "active" /\ ~abort) => last \in {"job", "control"}

(* A soft steer does not wait for its turn to end: however long the model  *)
(* goes on calling tools, it leaves the pending queue at one of the next   *)
(* model requests (or with the turn).                                      *)
SteerServed == \A i \in Inputs : i \in Range(steers) ~> i \notin Range(steers)

(* A turn that was interrupted ends, however long the model would go on,   *)
(* unless a late clear_stale_abort_request withdrew the abort.             *)
InterruptEndsTurn ==
  \A t \in 1..Cardinality(Inputs) :
    t \in interruptedTurns ~> t \in DOMAIN outcomes \/ wiped
=============================================================================
