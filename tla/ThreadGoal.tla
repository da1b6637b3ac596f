----------------------------- MODULE ThreadGoal -----------------------------
(***************************************************************************)
(* The goal of one session: its row in state.sqlite3                         *)
(* (src/session/thread_goal_store.cpp), what AgentLoop remembers of it to    *)
(* account usage (goal_accounting_goal_id_, src/agent_loop.cpp), and the     *)
(* three kinds of threads that work on both: the worker that runs the turns, *)
(* the goal tools of a batch (src/tool/goal_tool.cpp, marked read-only and   *)
(* therefore run in parallel), and /goal commands                            *)
(* (src/session/session_registry.cpp, commands/goal_command.cpp).            *)
(*                                                                          *)
(* One SQL statement is one step; nothing holds a lock or a transaction from *)
(* one statement to the next.  goal_accounting_goal_id_ is shared without a  *)
(* lock as well and handed to the store by reference: every look at it is a  *)
(* look at its value of that moment.  Time is counted beside tokens: it      *)
(* only matters here that a delta of 0 tokens may still write the row.       *)
(* usage_limited is written as "blocked": nothing tells them apart.          *)
(***************************************************************************)
EXTENDS Naturals, FiniteSets

CONSTANTS
  Worker,                  \* the thread that runs the turns
  Tools,                   \* the goal tools of a batch
  Commands,                \* threads that execute /goal commands
  Budgets,                 \* token budgets; 0 is none
  MaxCommands,             \* bound: /goal commands ever given
  MaxGoals,                \* bound: goals ever created
  MaxTokens                \* bound: answers charged to one goal

ASSUME GoalAssumption ==
  /\ Worker \notin Tools \union Commands
  /\ Tools \intersect Commands = {}
  /\ Budgets \subseteq Nat
  /\ MaxCommands \in Nat /\ MaxGoals \in Nat /\ MaxTokens \in Nat

Threads == {Worker} \union Tools \union Commands
NoId == 0

ToolOps == {"get", "create", "complete", "blocked"}
CommandOps == {"set", "pause", "resume", "edit", "clear"}
TurnOps == {"begin", "answer", "harvest", "finish", "abort", "error"}
Statuses == {"active", "paused", "blocked", "budget_limited", "complete"}

(* Where a call stands: in account_goal_usage, in restore_goal_runtime, or   *)
(* before and after the statement it is about.                               *)
Steps == {"idle", "account", "charge", "write", "restore", "select", "adopt",
          "look", "apply", "pause", "reread", "emit"}

VARIABLES
  row,                     \* the row of the session, or NoGoal
  acct,                    \* goal_accounting_goal_id_
  call,                    \* thread -> the call it is in
  inTurn,                  \* a turn is running
  batch,                   \* the tool calls whose result was not taken yet
  given,                   \* commands given
  born,                    \* goal ids given out
  charged,                 \* history: tokens the goal in the row is to be charged
  missed,                  \* history: those of them that were dropped
  owed,                    \* history: the goal the answer being charged is due to
  shaken,                  \* history: another thread interfered with that charge
  asked,                   \* history: what tools and users made of it
  crossed                  \* history: it got the usage of another goal

chargeVars == <<missed, owed>>
goalVars == <<row, born, charged, chargeVars, asked, crossed>>
vars == <<goalVars, shaken, acct, call, inTurn, batch, given>>

Goal == [gid : 1..MaxGoals, status : Statuses, budget : Budgets, tokens : Nat]
NoGoal == [gid |-> NoId, status |-> "none", budget |-> 0, tokens |-> 0]

Call == [op : {"none"} \union ToolOps \union CommandOps \union TurnOps, at : Steps,
         next : {"end", "look", "pause"}, seen : Goal \union {NoGoal}, tokens : {0, 1}]
Idle == [op |-> "none", at |-> "idle", next |-> "end", seen |-> NoGoal, tokens |-> 0]

Has(g) == g # NoGoal

Active(g) == g.status = "active"
Over(g) == g.budget > 0 /\ g.tokens >= g.budget

Init ==
  /\ row = NoGoal
  /\ acct = NoId
  /\ call = [t \in Threads |-> Idle]
  /\ inTurn = FALSE
  /\ batch = {}
  /\ given = 0
  /\ born = 0
  /\ charged = 0
  /\ missed = 0
  /\ owed = NoId
  /\ shaken = FALSE
  /\ asked = {}
  /\ crossed = FALSE

(* A call comes to its next step, or returns from the part it is in.         *)
At(t, step) == call[t].at = step
Goes(t, step) == call' = [call EXCEPT ![t].at = step, ![t].seen = NoGoal]
Sees(t, step) == call' = [call EXCEPT ![t].at = step, ![t].seen = row]
Ends(t) == call' = [call EXCEPT ![t] = Idle]
Returns(t) ==
  IF call[t].next = "end" THEN Ends(t)
  ELSE call' = [call EXCEPT ![t].at = call[t].next, ![t].next = "end", ![t].seen = NoGoal]
Starts(t, op, step, next, tokens) ==
  /\ call[t] = Idle
  /\ call' = [call EXCEPT ![t] = [op |-> op, at |-> step, next |-> next,
                                  seen |-> NoGoal, tokens |-> tokens]]

-----------------------------------------------------------------------------
(* account_goal_usage.                                                      *)

Account(t) ==
  /\ At(t, "account")
  /\ Goes(t, IF acct = NoId THEN "restore" ELSE "charge")
  /\ UNCHANGED <<goalVars, acct, inTurn, batch, given>>

(* Only an active goal is charged; update_goal also charges a complete one.  *)
Chargeable(t, g) ==
  /\ Has(g) /\ g.gid = acct
  /\ Active(g) \/ (call[t].op \in ToolOps /\ g.status = "complete")

(* The worker's charge ends without the row being written: what was due to   *)
(* the goal in the row is counted as missed if somebody interfered.          *)
Passes(t) ==
  /\ missed' = IF t = Worker /\ Has(row) /\ row.gid = owed /\ shaken THEN missed + 1 ELSE missed
  /\ owed' = IF t = Worker THEN NoId ELSE owed

(* The first half of account_thread_goal_usage, up to its early returns.     *)
Charge(t) ==
  /\ At(t, "charge")
  /\ \E timePassed \in BOOLEAN :
       IF Chargeable(t, row) /\ (timePassed \/ call[t].tokens > 0)
         THEN Sees(t, "write") /\ UNCHANGED chargeVars
         ELSE Returns(t) /\ Passes(t)
  /\ UNCHANGED <<row, born, charged, asked, crossed, acct, inTurn, batch, given>>

(* Mutant: the budget counts as reached one token late.                      *)
NextStatusLate(g, tokens) ==
  IF Active(g) /\ g.budget > 0 /\ tokens > g.budget THEN "budget_limited" ELSE g.status

NextStatus(g, tokens) ==
  IF Active(g) /\ g.budget > 0 /\ tokens >= g.budget THEN "budget_limited" ELSE g.status

(* Its second half: UPDATE ... WHERE goal_id = ?, with what was read before  *)
(* and with the id accounted for by now.  An answer that came before the     *)
(* goal was active may still be charged to it.                               *)
Write(t) ==
  LET seen == call[t].seen
      tokens == seen.tokens + call[t].tokens
      status == NextStatus(seen, tokens)
      lands == Has(row) /\ row.gid = acct
  IN
  /\ At(t, "write")
  /\ row' = IF lands THEN [row EXCEPT !.tokens = tokens, !.status = status] ELSE row
  /\ charged' = IF lands /\ row.gid # owed THEN charged + call[t].tokens ELSE charged
  /\ IF lands THEN missed' = missed /\ owed' = (IF t = Worker THEN NoId ELSE owed)
              ELSE Passes(t)
  /\ crossed' = (crossed \/ (lands /\ row.gid # seen.gid))
  /\ IF lands \/ status # seen.status THEN Goes(t, "reread") ELSE Returns(t)
  /\ UNCHANGED <<acct, inTurn, batch, given, born, asked>>

(* The goal is read again and published.  A command then restores what the   *)
(* loop accounts for, the others tell the loop themselves.                   *)
Reread(t) ==
  /\ At(t, "reread")
  /\ IF ~Has(row) THEN Returns(t)
     ELSE IF t \in Commands THEN Goes(t, "restore") ELSE Sees(t, "emit")
  /\ UNCHANGED <<goalVars, acct, inTurn, batch, given>>

Emit(t) ==
  LET seen == call[t].seen IN
  /\ At(t, "emit")
  /\ acct' = IF Active(seen) THEN seen.gid ELSE IF seen.gid = acct THEN NoId ELSE acct
  /\ Returns(t)
  /\ UNCHANGED <<goalVars, inTurn, batch, given>>

-----------------------------------------------------------------------------
(* restore_goal_runtime.                                                    *)

Restore(t) ==
  /\ At(t, "restore")
  /\ acct' = NoId
  /\ Goes(t, "select")
  /\ UNCHANGED <<goalVars, inTurn, batch, given>>

Select(t) ==
  /\ At(t, "select")
  /\ Sees(t, "adopt")
  /\ UNCHANGED <<goalVars, acct, inTurn, batch, given>>

Adopt(t) ==
  LET seen == call[t].seen IN
  /\ At(t, "adopt")
  /\ acct' = IF Active(seen) THEN seen.gid ELSE acct
  /\ IF t \in Commands \/ call[t].op = "begin" THEN Ends(t) ELSE Goes(t, "charge")
  /\ UNCHANGED <<goalVars, inTurn, batch, given>>

-----------------------------------------------------------------------------
(* The goal tools, the commands, and a turn that fails or is stopped.        *)

(* What each asks of the goal it reads first.                                *)
Admits(op, g) ==
  \/ op = "create" /\ ~Has(g)
  \/ op = "set"
  \/ op \in {"complete", "blocked", "edit", "clear"} /\ Has(g)
  \/ op \in {"pause", "error"} /\ Active(g)
  \/ op = "resume" /\ Has(g) /\ g.status # "complete" /\ ~Over(g)

Look(t) ==
  /\ At(t, "look")
  /\ IF Admits(call[t].op, row) THEN Sees(t, "apply") ELSE Ends(t)
  /\ UNCHANGED <<goalVars, acct, inTurn, batch, given>>

(* replace_thread_goal: a new id, nothing used.                              *)
Replace(t) ==
  /\ At(t, "apply") /\ call[t].op \in {"create", "set"}
  /\ born < MaxGoals
  /\ \E b \in Budgets :
       row' = [gid |-> born + 1, status |-> "active", budget |-> b, tokens |-> 0]
  /\ born' = born + 1
  /\ charged' = 0 /\ missed' = 0 /\ asked' = {} /\ crossed' = FALSE
  /\ Goes(t, "reread")
  /\ UNCHANGED <<acct, inTurn, batch, given, owed>>

Delete(t) ==
  /\ At(t, "apply") /\ call[t].op = "clear"
  /\ row' = NoGoal
  /\ charged' = 0 /\ missed' = 0 /\ asked' = {} /\ crossed' = FALSE
  /\ Goes(t, "restore")
  /\ UNCHANGED <<acct, inTurn, batch, given, born, owed>>

(* Mutant: the statement names the session only.                             *)
NamesAny(t) == Has(row)

(* WHERE thread_id = ? AND goal_id = ?                                       *)
Names(t) == row.gid = call[t].seen.gid

Target(op) ==
  CASE op = "complete" -> "complete"
    [] op \in {"blocked", "error"} -> "blocked"
    [] op = "pause" -> "paused"
    [] op = "resume" -> "active"

UpdateStatus(t) ==
  LET status == Target(call[t].op)
      made == IF status = "active" THEN "reopened" ELSE status
  IN
  /\ At(t, "apply") /\ call[t].op \in {"complete", "blocked", "error", "pause", "resume"}
  /\ IF Names(t)
     THEN row' = [row EXCEPT !.status = status] /\ Goes(t, "reread")
     ELSE UNCHANGED row /\ Ends(t)
  /\ asked' = IF row.gid = call[t].seen.gid THEN asked \union {made} ELSE asked
  /\ UNCHANGED <<acct, inTurn, batch, given, born, charged, chargeVars, crossed>>

UpdateObjective(t) ==
  /\ At(t, "apply") /\ call[t].op = "edit"
  /\ IF Names(t)
     THEN /\ \E b \in Budgets : row' = [row EXCEPT !.budget = b]
          /\ Goes(t, "reread")
     ELSE UNCHANGED row /\ Ends(t)
  /\ asked' = IF row.gid = call[t].seen.gid THEN asked \union {"reopened"} ELSE asked
  /\ UNCHANGED <<acct, inTurn, batch, given, born, charged, chargeVars, crossed>>

PauseActive(t) ==
  /\ At(t, "pause")
  /\ IF Active(row)
     THEN /\ row' = [row EXCEPT !.status = "paused"]
          /\ asked' = asked \union {"paused"}
          /\ Goes(t, "reread")
     ELSE UNCHANGED <<row, asked>> /\ Ends(t)
  /\ UNCHANGED <<acct, inTurn, batch, given, born, charged, chargeVars, crossed>>

-----------------------------------------------------------------------------
(* The turn.                                                                *)

TurnBegins ==
  /\ ~inTurn
  /\ inTurn' = TRUE
  /\ Starts(Worker, "begin", "restore", "end", 0)
  /\ UNCHANGED <<goalVars, shaken, acct, batch, given>>

(* Mutant: the worker goes on while tools of the batch still run.            *)
BatchDoneAtOnce == inTurn

(* All results of a batch are taken before anything else happens.           *)
BatchDone == inTurn /\ batch = {}

Answer ==
  /\ BatchDone
  /\ charged < MaxTokens
  /\ Starts(Worker, "answer", "account", "end", 1)
  /\ charged' = IF Active(row) THEN charged + 1 ELSE charged
  /\ owed' = IF Active(row) THEN row.gid ELSE NoId
  /\ shaken' = (acct \notin {row.gid, NoId})
  /\ UNCHANGED <<row, born, missed, asked, crossed, acct, inTurn, batch, given>>

RunTools ==
  /\ BatchDone
  /\ call[Worker] = Idle
  /\ \A u \in Tools : call[u] = Idle
  /\ \E ops \in [Tools -> ToolOps] :
       call' = [t \in Threads |->
                  IF t \notin Tools \/ ops[t] = "get" THEN call[t]
                  ELSE [Idle EXCEPT !.op = ops[t],
                                    !.at = IF ops[t] = "create" THEN "look" ELSE "account",
                                    !.next = IF ops[t] = "create" THEN "end" ELSE "look"]]
  /\ batch' = Tools
  /\ UNCHANGED <<goalVars, shaken, acct, inTurn, given>>

(* The result of a goal tool that has returned, or, while one still runs, of *)
(* another read-only call of the batch: usage is accounted after each.       *)
Harvest ==
  /\ \/ \E u \in batch : call[u] = Idle /\ batch' = batch \ {u}
     \/ batch # {} /\ batch' = batch
  /\ Starts(Worker, "harvest", "account", "end", 0)
  /\ UNCHANGED <<goalVars, shaken, acct, inTurn, given>>

(* The provider failed for good; the end of the turn follows.                *)
TurnError ==
  /\ BatchDone
  /\ Active(row)
  /\ Starts(Worker, "error", "account", "look", 0)
  /\ UNCHANGED <<goalVars, shaken, acct, inTurn, batch, given>>

(* The turn ends: it is over (or was interrupted for another), or stopped.   *)
TurnEnds ==
  /\ BatchDone
  /\ inTurn' = FALSE
  /\ \/ Starts(Worker, "finish", "account", "end", 0)
     \/ Starts(Worker, "abort", "account", "pause", 0)
  /\ UNCHANGED <<goalVars, shaken, acct, batch, given>>

GoalCommand(c) ==
  /\ given < MaxCommands
  /\ given' = given + 1
  /\ \E op \in CommandOps : Starts(c, op, "look", "end", 0)
  /\ UNCHANGED <<goalVars, shaken, acct, inTurn, batch>>

Step(t) ==
  \/ Account(t) \/ Charge(t) \/ Write(t) \/ Reread(t) \/ Emit(t)
  \/ Restore(t) \/ Select(t) \/ Adopt(t)
  \/ Look(t) \/ Replace(t) \/ Delete(t) \/ UpdateStatus(t) \/ UpdateObjective(t)
  \/ PauseActive(t)

(* What keeps a charge from its goal: the loop is made to account for none   *)
(* or for another, or the goal is stopped or replaced.                       *)
Interferes ==
  \/ acct' # acct /\ acct' # row.gid
  \/ row'.gid # row.gid \/ row'.status # row.status

Notes(t) == shaken' = (shaken \/ (t # Worker /\ Interferes))

Next ==
  \/ \E t \in Threads : Step(t) /\ Notes(t)
  \/ TurnBegins \/ Answer \/ RunTools \/ Harvest \/ TurnError \/ TurnEnds
  \/ \E c \in Commands : GoalCommand(c)

Spec == Init /\ [][Next]_vars

-----------------------------------------------------------------------------
(* Properties.                                                              *)

(* Every variable has its type (the session's row, the loop's accounting id, *)
(* the calls in progress).                                                   *)
TypeOK ==
  /\ row \in Goal \union {NoGoal}
  /\ acct \in 0..MaxGoals
  /\ call \in [Threads -> Call]
  /\ inTurn \in BOOLEAN
  /\ batch \subseteq Tools
  /\ given \in 0..MaxCommands
  /\ born \in 0..MaxGoals
  /\ charged \in Nat /\ missed \in Nat
  /\ owed \in 0..MaxGoals
  /\ shaken \in BOOLEAN
  /\ asked \subseteq {"complete", "blocked", "paused", "reopened"}
  /\ crossed \in BOOLEAN

Unsettled == IF Has(row) /\ row.gid = owed THEN 1 ELSE 0

(* Every answer is charged to its goal once: though account_goal_usage looks *)
(* at the id, the row and the id again, and tools and commands do the same   *)
(* beside the worker, the goal has used what it was to be charged.  A charge *)
(* is missed only when, by the answer, the loop accounted for another goal,  *)
(* or when, between the answer and the UPDATE, another thread made it account *)
(* for another or for none, or stopped or replaced the goal.                 *)
(* Excepted is a goal that was given the usage of another.                   *)
UsageExact == Has(row) /\ ~crossed => row.tokens + missed + Unsettled = charged

(* A goal stops at its budget, not before and not after: until the user      *)
(* resumes or edits it, it is active only below the budget, and              *)
(* budget_limited only at or above.                                          *)
BudgetStops ==
  row.budget > 0 /\ ~crossed /\ "reopened" \notin asked =>
    /\ Active(row) => ~Over(row)
    /\ row.status = "budget_limited" => Over(row)

(* What a tool, a command or a failing turn decided of the goal it read does *)
(* not happen to the goal that replaced it meanwhile.                        *)
StatusIsItsOwn ==
  Has(row) /\ ~crossed => row.status \in {"active", "budget_limited"} \union asked

=============================================================================
