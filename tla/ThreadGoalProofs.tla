--------------------------- MODULE ThreadGoalProofs ---------------------------
(***************************************************************************)
(* Proofs about ThreadGoal: types, and that usage, budget and status of the  *)
(* row are those of its goal although nothing is locked between a read and   *)
(* the write that follows it.                                                *)
(***************************************************************************)
EXTENDS ThreadGoal, TLAPS

Goals == Goal \union {NoGoal}
Ops == {"none"} \union ToolOps \union CommandOps \union TurnOps

LEMMA IdleType == Idle \in Call /\ NoGoal \in Goals
BY GoalAssumption DEF Idle, NoGoal, NoId, Call, Steps, Goals, Goal

(* The ways a call moves on keep its type.                                   *)
LEMMA MoveType ==
  ASSUME call \in [Threads -> Call], row \in Goals, NEW t \in Threads,
         NEW step \in Steps,
         Goes(t, step) \/ Sees(t, step) \/ Ends(t) \/ Returns(t)
  PROVE  call' \in [Threads -> Call]
<1>1. call[t] \in Call
  OBVIOUS
<1>2. NoGoal \in Goals
  BY IdleType
<1>3. [call[t] EXCEPT !.at = step, !.seen = NoGoal] \in Call
  BY <1>1, <1>2 DEF Call, Goals
<1>4. [call[t] EXCEPT !.at = step, !.seen = row] \in Call
  BY <1>1 DEF Call, Goals
<1>5. Goes(t, step) => call' \in [Threads -> Call]
  BY <1>3 DEF Goes
<1>6. Sees(t, step) => call' \in [Threads -> Call]
  BY <1>4 DEF Sees
<1>7. Ends(t) => call' \in [Threads -> Call]
  BY IdleType DEF Ends
<1>8. ASSUME call[t].next # "end"
      PROVE  [call[t] EXCEPT !.at = call[t].next, !.next = "end", !.seen = NoGoal] \in Call
  <2>1. call[t].next \in {"look", "pause"}
    BY <1>1, <1>8 DEF Call
  <2>2. call[t].next \in Steps
    BY <2>1 DEF Steps
  <2> QED BY <1>1, <1>2, <2>2 DEF Call, Goals
<1>9. Returns(t) => call' \in [Threads -> Call]
  BY <1>7, <1>8 DEF Returns
<1> QED BY <1>5, <1>6, <1>7, <1>9

(* The start of a call has its type.                                         *)
LEMMA StartType ==
  ASSUME call \in [Threads -> Call], NEW t \in Threads, NEW op \in Ops, NEW step \in Steps,
         NEW next \in {"end", "look", "pause"}, NEW tokens \in {0, 1},
         Starts(t, op, step, next, tokens)
  PROVE  call' \in [Threads -> Call]
<1>1. [op |-> op, at |-> step, next |-> next, seen |-> NoGoal, tokens |-> tokens] \in Call
  BY IdleType DEF Call, Goals, Ops
<1> QED BY <1>1 DEF Starts

(* A statement that acts on a goal was preceded by one that found a goal.    *)
Found(t) ==
  /\ At(t, "write") => Has(call[t].seen) /\ call[t].seen.status \in {"active", "complete"}
  /\ At(t, "apply") /\ call[t].op \notin {"create", "set"} => Has(call[t].seen)

(* Every variable keeps its type through the steps of a call.                *)
LEMMA TypeOKStep ==
  ASSUME TypeOK, NEW t \in Threads, Found(t), Step(t), Notes(t)
  PROVE  TypeOK'
<1> USE DEF TypeOK
<1>0. row \in Goals /\ call[t] \in Call /\ call[t].seen \in Goals /\ call[t].tokens \in {0, 1}
  BY DEF Goals, Call
<1>s. shaken' \in BOOLEAN
  BY DEF Notes
<1>p. Passes(t) => missed' \in Nat /\ owed' \in 0..MaxGoals
  BY GoalAssumption DEF Passes, NoId
<1>1. CASE Account(t)
  <2>1. call' \in [Threads -> Call]
    BY <1>0, <1>1, MoveType DEF Account, Steps
  <2> QED BY <1>s, <1>1, <2>1 DEF Account, goalVars, chargeVars
<1>2. CASE Charge(t)
  <2>1. call' \in [Threads -> Call]
    BY <1>0, <1>2, MoveType DEF Charge, Steps
  <2>2. missed' \in Nat /\ owed' \in 0..MaxGoals
    BY <1>2, <1>p DEF Charge, chargeVars
  <2> QED BY <1>s, <1>2, <2>1, <2>2 DEF Charge
<1>3. CASE Write(t)
  <2> DEFINE tokens == call[t].seen.tokens + call[t].tokens
             status == NextStatus(call[t].seen, tokens)
  <2>1. call' \in [Threads -> Call]
    BY <1>0, <1>3, MoveType DEF Write, Steps
  <2>2. tokens \in Nat /\ charged + call[t].tokens \in Nat
    BY <1>0 DEF Goals, Goal, NoGoal
  <2>3. status \in Statuses
    BY <1>3 DEF Write, Found, NextStatus, Statuses
  <2>4. row' = row \/ (row \in Goal /\ row' = [row EXCEPT !.tokens = tokens, !.status = status])
    BY <1>3, <1>0 DEF Write, Has, Goals
  <2>5. row' \in Goals
    BY <1>0, <2>2, <2>3, <2>4 DEF Goals, Goal
  <2>6. charged' \in Nat /\ crossed' \in BOOLEAN
    BY <1>0, <1>3, <2>2 DEF Write
  <2>7. missed' \in Nat /\ owed' \in 0..MaxGoals
    BY <1>3, <1>p, GoalAssumption DEF Write, NoId
  <2> QED BY <1>s, <1>3, <2>1, <2>5, <2>6, <2>7 DEF Write, Goals
<1>4. CASE Reread(t)
  <2>1. call' \in [Threads -> Call]
    BY <1>0, <1>4, MoveType DEF Reread, Steps
  <2> QED BY <1>s, <1>4, <2>1 DEF Reread, goalVars, chargeVars
<1>5. CASE Emit(t)
  <2>1. call' \in [Threads -> Call]
    BY <1>0, <1>5, MoveType DEF Emit, Steps
  <2>2. call[t].seen.gid \in 0..MaxGoals
    BY <1>0, GoalAssumption DEF Goals, Goal, NoGoal, NoId
  <2> QED BY <1>s, <1>5, <2>1, <2>2, GoalAssumption DEF Emit, goalVars, chargeVars, NoId
<1>6. CASE Restore(t)
  <2>1. call' \in [Threads -> Call]
    BY <1>0, <1>6, MoveType DEF Restore, Steps
  <2> QED BY <1>s, <1>6, <2>1, GoalAssumption DEF Restore, goalVars, chargeVars, NoId
<1>14. CASE Select(t)
  <2>1. call' \in [Threads -> Call]
    BY <1>0, <1>14, MoveType DEF Select, Steps
  <2> QED BY <1>s, <1>14, <2>1 DEF Select, goalVars, chargeVars
<1>7. CASE Adopt(t)
  <2>1. call' \in [Threads -> Call]
    BY <1>0, <1>7, MoveType DEF Adopt, Steps
  <2>2. call[t].seen.gid \in 0..MaxGoals
    BY <1>0, GoalAssumption DEF Goals, Goal, NoGoal, NoId
  <2> QED BY <1>s, <1>7, <2>1, <2>2 DEF Adopt, goalVars, chargeVars
<1>8. CASE Look(t)
  <2>1. call' \in [Threads -> Call]
    BY <1>0, <1>8, MoveType DEF Look, Steps
  <2> QED BY <1>s, <1>8, <2>1 DEF Look, goalVars, chargeVars
<1>9. CASE Replace(t)
  <2>1. call' \in [Threads -> Call]
    BY <1>0, <1>9, MoveType DEF Replace, Steps
  <2>2. born' \in 1..MaxGoals
    BY <1>9, GoalAssumption DEF Replace
  <2>3. row' \in Goal
    BY <1>9, <2>2 DEF Replace, Goal, Statuses
  <2>4. charged' \in Nat /\ asked' = {} /\ crossed' \in BOOLEAN
    BY <1>9 DEF Replace
  <2>5. UNCHANGED <<acct, inTurn, batch, given>>
    BY <1>9 DEF Replace
  <2>6. born' \in 0..MaxGoals
    BY <2>2, GoalAssumption
  <2>7. missed' = 0 /\ owed' = owed
    BY <1>9 DEF Replace
  <2> QED BY <1>s, <2>1, <2>3, <2>4, <2>5, <2>6, <2>7
<1>10. CASE Delete(t)
  <2>1. call' \in [Threads -> Call]
    BY <1>0, <1>10, MoveType DEF Delete, Steps
  <2> QED BY <1>s, <1>10, <2>1 DEF Delete, chargeVars
<1>11. CASE UpdateStatus(t)
  <2> DEFINE status == Target(call[t].op)
  <2>1. call' \in [Threads -> Call]
    BY <1>0, <1>11, MoveType DEF UpdateStatus, Steps
  <2>2. status \in {"complete", "blocked", "paused", "active"}
    BY <1>11 DEF UpdateStatus, Target
  <2>3. row.gid = call[t].seen.gid => row \in Goal
    BY <1>0, <1>11, GoalAssumption DEF UpdateStatus, Found, Has, Goals, Goal, NoGoal, NoId
  <2>4. row' \in Goals
    BY <1>0, <1>11, <2>2, <2>3 DEF UpdateStatus, Names, Goals, Goal, Statuses
  <2>5. asked' \subseteq {"complete", "blocked", "paused", "reopened"}
    BY <1>11, <2>2 DEF UpdateStatus
  <2> QED BY <1>s, <1>11, <2>1, <2>4, <2>5 DEF UpdateStatus, chargeVars, Goals
<1>12. CASE UpdateObjective(t)
  <2>1. call' \in [Threads -> Call]
    BY <1>0, <1>12, MoveType DEF UpdateObjective, Steps
  <2>2. row.gid = call[t].seen.gid => row \in Goal
    BY <1>0, <1>12, GoalAssumption DEF UpdateObjective, Found, Has, Goals, Goal, NoGoal, NoId
  <2>3. row' \in Goals
    BY <1>0, <1>12, <2>2 DEF UpdateObjective, Names, Goals, Goal
  <2>4. asked' \subseteq {"complete", "blocked", "paused", "reopened"}
    BY <1>12 DEF UpdateObjective
  <2> QED BY <1>s, <1>12, <2>1, <2>3, <2>4 DEF UpdateObjective, chargeVars, Goals
<1>13. CASE PauseActive(t)
  <2>1. call' \in [Threads -> Call]
    BY <1>0, <1>13, MoveType DEF PauseActive, Steps
  <2>2. Active(row) => row \in Goal
    BY <1>0 DEF Active, Goals, NoGoal
  <2>3. row' \in Goals
    BY <1>0, <1>13, <2>2 DEF PauseActive, Goals, Goal, Statuses
  <2>4. asked' \subseteq {"complete", "blocked", "paused", "reopened"}
    BY <1>13 DEF PauseActive
  <2> QED BY <1>s, <1>13, <2>1, <2>3, <2>4 DEF PauseActive, chargeVars, Goals
<1> QED
  BY <1>1, <1>2, <1>3, <1>4, <1>5, <1>6, <1>7, <1>8, <1>9, <1>10, <1>11, <1>12, <1>13,
       <1>14 DEF Step

(* Every variable keeps its type when a call starts.                         *)
LEMMA TypeOKTurn ==
  ASSUME TypeOK,
         \/ TurnBegins \/ Answer \/ RunTools \/ Harvest \/ TurnError \/ TurnEnds
         \/ \E c \in Commands : GoalCommand(c)
  PROVE  TypeOK'
<1> USE DEF TypeOK
<1>0. Worker \in Threads /\ Commands \subseteq Threads /\ Tools \subseteq Threads
  BY DEF Threads
<1>1. CASE TurnBegins
  <2>1. call' \in [Threads -> Call]
    BY <1>0, <1>1, StartType DEF TurnBegins, Ops, TurnOps, Steps
  <2> QED BY <1>1, <2>1 DEF TurnBegins, goalVars, chargeVars
<1>2. CASE Answer
  <2>1. call' \in [Threads -> Call]
    BY <1>0, <1>2, StartType DEF Answer, Ops, TurnOps, Steps
  <2>2. row.gid \in 0..MaxGoals
    BY GoalAssumption DEF Goal, NoGoal, NoId
  <2>3. charged' \in Nat /\ owed' \in 0..MaxGoals /\ shaken' \in BOOLEAN
    BY <1>2, <2>2, GoalAssumption DEF Answer, NoId
  <2> QED BY <1>2, <2>1, <2>3 DEF Answer
<1>3. CASE RunTools
  <2>1. PICK ops \in [Tools -> ToolOps] :
          call' = [t \in Threads |->
                     IF t \notin Tools \/ ops[t] = "get" THEN call[t]
                     ELSE [Idle EXCEPT !.op = ops[t],
                                       !.at = IF ops[t] = "create" THEN "look" ELSE "account",
                                       !.next = IF ops[t] = "create" THEN "end" ELSE "look"]]
    BY <1>3 DEF RunTools
  <2>2. ASSUME NEW t \in Threads PROVE call'[t] \in Call
    <3>1. CASE t \notin Tools \/ ops[t] = "get"
      BY <2>1, <3>1
    <3>2. CASE ~(t \notin Tools \/ ops[t] = "get")
      <4>1. ops[t] \in Ops
        BY <3>2 DEF Ops
      <4> QED BY <2>1, <3>2, <4>1, IdleType DEF Call, Ops, Steps
    <3> QED BY <3>1, <3>2
  <2>3. call' \in [Threads -> Call]
    BY <2>1, <2>2
  <2> QED BY <1>3, <2>3 DEF RunTools, goalVars, chargeVars
<1>4. CASE Harvest
  <2>1. call' \in [Threads -> Call]
    BY <1>0, <1>4, StartType DEF Harvest, Ops, TurnOps, Steps
  <2> QED BY <1>4, <2>1 DEF Harvest, goalVars, chargeVars
<1>5. CASE TurnError
  <2>1. call' \in [Threads -> Call]
    BY <1>0, <1>5, StartType DEF TurnError, Ops, TurnOps, Steps
  <2> QED BY <1>5, <2>1 DEF TurnError, goalVars, chargeVars
<1>6. CASE TurnEnds
  <2>1. call' \in [Threads -> Call]
    BY <1>0, <1>6, StartType DEF TurnEnds, Ops, TurnOps, Steps
  <2> QED BY <1>6, <2>1 DEF TurnEnds, goalVars, chargeVars
<1>7. ASSUME NEW c \in Commands, GoalCommand(c) PROVE TypeOK'
  <2>1. call' \in [Threads -> Call]
    BY <1>0, <1>7, StartType DEF GoalCommand, Ops, CommandOps, Steps
  <2> QED BY <1>7, <2>1, GoalAssumption DEF GoalCommand, goalVars, chargeVars
<1> QED BY <1>1, <1>2, <1>3, <1>4, <1>5, <1>6, <1>7

-----------------------------------------------------------------------------
(* The inductive invariant.                                                  *)

(* A step moves its own call only, which keeps what it is about.             *)
LEMMA StepFrame ==
  ASSUME TypeOK, NEW t \in Threads, Step(t)
  PROVE  /\ \A u \in Threads \ {t} : call'[u] = call[u]
         /\ \/ call'[t] = Idle
            \/ /\ call'[t].op = call[t].op /\ call'[t].tokens = call[t].tokens
               /\ call'[t].next \in {call[t].next, "end"}
         /\ call[t].at # "idle"
         /\ UNCHANGED <<inTurn, batch, given>>
<1>0. call[t] \in Call /\ call \in [Threads -> Call]
  BY DEF TypeOK
<1>1. ASSUME NEW step \in Steps, Goes(t, step) \/ Sees(t, step) \/ Ends(t) \/ Returns(t)
      PROVE  /\ \A u \in Threads \ {t} : call'[u] = call[u]
             /\ \/ call'[t] = Idle
                \/ /\ call'[t].op = call[t].op /\ call'[t].tokens = call[t].tokens
                   /\ call'[t].next \in {call[t].next, "end"}
  BY <1>0, <1>1 DEF Goes, Sees, Ends, Returns, Call
<1>2. \E step \in Steps : Goes(t, step) \/ Sees(t, step) \/ Ends(t) \/ Returns(t)
  BY DEF Step, Steps, Account, Charge, Write, Reread, Emit, Restore, Select, Adopt, Look,
       Replace,
         Delete, UpdateStatus, UpdateObjective, PauseActive
<1>3. call[t].at # "idle" /\ UNCHANGED <<inTurn, batch, given>>
  BY DEF Step, At, Account, Charge, Write, Reread, Emit, Restore, Select, Adopt, Look, Replace,
         Delete, UpdateStatus, UpdateObjective, PauseActive
<1> QED BY <1>1, <1>2, <1>3

(* Who may be in account_goal_usage: the worker, and the goal tools whose    *)
(* result was not taken yet.  Tokens are charged when there are none.        *)
Accounting == {"account", "charge", "write", "emit"}
Turns ==
  /\ \A t \in Threads : call[t].tokens = 1 => t = Worker /\ batch = {}
  /\ \A u \in Tools \ batch : call[u] = Idle
  /\ \A c \in Commands : call[c].at \notin Accounting /\ call[c].next = "end"

LEMMA TurnsStep ==
  ASSUME TypeOK, Turns, NEW t \in Threads, Step(t)
  PROVE  Turns'
<1>0. call[t] \in Call /\ call \in [Threads -> Call]
  BY DEF TypeOK
<1>1. \A u \in Threads : call'[u].tokens = 1 => u = Worker /\ batch' = {}
  BY StepFrame DEF Turns, Idle
<1>2. \A u \in Tools \ batch' : call'[u] = Idle
  BY StepFrame DEF Turns, Idle, Threads
<1>3. ASSUME NEW c \in Commands
      PROVE  call'[c].at \notin Accounting /\ call'[c].next = "end"
  <2>1. CASE c # t
    BY <2>1, StepFrame DEF Turns, Threads
  <2>2. CASE c = t
    <3>1. call'[c].next = "end"
      BY <2>2, StepFrame DEF Turns, Idle
    <3>2. call'[c].at \notin Accounting
      <4>1. call[c].next = "end" /\ call[c].at \notin Accounting /\ c \in Threads
        BY DEF Turns, Threads
      <4>2. \E step \in {"restore", "select", "adopt", "apply", "reread"} :
              Goes(c, step) \/ Sees(c, step) \/ Ends(c)
        BY <2>2, <4>1 DEF Accounting, Step, At, Returns, Account, Charge, Write, Reread, Emit,
             Restore, Select, Adopt, Look, Replace, Delete, UpdateStatus, UpdateObjective, PauseActive
      <4>3. PICK step \in {"restore", "select", "adopt", "apply", "reread"} :
              Goes(c, step) \/ Sees(c, step) \/ Ends(c)
        BY <4>2
      <4>4. call'[c].at \in {step, "idle"}
        BY <1>0, <2>2, <4>3 DEF Call, Goes, Sees, Ends, Idle
      <4> QED BY <4>4 DEF Accounting
    <3> QED BY <3>1, <3>2
  <2> QED BY <2>1, <2>2
<1> QED BY <1>1, <1>2, <1>3 DEF Turns

(* How a call starts: nothing seen yet, and tokens only for an answer.       *)
TurnStarts ==
  \/ TurnBegins \/ Answer \/ RunTools \/ Harvest \/ TurnError \/ TurnEnds
  \/ \E c \in Commands : GoalCommand(c)

Fresh(t) == call'[t].seen = NoGoal /\ call'[t].at \notin {"write", "apply"}

LEMMA StartFrame ==
  ASSUME TypeOK, TurnStarts, NEW t \in Threads
  PROVE  call'[t] = call[t] \/ Fresh(t)
<1>0. call \in [Threads -> Call]
  BY DEF TypeOK
<1>1. ASSUME NEW u \in Threads, NEW op, NEW step \in {"restore", "account", "look"}, NEW next,
             NEW tokens, Starts(u, op, step, next, tokens)
      PROVE  call'[t] = call[t] \/ Fresh(t)
  <2>1. CASE t = u
    BY <1>0, <1>1, <2>1 DEF Starts, Fresh
  <2>2. CASE t # u
    BY <1>0, <1>1, <2>2 DEF Starts
  <2> QED BY <2>1, <2>2
<1>2. CASE RunTools
  <2>1. PICK ops \in [Tools -> ToolOps] :
          call' = [u \in Threads |->
                     IF u \notin Tools \/ ops[u] = "get" THEN call[u]
                     ELSE [Idle EXCEPT !.op = ops[u],
                                       !.at = IF ops[u] = "create" THEN "look" ELSE "account",
                                       !.next = IF ops[u] = "create" THEN "end" ELSE "look"]]
    BY <1>2 DEF RunTools
  <2> QED BY <2>1 DEF Idle, Fresh
<1>3. Worker \in Threads /\ Commands \subseteq Threads
  BY DEF Threads
<1>4. CASE TurnBegins
  BY <1>1, <1>3, <1>4 DEF TurnBegins
<1>5. CASE Answer
  BY <1>1, <1>3, <1>5 DEF Answer
<1>6. CASE Harvest
  BY <1>1, <1>3, <1>6 DEF Harvest
<1>7. CASE TurnError
  BY <1>1, <1>3, <1>7 DEF TurnError
<1>8. CASE TurnEnds
  BY <1>1, <1>3, <1>8 DEF TurnEnds
<1>9. ASSUME NEW c \in Commands, GoalCommand(c) PROVE call'[t] = call[t] \/ Fresh(t)
  BY <1>1, <1>3, <1>9 DEF GoalCommand
<1> QED BY <1>2, <1>4, <1>5, <1>6, <1>7, <1>8, <1>9 DEF TurnStarts

LEMMA TurnsStarts ==
  ASSUME TypeOK, Turns, TurnStarts
  PROVE  Turns'
<1> USE GoalAssumption DEF TypeOK
<1>0. Worker \in Threads /\ Commands \subseteq Threads /\ Tools \subseteq Threads
  BY DEF Threads
<1>1. ASSUME NEW op, NEW step, NEW next, NEW tokens \in {0, 1},
             Starts(Worker, op, step, next, tokens), tokens = 1 => batch = {},
             batch' \subseteq batch,
             \A u \in batch \ batch' : call[u] = Idle
      PROVE  Turns'
  BY <1>0, <1>1 DEF Turns, Starts, Threads
<1>2. CASE TurnBegins
  BY <1>1, <1>2 DEF TurnBegins
<1>3. CASE Answer
  BY <1>1, <1>3 DEF Answer, BatchDone
<1>4. CASE RunTools
  <2>1. PICK ops \in [Tools -> ToolOps] :
          call' = [u \in Threads |->
                     IF u \notin Tools \/ ops[u] = "get" THEN call[u]
                     ELSE [Idle EXCEPT !.op = ops[u],
                                       !.at = IF ops[u] = "create" THEN "look" ELSE "account",
                                       !.next = IF ops[u] = "create" THEN "end" ELSE "look"]]
    BY <1>4 DEF RunTools
  <2>2. batch' = Tools /\ call[Worker] = Idle
    BY <1>4 DEF RunTools
  <2>3. ASSUME NEW u \in Threads, call'[u].tokens = 1 PROVE call[u].tokens = 1
    <3>1. CASE u \notin Tools \/ ops[u] = "get"
      BY <2>1, <2>3, <3>1
    <3>2. CASE ~(u \notin Tools \/ ops[u] = "get")
      <4>1. call'[u].tokens = 0
        BY <2>1, <3>2 DEF Idle
      <4> QED BY <2>3, <4>1
    <3> QED BY <3>1, <3>2
  <2>4. \A u \in Threads : call'[u].tokens # 1
    BY <2>2, <2>3 DEF Turns, Idle
  <2>5. \A c \in Commands : call'[c] = call[c]
    BY <1>0, <2>1
  <2> QED BY <2>2, <2>4, <2>5 DEF Turns
<1>5. CASE Harvest
  BY <1>1, <1>5 DEF Harvest
<1>6. CASE TurnError
  BY <1>1, <1>6 DEF TurnError
<1>7. CASE TurnEnds
  BY <1>1, <1>7 DEF TurnEnds
<1>8. ASSUME NEW c \in Commands, GoalCommand(c) PROVE Turns'
  BY <1>0, <1>8 DEF GoalCommand, Turns, Starts, Threads, Accounting
<1> QED BY <1>2, <1>3, <1>4, <1>5, <1>6, <1>7, <1>8 DEF TurnStarts

(* Goal ids are new: what a call has seen of an earlier goal never names the *)
(* goal that replaced it.                                                    *)
Given == row.gid <= born /\ owed <= born /\ \A t \in Threads : call[t].seen.gid <= born

(* Between the SELECT and the UPDATE nothing the UPDATE relies on changes.   *)
Steady(t) ==
  (At(t, "write") /\ Has(row) /\ call[t].seen.gid = row.gid /\ ~crossed) =>
    /\ call[t].seen.tokens = row.tokens
    /\ call[t].seen.status \in {"active"} \union asked
    /\ "reopened" \notin asked => call[t].seen.budget = row.budget

(* The answer being charged: unless somebody interfered, its goal is active, *)
(* and the loop will account for this goal when it comes to the statement.   *)
Charging == {"account", "restore", "select", "adopt", "charge", "write"}
Owing ==
  owed # NoId =>
    /\ call[Worker].op = "answer" /\ call[Worker].tokens = 1 /\ call[Worker].at \in Charging
    /\ ~shaken =>
         /\ row.gid = owed /\ Active(row)
         /\ At(Worker, "account") => acct \in {owed, NoId}
         /\ At(Worker, "adopt") => call[Worker].seen.gid = owed /\ Active(call[Worker].seen)
         /\ At(Worker, "charge") \/ At(Worker, "write") => acct = owed

Inv ==
  /\ TypeOK
  /\ Turns
  /\ Given
  /\ Owing
  /\ \A t \in Threads : Found(t) /\ Steady(t)
  /\ UsageExact
  /\ BudgetStops
  /\ StatusIsItsOwn

(* Nothing has happened yet.                                                 *)
LEMMA InvInit == Init => Inv
<1> SUFFICES ASSUME Init PROVE Inv
  OBVIOUS
<1>1. TypeOK
  <2>1. call \in [Threads -> Call]
    BY IdleType DEF Init
  <2>2. acct \in 0..MaxGoals /\ given \in 0..MaxCommands /\ born \in 0..MaxGoals
    BY GoalAssumption DEF Init, NoId
  <2> QED BY <2>1, <2>2 DEF Init, TypeOK
<1>2. Turns /\ Given
  BY GoalAssumption DEF Init, Turns, Given, Idle, NoGoal, NoId, Threads, Accounting
<1>3. \A t \in Threads : Found(t) /\ Steady(t)
  BY DEF Init, Found, Steady, At, Idle
<1>4. UsageExact /\ BudgetStops /\ StatusIsItsOwn /\ Owing
  BY DEF Init, Owing, UsageExact, BudgetStops, StatusIsItsOwn, Has, NoGoal
<1> QED BY <1>1, <1>2, <1>3, <1>4 DEF Inv

(* A call that starts leaves the answer being charged alone: none is, when   *)
(* the worker starts one.                                                    *)
LEMMA OwingStarts ==
  ASSUME Inv, TurnStarts
  PROVE  /\ Owing'
         /\ \/ UNCHANGED <<charged, chargeVars>>
            \/ /\ Answer /\ missed' = missed /\ (Has(row) => row.gid # owed)
               /\ owed' = IF Active(row) THEN row.gid ELSE NoId
               /\ charged' = IF Active(row) THEN charged + 1 ELSE charged
<1>0. TypeOK /\ Owing /\ Worker \in Threads /\ Worker \notin Tools \union Commands
  BY GoalAssumption DEF Inv, Threads
<1>1. call[Worker] = Idle => owed = NoId
  BY <1>0 DEF Owing, Idle
<1>2. Has(row) => row.gid # NoId
  BY <1>0, GoalAssumption DEF TypeOK, Has, Goal, NoId
<1>3. CASE Answer
  <2>1. call[Worker] = Idle /\ call' = [call EXCEPT ![Worker] =
          [op |-> "answer", at |-> "account", next |-> "end", seen |-> NoGoal, tokens |-> 1]]
    BY <1>3 DEF Answer, Starts
  <2>2. call'[Worker].op = "answer" /\ call'[Worker].tokens = 1 /\ call'[Worker].at = "account"
    BY <1>0, <2>1 DEF TypeOK
  <2>3. row' = row /\ acct' = acct /\ shaken' = (acct \notin {row.gid, NoId})
        /\ owed' = IF Active(row) THEN row.gid ELSE NoId
    BY <1>3 DEF Answer
  <2>4. Owing'
    BY <2>2, <2>3 DEF Owing, Charging, At, Active
  <2> QED BY <1>1, <1>2, <1>3, <2>1, <2>4 DEF Answer
<1>4. CASE ~Answer
  <2>1. UNCHANGED <<row, acct, shaken, charged, chargeVars>>
    BY <1>4 DEF TurnStarts, TurnBegins, RunTools, Harvest, TurnError, TurnEnds, GoalCommand,
         goalVars
  <2>2. CASE call'[Worker] = call[Worker]
    <3>1. Owing'
      BY <1>0, <2>1, <2>2 DEF Owing, At, chargeVars
    <3> QED BY <2>1, <3>1
  <2>3. CASE owed = NoId
    <3>1. Owing'
      BY <2>1, <2>3 DEF Owing, chargeVars
    <3> QED BY <2>1, <3>1
  <2>4. owed = NoId \/ call'[Worker] = call[Worker]
    <3>1. CASE TurnBegins \/ Harvest \/ TurnError \/ TurnEnds
      BY <1>1, <3>1 DEF TurnBegins, Harvest, TurnError, TurnEnds, Starts
    <3>2. CASE RunTools
      BY <1>1, <3>2 DEF RunTools
    <3>3. ASSUME NEW c \in Commands, GoalCommand(c) PROVE call'[Worker] = call[Worker]
      BY <1>0, <3>3 DEF GoalCommand, Starts, TypeOK
    <3> QED BY <1>4, <3>1, <3>2, <3>3 DEF TurnStarts
  <2> QED BY <2>2, <2>3, <2>4
<1> QED BY <1>3, <1>4

(* The start of a call changes neither the row nor a call that has read it.  *)
LEMMA InvStarts == ASSUME Inv, TurnStarts PROVE Inv'
<1>1. TypeOK /\ Turns
  BY DEF Inv
<1>2. TypeOK'
  BY <1>1, TypeOKTurn DEF TurnStarts
<1>3. Turns'
  BY <1>1, TurnsStarts
<1>4. UNCHANGED <<row, born, asked, crossed>>
  BY DEF TurnStarts, TurnBegins, Answer, RunTools, Harvest, TurnError, TurnEnds, GoalCommand,
       goalVars
<1>5. \A t \in Threads : call'[t] = call[t] \/ Fresh(t)
  BY <1>1, StartFrame
<1>o. /\ Owing'
      /\ \/ UNCHANGED <<charged, chargeVars>>
         \/ /\ Answer /\ missed' = missed /\ (Has(row) => row.gid # owed)
            /\ owed' = IF Active(row) THEN row.gid ELSE NoId
            /\ charged' = IF Active(row) THEN charged + 1 ELSE charged
  BY OwingStarts
<1>6. Given'
  <2>1. owed' <= born
    BY <1>1, <1>o, GoalAssumption DEF Inv, Given, TypeOK, chargeVars, NoId
  <2> QED BY <1>1, <1>4, <1>5, <2>1 DEF Inv, Given, Fresh, NoGoal, NoId, TypeOK
<1>7. ASSUME NEW t \in Threads PROVE (Found(t) /\ Steady(t))'
  BY <1>4, <1>5 DEF Inv, Found, Steady, Fresh, At
<1>8. (BudgetStops /\ StatusIsItsOwn)'
  BY <1>4 DEF Inv, BudgetStops, StatusIsItsOwn, Has, Active, Over
<1>9. UsageExact'
  <2>1. CASE UNCHANGED <<charged, chargeVars>>
    BY <1>4, <2>1 DEF Inv, UsageExact, Unsettled, chargeVars, Has
  <2>2. CASE /\ missed' = missed /\ (Has(row) => row.gid # owed)
             /\ owed' = IF Active(row) THEN row.gid ELSE NoId
             /\ charged' = IF Active(row) THEN charged + 1 ELSE charged
    <3>1. Has(row) => row.gid # NoId /\ row.tokens \in Nat
      BY <1>1, GoalAssumption DEF TypeOK, Has, Goal, NoId
    <3> QED BY <1>1, <1>4, <2>2, <3>1 DEF Inv, UsageExact, Unsettled, Has, TypeOK
  <2> QED BY <1>o, <2>1, <2>2
<1> QED BY <1>2, <1>3, <1>6, <1>7, <1>8, <1>9, <1>o DEF Inv

(* A call that has written, or has nothing to write, is at neither place.    *)
LEMMA Leaves ==
  ASSUME call \in [Threads -> Call], NEW t \in Threads,
         NEW step \in Steps \ {"write", "apply"},
         Goes(t, step) \/ Sees(t, step) \/ Ends(t) \/ Returns(t)
  PROVE  call'[t].at \notin {"write", "apply"}
<1>1. call[t] \in Call
  OBVIOUS
<1>2. CASE Goes(t, step)
  BY <1>1, <1>2 DEF Goes, Call
<1>3. CASE Sees(t, step)
  BY <1>1, <1>3 DEF Sees, Call
<1>4. CASE Ends(t)
  BY <1>4 DEF Ends, Idle
<1>5. CASE Returns(t)
  BY <1>1, <1>4, <1>5 DEF Returns, Call, Ends, Idle
<1> QED BY <1>2, <1>3, <1>4, <1>5

(* What a call has seen is the row of that moment, or is forgotten.          *)
LEMMA Seen ==
  ASSUME TypeOK, NEW t \in Threads, Step(t)
  PROVE  call'[t].seen \in {row, NoGoal, call[t].seen}
<1>0. call[t] \in Call /\ call \in [Threads -> Call]
  BY DEF TypeOK
<1>1. \E step \in Steps : Goes(t, step) \/ Sees(t, step) \/ Ends(t) \/ Returns(t)
  BY DEF Step, Steps, Account, Charge, Write, Reread, Emit, Restore, Select, Adopt, Look,
       Replace,
         Delete, UpdateStatus, UpdateObjective, PauseActive
<1> QED BY <1>0, <1>1 DEF Goes, Sees, Ends, Returns, Idle, Call

LEMMA GivenStep ==
  ASSUME Inv, NEW t \in Threads, Step(t)
  PROVE  Given'
<1>1. TypeOK /\ Given /\ row.gid \in Nat /\ born \in Nat
  BY GoalAssumption DEF Inv, TypeOK, Goal, NoGoal, NoId
<1>2. born' \in Nat /\ born <= born'
  BY <1>1 DEF Step, goalVars, Account, Charge, Write, Reread, Emit, Restore, Select, Adopt,
       Look, Replace,
              Delete, UpdateStatus, UpdateObjective, PauseActive
<1>3. row'.gid <= born'
  <2>1. CASE Replace(t)
    BY <1>1, <2>1 DEF Replace
  <2>2. CASE Delete(t)
    BY <1>1, <1>2, <2>2 DEF Delete, NoGoal, NoId
  <2>3. CASE ~Replace(t) /\ ~Delete(t)
    <3>1. row'.gid = row.gid
      BY <2>3 DEF Inv, TypeOK, Goal, NoGoal, Step, goalVars, Account, Charge, Write, Reread,
           Emit,
                  Restore, Select, Adopt, Look, UpdateStatus, UpdateObjective, PauseActive
    <3> QED BY <1>1, <1>2, <3>1 DEF Given
  <2> QED BY <2>1, <2>2, <2>3
<1>4. ASSUME NEW u \in Threads PROVE call'[u].seen.gid <= born'
  <2>1. call[u].seen.gid <= born /\ call[u].seen.gid \in Nat
    BY <1>1, GoalAssumption DEF Given, TypeOK, Call, Goal, NoGoal, NoId
  <2>2. call'[u].seen \in {row, NoGoal, call[u].seen}
    BY <1>1, Seen, StepFrame
  <2>3. call'[u].seen.gid <= born
    BY <1>1, <2>1, <2>2 DEF Given, NoGoal, NoId
  <2> QED BY <1>1, <1>2, <2>1, <2>2, <2>3 DEF NoGoal, NoId
<1>5. owed' <= born'
  <2>1. owed' \in {owed, NoId} /\ owed \in Nat /\ owed <= born
    BY <1>1, GoalAssumption DEF Given, TypeOK, Step, goalVars, chargeVars, Account, Charge,
         Passes,
       Write, Reread, Emit, Restore, Select, Adopt, Look, Replace, Delete, UpdateStatus,
       UpdateObjective, PauseActive
  <2> QED BY <1>1, <1>2, <2>1 DEF NoId
<1> QED BY <1>3, <1>4, <1>5 DEF Given

(* A statement that writes nothing: what it reads is the row as it is.       *)
LEMMA InvRead ==
  ASSUME Inv, NEW t \in Threads, Step(t), UNCHANGED <<row, born, asked, crossed>>
  PROVE  /\ \A u \in Threads : (Found(u) /\ Steady(u))'
         /\ (BudgetStops /\ StatusIsItsOwn)'
<1>0. call[t] \in Call /\ call \in [Threads -> Call] /\ TypeOK
  BY DEF Inv, TypeOK
<1>1. (BudgetStops /\ StatusIsItsOwn)'
  BY DEF Inv, BudgetStops, StatusIsItsOwn, Has, Active, Over
<1>2. ASSUME NEW u \in Threads, u # t PROVE (Found(u) /\ Steady(u))'
  <2>1. call'[u] = call[u]
    BY <1>0, <1>2, StepFrame
  <2> QED BY <2>1 DEF Inv, Found, Steady, At
<1>3. CASE Charge(t) /\ Chargeable(t, row) /\ Sees(t, "write")
  <2>1. call'[t].seen = row /\ call'[t].at = "write"
    BY <1>0, <1>3 DEF Sees, Call
  <2>2. Has(row) /\ row.status \in {"active", "complete"}
    BY <1>3 DEF Chargeable, Active
  <2>3. (Found(t) /\ Steady(t))'
    BY <2>1, <2>2 DEF Inv, Found, Steady, At, StatusIsItsOwn, Has
  <2> QED BY <1>1, <1>2, <2>3
<1>4. CASE Look(t) /\ Admits(call[t].op, row) /\ Sees(t, "apply")
  <2>1. call'[t].seen = row /\ call'[t].at = "apply" /\ call'[t].op = call[t].op
    BY <1>0, <1>4 DEF Sees, Call
  <2>2. call[t].op \notin {"create", "set"} => Has(row)
    BY <1>4 DEF Admits, Active, Has, NoGoal
  <2>3. (Found(t) /\ Steady(t))'
    BY <2>1, <2>2 DEF Found, Steady, At, Has
  <2> QED BY <1>1, <1>2, <2>3
<1>5. CASE call'[t].at \notin {"write", "apply"}
  <2>1. (Found(t) /\ Steady(t))'
    BY <1>5 DEF Found, Steady, At
  <2> QED BY <1>1, <1>2, <2>1
<1>6. \/ Charge(t) /\ Chargeable(t, row) /\ Sees(t, "write")
      \/ Look(t) /\ Admits(call[t].op, row) /\ Sees(t, "apply")
      \/ \E step \in Steps \ {"write", "apply"} :
           Goes(t, step) \/ Sees(t, step) \/ Ends(t) \/ Returns(t)
  BY DEF Step, Steps, Account, Charge, Write, Reread, Emit, Restore, Select, Adopt, Look,
       Replace,
         Delete, UpdateStatus, UpdateObjective, PauseActive
<1> QED BY <1>0, <1>3, <1>4, <1>5, <1>6, Leaves

(* A statement that writes the row: it leaves the place of the writers, and  *)
(* those that are still there have to agree with the new row.                *)
Writes(t) ==
  Write(t) \/ Replace(t) \/ Delete(t) \/ UpdateStatus(t) \/ UpdateObjective(t) \/ PauseActive(t)

LEMMA WritesLeave ==
  ASSUME Inv, NEW t \in Threads, Writes(t)
  PROVE  /\ \A u \in Threads \ {t} : call'[u] = call[u]
         /\ (Found(t) /\ Steady(t))'
         /\ \A u \in Threads \ {t} : Found(u)'
<1>0. call[t] \in Call /\ call \in [Threads -> Call] /\ TypeOK
  BY DEF Inv, TypeOK
<1>1. \E step \in Steps \ {"write", "apply"} :
        Goes(t, step) \/ Sees(t, step) \/ Ends(t) \/ Returns(t)
  BY DEF Writes, Steps, Write, Replace, Delete, UpdateStatus, UpdateObjective, PauseActive
<1>2. call'[t].at \notin {"write", "apply"}
  BY <1>0, <1>1, Leaves
<1>3. \A u \in Threads \ {t} : call'[u] = call[u]
  BY <1>0, StepFrame DEF Writes, Step
<1> QED BY <1>2, <1>3 DEF Inv, Found, Steady, At

(* The row belongs to a goal or to none, and who named it has the same goal. *)
LEMMA InvWrite ==
  ASSUME Inv, NEW t \in Threads, Write(t)
  PROVE  /\ \A u \in Threads : Steady(u)'
         /\ (BudgetStops /\ StatusIsItsOwn)'
<1> DEFINE seen == call[t].seen
           tokens == seen.tokens + call[t].tokens
           status == NextStatus(seen, tokens)
<1>0. TypeOK /\ call[t] \in Call /\ seen \in Goals /\ row \in Goals /\ charged \in Nat
      /\ Found(t) /\ Steady(t) /\ call[t].tokens \in {0, 1} /\ At(t, "write") /\ Has(seen)
  BY DEF Inv, TypeOK, Goals, Call, Write, Found
<1>1. /\ \A u \in Threads \ {t} : call'[u] = call[u]
      /\ Steady(t)'
  BY WritesLeave DEF Writes
<1>2. CASE crossed'
  BY <1>2 DEF Steady, BudgetStops, StatusIsItsOwn
<1>3. CASE ~crossed' /\ ~(Has(row) /\ row.gid = acct)
  <2>1. UNCHANGED <<row, asked, crossed>>
    BY <1>0, <1>3 DEF Write, Inv, TypeOK
  <2> QED BY <1>1, <2>1 DEF Inv, Steady, At, BudgetStops, StatusIsItsOwn, Has, Active, Over
<1>4. CASE ~crossed' /\ Has(row) /\ row.gid = acct
  <2>1. ~crossed /\ seen.gid = row.gid /\ row \in Goal /\ asked' = asked /\ seen \in Goal
    BY <1>0, <1>4 DEF Write, Inv, TypeOK, Has, Goals
  <2>2. row' = [row EXCEPT !.tokens = tokens, !.status = status]
    BY <1>4 DEF Write
  <2>3. /\ row'.tokens = tokens /\ row'.status = status /\ row'.budget = row.budget
        /\ row'.gid = row.gid /\ row' # NoGoal
    <3>1. /\ row'.tokens = tokens /\ row'.status = status
          /\ row'.budget = row.budget /\ row'.gid = row.gid
      BY <2>1, <2>2 DEF Goal
    <3>2. row.gid # NoId
      BY <2>1, GoalAssumption DEF Goal, NoId
    <3> QED BY <3>1, <3>2 DEF NoGoal
  <2>4. /\ seen.tokens = row.tokens
        /\ seen.status \in {"active"} \union asked
        /\ "reopened" \notin asked => seen.budget = row.budget
    BY <1>0, <1>4, <2>1 DEF Steady
  <2>6. BudgetStops'
    BY <1>0, <2>1, <2>3, <2>4 DEF BudgetStops, NextStatus, Active, Over, Found, Goal
  <2>7. StatusIsItsOwn'
    BY <2>1, <2>3, <2>4 DEF StatusIsItsOwn, NextStatus
  <2>8. ASSUME NEW u \in Threads, u # t PROVE Steady(u)'
    <3>1. call'[u] = call[u] /\ Steady(u)
      BY <1>1, <2>8 DEF Inv
    <3>2. At(u, "write") => call[t].tokens = 0
      <4>1. u \in Commands => ~At(u, "write")
        BY DEF Inv, Turns, At, Accounting
      <4>2. u \in Tools /\ batch = {} => ~At(u, "write")
        BY DEF Inv, Turns, At, Idle
      <4>3. call[t].tokens = 1 => t = Worker /\ batch = {}
        BY DEF Inv, Turns
      <4> QED BY <1>0, <2>8, <4>1, <4>2, <4>3 DEF Threads
    <3>3. At(u, "write") => row'.tokens = row.tokens
      BY <1>0, <2>1, <2>3, <2>4, <3>2 DEF Goal
    <3> QED BY <1>0, <1>4, <2>1, <2>3, <3>1, <3>3 DEF Steady, At, Has, Write
  <2> QED BY <1>1, <2>6, <2>7, <2>8
<1> QED BY <1>2, <1>3, <1>4

(* A new goal has an id nobody has seen; a deleted one has none.             *)
LEMMA InvReplace ==
  ASSUME Inv, NEW t \in Threads, Replace(t) \/ Delete(t)
  PROVE  /\ \A u \in Threads : Steady(u)'
         /\ (BudgetStops /\ StatusIsItsOwn)'
<1>0. /\ \A u \in Threads \ {t} : call'[u] = call[u]
      /\ Steady(t)'
  BY WritesLeave DEF Writes
<1>1. CASE Delete(t)
  <2>1. row' = NoGoal
    BY <1>1 DEF Delete
  <2> QED BY <2>1 DEF Steady, BudgetStops, StatusIsItsOwn, Has, NoGoal
<1>2. CASE Replace(t)
  <2>1. PICK b \in Budgets :
          row' = [gid |-> born + 1, status |-> "active", budget |-> b, tokens |-> 0]
    BY <1>2 DEF Replace
  <2>3. (BudgetStops /\ StatusIsItsOwn)'
    BY <2>1, GoalAssumption DEF BudgetStops, StatusIsItsOwn, Active, Over
  <2>4. ASSUME NEW u \in Threads, u # t PROVE Steady(u)'
    <3>1. call'[u] = call[u]
      BY <1>0, <2>4
    <3>2. call[u].seen.gid <= born /\ call[u].seen.gid \in Nat /\ born \in Nat
      BY GoalAssumption DEF Inv, Given, TypeOK, Call, Goal, NoGoal, NoId
    <3>3. call'[u].seen.gid # row'.gid
      BY <2>1, <3>1, <3>2
    <3> QED BY <3>3 DEF Steady
  <2> QED BY <1>0, <2>3, <2>4
<1> QED BY <1>1, <1>2

(* A decision about the goal changes its status or its budget, and is        *)
(* remembered as asked for.                                                  *)
LEMMA InvDecide ==
  ASSUME Inv, NEW t \in Threads, UpdateStatus(t) \/ UpdateObjective(t) \/ PauseActive(t)
  PROVE  /\ \A u \in Threads : Steady(u)'
         /\ (BudgetStops /\ StatusIsItsOwn)'
<1>0. /\ \A u \in Threads \ {t} : call'[u] = call[u]
      /\ Steady(t)'
  BY WritesLeave DEF Writes
<1>1. row \in Goals /\ Found(t) /\ call[t].seen \in Goals /\ crossed' = crossed
  BY DEF Inv, TypeOK, Goals, Call, UpdateStatus, UpdateObjective, PauseActive
<1>2. CASE row' = row /\ asked' = asked
  BY <1>0, <1>1, <1>2 DEF Inv, Steady, At, BudgetStops, StatusIsItsOwn, Has, Active, Over
<1>3. ASSUME NEW status \in {"complete", "blocked", "paused"},
             row \in Goal, row' = [row EXCEPT !.status = status],
             asked' = asked \union {status}
      PROVE  /\ \A u \in Threads : Steady(u)'
             /\ (BudgetStops /\ StatusIsItsOwn)'
  <2>1. /\ row'.status = status /\ row'.gid = row.gid /\ row'.budget = row.budget
        /\ row'.tokens = row.tokens /\ Has(row)
    BY <1>3, GoalAssumption DEF Goal, NoGoal, NoId, Has
  <2> QED BY <1>0, <1>1, <1>3, <2>1 DEF Inv, Steady, At, BudgetStops, StatusIsItsOwn,
                                        Has, Active, Over
<1>4. ASSUME row \in Goal, row'.gid = row.gid, row'.tokens = row.tokens,
             row'.status \in {row.status, "active"},
             asked' = asked \union {"reopened"}
      PROVE  /\ \A u \in Threads : Steady(u)'
             /\ (BudgetStops /\ StatusIsItsOwn)'
  <2>1. Has(row)
    BY <1>4, GoalAssumption DEF Goal, NoGoal, NoId, Has
  <2> QED BY <1>0, <1>1, <1>4, <2>1 DEF Inv, Steady, At, BudgetStops, StatusIsItsOwn, Has
<1>5. CASE UpdateStatus(t)
  <2>1. CASE row.gid # call[t].seen.gid
    BY <1>2, <1>5, <2>1 DEF UpdateStatus, Names
  <2>2. CASE row.gid = call[t].seen.gid
    <3>1. row \in Goal
      BY <1>1, <1>5, <2>2, GoalAssumption DEF UpdateStatus, Found, Has, Goals, Goal, NoGoal,
           NoId
    <3>2. row' = [row EXCEPT !.status = Target(call[t].op)]
      BY <1>5, <2>2 DEF UpdateStatus, Names
    <3>3. CASE call[t].op = "resume"
      <4>1. Target(call[t].op) = "active" /\ asked' = asked \union {"reopened"}
        BY <1>5, <2>2, <3>3 DEF UpdateStatus, Target
      <4>2. row'.gid = row.gid /\ row'.tokens = row.tokens /\ row'.status = "active"
        BY <3>1, <3>2, <4>1 DEF Goal
      <4> QED BY <1>4, <3>1, <4>1, <4>2
    <3>4. CASE call[t].op # "resume"
      <4>1. Target(call[t].op) \in {"complete", "blocked", "paused"}
        BY <1>5, <3>4 DEF UpdateStatus, Target
      <4>2. asked' = asked \union {Target(call[t].op)}
        BY <1>5, <2>2, <4>1 DEF UpdateStatus
      <4> QED BY <1>3, <3>1, <3>2, <4>1, <4>2
    <3> QED BY <3>3, <3>4
  <2> QED BY <2>1, <2>2
<1>6. CASE UpdateObjective(t)
  <2>1. CASE row.gid # call[t].seen.gid
    BY <1>2, <1>6, <2>1 DEF UpdateObjective, Names
  <2>2. CASE row.gid = call[t].seen.gid
    <3>1. row \in Goal
      BY <1>1, <1>6, <2>2, GoalAssumption DEF UpdateObjective, Found, Has, Goals, Goal,
           NoGoal, NoId
    <3>2. PICK b \in Budgets : row' = [row EXCEPT !.budget = b]
      BY <1>6, <2>2 DEF UpdateObjective, Names
    <3>3. row'.gid = row.gid /\ row'.tokens = row.tokens /\ row'.status = row.status
      BY <3>1, <3>2 DEF Goal
    <3>4. asked' = asked \union {"reopened"}
      BY <1>6, <2>2 DEF UpdateObjective
    <3> QED BY <1>4, <3>1, <3>3, <3>4
  <2> QED BY <2>1, <2>2
<1>7. CASE PauseActive(t)
  <2>1. CASE ~Active(row)
    BY <1>2, <1>7, <2>1 DEF PauseActive
  <2>2. CASE Active(row)
    <3>1. row \in Goal
      BY <1>1, <2>2 DEF Active, Goals, NoGoal
    <3>2. row' = [row EXCEPT !.status = "paused"] /\ asked' = asked \union {"paused"}
      BY <1>7, <2>2 DEF PauseActive
    <3> QED BY <1>3, <3>1, <3>2
  <2> QED BY <2>1, <2>2
<1> QED BY <1>5, <1>6, <1>7

(* How the worker's charge of an answer goes on, unless somebody interferes.  *)
LEMMA OwingWorker ==
  ASSUME Inv, Step(Worker), Notes(Worker)
  PROVE  Owing'
<1>0. /\ TypeOK /\ Owing /\ Worker \in Threads /\ Worker \notin Commands /\ shaken' = shaken
      /\ call[Worker] \in Call /\ call \in [Threads -> Call]
  BY GoalAssumption DEF Inv, Threads, TypeOK, Notes
<1>1. owed = NoId => owed' = NoId
  BY DEF Step, goalVars, chargeVars, Account, Charge, Passes, Write, Reread, Emit, Restore,
       Select,
         Adopt, Look, Replace, Delete, UpdateStatus, UpdateObjective, PauseActive
<1>2. CASE owed' = NoId
  BY <1>2 DEF Owing
<1>3. CASE owed' # NoId
  <2>1. owed # NoId /\ call[Worker].op = "answer" /\ call[Worker].at \in Charging
        /\ call[Worker].tokens = 1
    BY <1>0, <1>1, <1>3 DEF Owing
  <2>2. \/ Account(Worker) \/ Restore(Worker) \/ Select(Worker) \/ Adopt(Worker)
        \/ (Charge(Worker) /\ Chargeable(Worker, row) /\ Sees(Worker, "write") /\ UNCHANGED chargeVars)
    BY <2>1, <1>3 DEF Step, Charging, At, Charge, Passes, Write, Reread, Emit, Look, Replace,
       Delete, UpdateStatus, UpdateObjective, PauseActive
  <2>3. UNCHANGED <<row, owed>>
    BY <2>2 DEF Account, Restore, Select, Adopt, Charge, goalVars, chargeVars
  <2>4. CASE Account(Worker)
    <3>1. call' = [call EXCEPT ![Worker].at = IF acct = NoId THEN "restore" ELSE "charge",
                               ![Worker].seen = NoGoal] /\ acct' = acct /\ At(Worker, "account")
      BY <2>4 DEF Account, Goes
    <3>2. /\ call'[Worker].at = IF acct = NoId THEN "restore" ELSE "charge"
          /\ call'[Worker].op = "answer" /\ call'[Worker].tokens = 1
      BY <1>0, <2>1, <3>1 DEF Call
    <3> QED BY <1>0, <2>3, <3>1, <3>2 DEF Owing, At, Charging, Active
  <2>5. CASE Restore(Worker)
    <3>1. call' = [call EXCEPT ![Worker].at = "select", ![Worker].seen = NoGoal]
      BY <2>5 DEF Restore, Goes
    <3>2. call'[Worker].at = "select" /\ call'[Worker].op = "answer" /\ call'[Worker].tokens = 1
      BY <1>0, <2>1, <3>1 DEF Call
    <3> QED BY <1>0, <2>3, <3>2 DEF Owing, At, Charging, Active
  <2>6. CASE Select(Worker)
    <3>1. call' = [call EXCEPT ![Worker].at = "adopt", ![Worker].seen = row]
      BY <2>6 DEF Select, Sees
    <3>2. call'[Worker].at = "adopt" /\ call'[Worker].op = "answer" /\ call'[Worker].tokens = 1
          /\ call'[Worker].seen = row
      BY <1>0, <2>1, <3>1 DEF Call
    <3> QED BY <1>0, <2>3, <3>2 DEF Owing, At, Charging, Active
  <2>7. CASE Adopt(Worker)
    <3>1. call' = [call EXCEPT ![Worker].at = "charge", ![Worker].seen = NoGoal]
          /\ At(Worker, "adopt")
          /\ acct' = IF Active(call[Worker].seen) THEN call[Worker].seen.gid ELSE acct
      BY <1>0, <2>1, <2>7 DEF Adopt, Goes
    <3>2. call'[Worker].at = "charge" /\ call'[Worker].op = "answer" /\ call'[Worker].tokens = 1
      BY <1>0, <2>1, <3>1 DEF Call
    <3> QED BY <1>0, <2>3, <3>1, <3>2 DEF Owing, At, Charging, Active
  <2>8. CASE Charge(Worker) /\ Sees(Worker, "write")
    <3>1. call' = [call EXCEPT ![Worker].at = "write", ![Worker].seen = row]
          /\ At(Worker, "charge") /\ acct' = acct
      BY <2>8 DEF Sees, Charge
    <3>2. call'[Worker].at = "write" /\ call'[Worker].op = "answer" /\ call'[Worker].tokens = 1
      BY <1>0, <2>1, <3>1 DEF Call
    <3> QED BY <1>0, <2>3, <3>1, <3>2 DEF Owing, At, Charging, Active
  <2> QED BY <2>2, <2>4, <2>5, <2>6, <2>7, <2>8
<1> QED BY <1>2, <1>3

(* Another thread either leaves it alone or is seen to interfere.            *)
LEMMA OwingOther ==
  ASSUME Inv, NEW t \in Threads, t # Worker, Step(t), Notes(t)
  PROVE  Owing'
<1>0. TypeOK /\ Owing /\ Worker \in Threads
  BY DEF Inv, Threads
<1>1. call'[Worker] = call[Worker]
  BY <1>0, StepFrame
<1>2. owed' = owed
  BY DEF Step, goalVars, chargeVars, Account, Charge, Passes, Write, Reread, Emit, Restore,
       Select,
         Adopt, Look, Replace, Delete, UpdateStatus, UpdateObjective, PauseActive
<1>3. ~shaken' => /\ ~shaken /\ row'.gid = row.gid /\ row'.status = row.status
                  /\ acct' = acct \/ acct' = row.gid
  BY DEF Notes, Interferes
<1> QED BY <1>0, <1>1, <1>2, <1>3 DEF Owing, At, Active

(* The answers charged are those that came, up to the ones missed and the    *)
(* one on its way.                                                           *)
LEMMA UsageStep ==
  ASSUME Inv, NEW t \in Threads, Step(t), Notes(t)
  PROVE  UsageExact'
<1>0. /\ TypeOK /\ Owing /\ UsageExact /\ Turns /\ Found(t) /\ Steady(t)
      /\ call[t] \in Call /\ row \in Goals
      /\ charged \in Nat /\ missed \in Nat /\ call[t].tokens \in {0, 1}
  BY DEF Inv, TypeOK, Goals, Call
<1>1. Has(row) => row \in Goal /\ row.gid # NoId /\ row.tokens \in Nat
  BY <1>0, GoalAssumption DEF Goals, Has, Goal, NoId
<1>2. CASE Charge(t)
  <2>1. UNCHANGED <<row, charged, crossed>>
    BY <1>2 DEF Charge
  <2>2. CASE UNCHANGED chargeVars
    BY <1>0, <2>1, <2>2 DEF UsageExact, Unsettled, Has, chargeVars
  <2>3. CASE Passes(t)
    <3>1. CASE t # Worker \/ ~Has(row) \/ row.gid # owed
      BY <1>0, <1>1, <2>1, <2>3, <3>1 DEF Passes, UsageExact, Unsettled, Has
    <3>2. CASE t = Worker /\ Has(row) /\ row.gid = owed /\ shaken
      BY <1>0, <1>1, <2>1, <2>3, <3>2 DEF Passes, UsageExact, Unsettled, Has
    <3>3. CASE t = Worker /\ Has(row) /\ row.gid = owed /\ ~shaken /\ ~UNCHANGED chargeVars
      <4>1. Chargeable(t, row) /\ call[t].tokens = 1
        BY <1>0, <1>1, <1>2, <3>3 DEF Owing, Charge, Chargeable
      <4> QED BY <1>2, <3>3, <4>1 DEF Charge
    <3> QED BY <2>2, <3>1, <3>2, <3>3
  <2> QED BY <1>2, <2>2, <2>3 DEF Charge
<1>3. CASE Write(t) /\ Has(row) /\ row.gid = acct
  <2> DEFINE seen == call[t].seen
             tokens == seen.tokens + call[t].tokens
             status == NextStatus(seen, tokens)
  <2>1. CASE crossed'
    BY <2>1 DEF UsageExact
  <2>2. CASE ~crossed'
    <3>1. ~crossed /\ seen.gid = row.gid
      BY <1>0, <1>3, <2>2 DEF Write, TypeOK
    <3>2. seen.tokens = row.tokens
      BY <1>0, <1>3, <3>1 DEF Steady, Write
    <3>3. row' = [row EXCEPT !.tokens = tokens, !.status = status]
      BY <1>3 DEF Write
    <3>4. row'.tokens = row.tokens + call[t].tokens /\ row'.gid = row.gid
      BY <1>1, <1>3, <3>2, <3>3 DEF Goal
    <3>5. /\ missed' = missed
          /\ owed' = (IF t = Worker THEN NoId ELSE owed)
          /\ charged' = IF row.gid # owed THEN charged + call[t].tokens ELSE charged
      BY <1>3 DEF Write
    <3>6. t # Worker => call[t].tokens = 0
      BY <1>0 DEF Turns
    <3>7. t = Worker /\ row.gid = owed => call[t].tokens = 1
      BY <1>0, <1>1, <1>3 DEF Owing
    <3>8. row.tokens + missed + Unsettled = charged
      BY <1>0, <1>3, <3>1 DEF UsageExact
    <3>9. CASE row.gid = owed
      BY <1>0, <1>1, <1>3, <3>4, <3>5, <3>6, <3>7, <3>8, <3>9 DEF UsageExact, Unsettled, Has
    <3>10. CASE row.gid # owed
      <4>1. Unsettled = 0 /\ Unsettled' = 0
        BY <1>1, <1>3, <3>4, <3>5, <3>10 DEF Unsettled
      <4> QED BY <1>0, <1>1, <1>3, <3>4, <3>5, <3>8, <3>10, <4>1 DEF UsageExact
    <3> QED BY <3>9, <3>10
  <2> QED BY <2>1, <2>2
<1>4. CASE Write(t) /\ ~(Has(row) /\ row.gid = acct)
  <2>1. UNCHANGED <<row, charged, crossed>> /\ Passes(t)
    BY <1>0, <1>4 DEF Write, TypeOK
  <2>2. ~(t = Worker /\ Has(row) /\ row.gid = owed /\ ~shaken)
    BY <1>0, <1>1, <1>4 DEF Owing, Write
  <2>3. CASE t # Worker \/ ~Has(row) \/ row.gid # owed
    BY <1>0, <1>1, <2>1, <2>3 DEF Passes, UsageExact, Unsettled, Has
  <2>4. CASE t = Worker /\ Has(row) /\ row.gid = owed /\ shaken
    BY <1>0, <1>1, <2>1, <2>4 DEF Passes, UsageExact, Unsettled, Has
  <2> QED BY <2>2, <2>3, <2>4
<1>5. CASE Replace(t)
  <2>1. /\ row'.gid = born + 1 /\ row'.tokens = 0 /\ charged' = 0 /\ missed' = 0
        /\ owed' = owed
    BY <1>5 DEF Replace
  <2>2. owed <= born /\ owed \in Nat /\ born \in Nat
    BY <1>0, GoalAssumption DEF Inv, Given, TypeOK
  <2> QED BY <2>1, <2>2 DEF UsageExact, Unsettled
<1>6. CASE Delete(t)
  BY <1>6 DEF Delete, UsageExact, Has
<1>7. CASE UpdateStatus(t) \/ UpdateObjective(t) \/ PauseActive(t)
  <2>1. UNCHANGED <<charged, missed, owed, crossed>>
    BY <1>7 DEF UpdateStatus, UpdateObjective, PauseActive, chargeVars
  <2>2. row'.gid = row.gid /\ row'.tokens = row.tokens
    BY <1>0, <1>7 DEF UpdateStatus, UpdateObjective, PauseActive, Goals, Goal, NoGoal
  <2>3. Has(row') => Has(row)
    <3>1. CASE ~Has(row)
      <4>1. row = NoGoal /\ ~Active(row)
        BY <3>1 DEF Has, Active, NoGoal
      <4>2. CASE row' = row
        BY <4>2
      <4>3. CASE Names(t) /\ (UpdateStatus(t) \/ UpdateObjective(t))
        <5>1. call[t].seen.gid = NoId
          BY <4>1, <4>3 DEF Names, NoGoal
        <5>2. Has(call[t].seen) /\ call[t].seen \in Goals
          BY <1>0, <4>3 DEF Found, UpdateStatus, UpdateObjective, Call, Goals
        <5> QED BY <5>1, <5>2, GoalAssumption DEF Has, Goals, Goal, NoId
      <4> QED BY <1>7, <4>1, <4>2, <4>3 DEF UpdateStatus, UpdateObjective, PauseActive
    <3> QED BY <3>1
  <2> QED BY <1>0, <2>1, <2>2, <2>3 DEF UsageExact, Unsettled
<1>8. CASE UNCHANGED goalVars
  BY <1>0, <1>8 DEF UsageExact, Unsettled, goalVars, chargeVars
<1> QED
  BY <1>2, <1>3, <1>4, <1>5, <1>6, <1>7, <1>8 DEF Step, Account, Reread, Emit, Restore, Select,
     Adopt, Look

(* Every step of a call keeps the invariant.                                 *)
LEMMA InvStep == ASSUME Inv, NEW t \in Threads, Step(t), Notes(t) PROVE Inv'
<1>1. TypeOK /\ Turns /\ Found(t)
  BY DEF Inv
<1>2. TypeOK'
  BY <1>1, TypeOKStep
<1>3. Turns' /\ Given'
  BY <1>1, TurnsStep, GivenStep
<1>4. Owing' /\ UsageExact'
  BY OwingWorker, OwingOther, UsageStep
<1>5. CASE Writes(t)
  <2>1. \A u \in Threads : Found(u)'
    BY <1>5, WritesLeave
  <2>2. /\ \A u \in Threads : Steady(u)'
        /\ (BudgetStops /\ StatusIsItsOwn)'
    BY <1>5, InvWrite, InvReplace, InvDecide DEF Writes
  <2> QED BY <1>2, <1>3, <1>4, <2>1, <2>2 DEF Inv
<1>6. CASE ~Writes(t)
  <2>1. UNCHANGED <<row, born, asked, crossed>>
    BY <1>6 DEF Writes, Step, Account, Charge, Reread, Emit, Restore, Select, Adopt, Look,
         goalVars
  <2>2. /\ \A u \in Threads : (Found(u) /\ Steady(u))'
        /\ (BudgetStops /\ StatusIsItsOwn)'
    BY <2>1, InvRead
  <2> QED BY <1>2, <1>3, <1>4, <2>2 DEF Inv
<1> QED BY <1>5, <1>6

(* So does every step.                                                       *)
LEMMA InvNext == Inv /\ [Next]_vars => Inv'
<1> SUFFICES ASSUME Inv, [Next]_vars PROVE Inv'
  OBVIOUS
<1>1. CASE \E t \in Threads : Step(t) /\ Notes(t)
  BY <1>1, InvStep
<1>2. CASE TurnStarts
  BY <1>2, InvStarts
<1>3. CASE UNCHANGED vars
  BY <1>3 DEF vars, goalVars, chargeVars, Inv, TypeOK, Turns, Given, Owing, Found, Steady, At,
     UsageExact, Unsettled, BudgetStops, StatusIsItsOwn, Has, Active, Over
<1> QED BY <1>1, <1>2, <1>3 DEF Next, TurnStarts

-----------------------------------------------------------------------------
(* The theorems, for every set of tools, commands and budgets and all bounds. *)

(* Every variable has its type (the row, the accounting id, the calls).      *)
THEOREM TypeCorrect == Spec => []TypeOK
<1>1. Inv => TypeOK
  BY DEF Inv
<1> QED BY <1>1, InvInit, InvNext, PTL DEF Spec

(* Every answer is charged to its goal once, or missed because another       *)
(* thread interfered between the answer and the UPDATE of                    *)
(* account_thread_goal_usage.                                                *)
THEOREM UsageCorrect == Spec => []UsageExact
<1>1. Inv => UsageExact
  BY DEF Inv
<1> QED BY <1>1, InvInit, InvNext, PTL DEF Spec

(* A goal that was neither resumed nor edited is active below its budget     *)
(* only, and budget_limited not before.                                      *)
THEOREM BudgetCorrect == Spec => []BudgetStops
<1>1. Inv => BudgetStops
  BY DEF Inv
<1> QED BY <1>1, InvInit, InvNext, PTL DEF Spec

(* A decision about one goal does not happen to the goal that replaced it.   *)
THEOREM StatusCorrect == Spec => []StatusIsItsOwn
<1>1. Inv => StatusIsItsOwn
  BY DEF Inv
<1> QED BY <1>1, InvInit, InvNext, PTL DEF Spec
=============================================================================
