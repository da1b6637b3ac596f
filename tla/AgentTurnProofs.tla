--------------------------- MODULE AgentTurnProofs ---------------------------
(***************************************************************************)
(* Proofs about AgentTurn: types, where an input is and what may become of *)
(* it, the turn an accepted input lands in and its order there, what may   *)
(* overtake it, the receipts of control requests, and the goal.            *)
(***************************************************************************)
EXTENDS AgentTurn, SequenceTheorems, FiniteSetTheorems, TLAPS

Messages == [id : Inputs \union {Continuation}, turn : Nat]
Chats == [kind : {"chat"}, id : Inputs]

(* The follow-ups of an interrupt and the messages of a drain are          *)
(* sequences as long as what they are made from.                           *)
LEMMA FollowUpsIs ==
  ASSUME NEW q \in Seq(Inputs)
  PROVE  /\ FollowUps(q) \in Seq(Chats)
         /\ Len(FollowUps(q)) = Len(q)
         /\ \A k \in 1..Len(q) : FollowUps(q)[k] = [kind |-> "chat", id |-> q[k]]
<1>1. DOMAIN q = 1..Len(q) /\ Len(q) \in Nat /\ \A k \in 1..Len(q) : q[k] \in Inputs
  BY LenProperties, ElementOfSeq
<1>2. FollowUps(q) \in [1..Len(q) -> Chats]
  BY <1>1 DEF FollowUps, Chats
<1>3. FollowUps(q) \in Seq(Chats)
  BY <1>1, <1>2, IsASeq
<1>4. Len(FollowUps(q)) = Len(q)
  BY <1>1, <1>2, <1>3, LenProperties
<1> QED BY <1>1, <1>3, <1>4 DEF FollowUps

LEMMA MessagesOf ==
  ASSUME NEW q \in Seq(Inputs \union {Continuation}), NEW t \in Nat
  PROVE  LET drained == [k \in DOMAIN q |-> [id |-> q[k], turn |-> t]]
         IN  /\ drained \in Seq(Messages)
             /\ Len(drained) = Len(q)
<1> DEFINE drained == [k \in DOMAIN q |-> [id |-> q[k], turn |-> t]]
<1>1. DOMAIN q = 1..Len(q) /\ Len(q) \in Nat
      /\ \A k \in 1..Len(q) : q[k] \in Inputs \union {Continuation}
  BY LenProperties, ElementOfSeq
<1>2. drained \in [1..Len(q) -> Messages]
  BY <1>1 DEF Messages
<1>3. drained \in Seq(Messages)
  BY <1>1, <1>2, IsASeq
<1>4. Len(drained) = Len(q)
  BY <1>1, <1>2, <1>3, LenProperties
<1> QED BY <1>3, <1>4

LEMMA ConcatIs ==
  ASSUME NEW S, NEW q \in Seq(S), NEW r \in Seq(S)
  PROVE  /\ q \o r \in Seq(S)
         /\ Len(q \o r) = Len(q) + Len(r)
         /\ \A k \in 1..Len(q) : (q \o r)[k] = q[k]
         /\ \A k \in 1..Len(r) : (q \o r)[Len(q) + k] = r[k]
<1> DEFINE both == q \o r
<1>1. /\ both \in Seq(S)
      /\ Len(both) = Len(q) + Len(r)
      /\ \A k \in 1..Len(q) + Len(r) : both[k] = IF k <= Len(q) THEN q[k] ELSE r[k - Len(q)]
  BY ConcatProperties
<1>2. Len(q) \in Nat /\ Len(r) \in Nat
  BY LenProperties
<1> HIDE DEF both
<1>3. \A k \in 1..Len(q) : both[k] = q[k]
  BY <1>1, <1>2
<1>4. \A k \in 1..Len(r) : both[Len(q) + k] = r[k]
  <2> TAKE k \in 1..Len(r)
  <2>1. Len(q) + k \in 1..Len(q) + Len(r) /\ ~(Len(q) + k <= Len(q)) /\ (Len(q) + k) - Len(q) = k
    BY <1>2
  <2> QED BY <1>1, <2>1
<1> QED BY <1>1, <1>3, <1>4 DEF both

LEMMA CommitIs ==
  ASSUME transcript \in Seq(Messages),
         NEW q \in Seq(Inputs \union {Continuation}), NEW t \in Nat
  PROVE  /\ Commit(q, t) \in Seq(Messages)
         /\ Len(Commit(q, t)) = Len(transcript) + Len(q)
         /\ \A k \in 1..Len(transcript) : Commit(q, t)[k] = transcript[k]
         /\ \A k \in 1..Len(q) :
              Commit(q, t)[Len(transcript) + k] = [id |-> q[k], turn |-> t]
<1> DEFINE drained == [k \in DOMAIN q |-> [id |-> q[k], turn |-> t]]
<1>1. drained \in Seq(Messages) /\ Len(drained) = Len(q)
  BY MessagesOf
<1>2. DOMAIN q = 1..Len(q) /\ Len(q) \in Nat /\ Len(transcript) \in Nat
  BY LenProperties
<1>3. \A k \in 1..Len(q) : drained[k] = [id |-> q[k], turn |-> t]
  BY <1>2
<1>4. Commit(q, t) = transcript \o drained
  BY DEF Commit
<1> HIDE DEF drained
<1>5. PICK d \in Seq(Messages) :
        /\ Commit(q, t) = transcript \o d
        /\ Len(d) = Len(q)
        /\ \A k \in 1..Len(q) : d[k] = [id |-> q[k], turn |-> t]
  BY <1>1, <1>3, <1>4
<1>6. /\ transcript \o d \in Seq(Messages)
      /\ Len(transcript \o d) = Len(transcript) + Len(d)
      /\ \A k \in 1..Len(transcript) : (transcript \o d)[k] = transcript[k]
      /\ \A k \in 1..Len(d) : (transcript \o d)[Len(transcript) + k] = d[k]
  BY ConcatIs
<1> QED BY <1>5, <1>6
-----------------------------------------------------------------------------
(* Types.  Where the worker stands says what it holds, and only a turn     *)
(* between its beginning and its close accepts steers and has some.        *)
Turning == {"top", "response", "boundary", "limit", "claim", "settle", "close"}

Stage ==
  /\ task = NoTask <=> pc \in {"wait", "exited"}
  /\ pc \notin {"wait", "exited", "finish", "job"} => task.kind # "control"
  /\ pc \in Turning \union {"hook", "idle", "continue", "push"} => task.kind # "job"
  /\ pc = "job" => task.kind = "job"
  /\ accepting => pc \in Turning /\ turn = turnNo /\ turn # 0
  /\ steers # <<>> => accepting
  /\ pc = "response" /\ MaxIter > 0 => iter >= 1
  /\ goal = "active" => used < Budget

LEMMA TaskIs ==
  ASSUME NEW t \in Tasks
  PROVE  /\ t # NoTask
         /\ t.kind \in Kinds
         /\ t.kind = "chat" => t \in Chats /\ t.id \in Inputs
         /\ t.kind = "goal" => t.id = Continuation
         /\ t.kind = "job" => t.id \in Jobs
         /\ t.kind = "control" => t.id \in Controls
BY NamesAssumption DEF Tasks, Kinds, Chats

(* TypeOK in parts: sequences, functions, the rest.                        *)
Sequenced ==
  /\ tasks \in Seq(Tasks)
  /\ priority \in Seq(Chats) /\ Len(priority) <= MaxSteers
  /\ steers \in Seq(Inputs) /\ Len(steers) <= MaxSteers
  /\ transcript \in Seq(Messages)
  /\ accepted \in Seq(Inputs)
  /\ outcomes \in Seq([result : Results, wiped : BOOLEAN])

Mapped ==
  /\ caller \in [Requests -> {"new", "clear", "push", "sent"}]
  /\ receipt \in [Controls -> {"none", "free", "behind"}]
  /\ named \in [Inputs -> Nat]
  /\ gone \in [Inputs -> {"no", "blocked", "discarded"}]

Ranged ==
  /\ task \in Tasks \union {NoTask}
  /\ pc \in Stages
  /\ turn \in Nat
  /\ iter \in Nat /\ (MaxIter > 0 => iter <= MaxIter)
  /\ outcome \in Results
  /\ goal \in {"none", "active", "paused", "blocked", "done"}
  /\ used \in 0..Budget
  /\ charged \in {"none", "current", "stale"}
  /\ command \in {"ready", "read", "clear", "check", "push"}
  /\ commands \in 0..MaxCommands
  /\ stop \in {"running", "stopping", "joining", "joined"}
  /\ turnNo \in Nat
  /\ interruptedTurns \subseteq Nat
  /\ last \in Kinds \union {"none"}

Flagged ==
  /\ abort \in BOOLEAN /\ interruptReq \in BOOLEAN /\ busy \in BOOLEAN
  /\ accepting \in BOOLEAN /\ terminator \in BOOLEAN
  /\ interrupted \in BOOLEAN /\ wiped \in BOOLEAN

LEMMA TypeParts == TypeOK <=> Sequenced /\ Mapped /\ Ranged /\ Flagged
BY DEF TypeOK, Sequenced, Mapped, Ranged, Flagged, Chats, Messages

Typed == Sequenced /\ Mapped /\ Ranged /\ Flagged /\ Stage

LEMMA Pushing ==
  ASSUME Sequenced, PushContinuation
  PROVE  tasks' \in Seq(Tasks)
<1>1. [kind |-> "goal", id |-> Continuation] \in Tasks
  BY DEF Tasks
<1> QED BY <1>1 DEF Sequenced, PushContinuation

LEMMA Draining ==
  ASSUME Sequenced, Ranged, accepting, transcript' = Commit(steers, turn)
  PROVE  transcript' \in Seq(Messages)
<1>1. steers \in Seq(Inputs \union {Continuation})
  BY SeqMonotonic DEF Sequenced
<1> QED BY <1>1, CommitIs DEF Sequenced, Ranged

LEMMA TypeInit == Init => Typed
<1> SUFFICES ASSUME Init PROVE Typed
  OBVIOUS
<1> USE ConstantsAssumption
<1>1. Sequenced
  BY DEF Init, Sequenced
<1>2. Mapped
  BY DEF Init, Mapped
<1>3. Ranged
  BY DEF Init, Ranged, Stages, Results
<1>4. Stage
  BY DEF Init, Stage, Turning
<1>5. Flagged
  BY DEF Init, Flagged
<1> QED BY <1>1, <1>2, <1>3, <1>4, <1>5 DEF Typed

LEMMA TypeStep == Typed /\ [Next]_vars => Typed'
<1> SUFFICES ASSUME Typed, [Next]_vars PROVE Typed'
  OBVIOUS
<1> USE ConstantsAssumption DEF Typed, Stages, Results, Turning, Kinds,
        vars, queueVars, turnVars, loopVars, goalVars, callerVars, promiseVars, historyVars
<1>1. CASE UNCHANGED vars
  BY <1>1 DEF Sequenced, Mapped, Ranged, Flagged, Stage
<1>2. ASSUME NEW r \in Requests, SubmitRead(r) PROVE Typed'
  <2>0. SubmitRead(r)
    BY <1>2
  <2>1. Sequenced'
    BY <2>0 DEF Sequenced, SubmitRead
  <2>2. Mapped'
    BY <2>0 DEF Ranged, Mapped, SubmitRead
  <2>3. Ranged'
    BY <2>0 DEF Stage, Ranged, SubmitRead
  <2>4. Stage'
    BY <2>0 DEF Sequenced, Ranged, Stage, SubmitRead
  <2>5. Flagged'
    BY <2>0 DEF Flagged, SubmitRead
  <2> QED BY <2>1, <2>2, <2>3, <2>4, <2>5
<1>3. ASSUME NEW r \in Requests, SubmitClear(r) PROVE Typed'
  <2>0. SubmitClear(r)
    BY <1>3
  <2>1. Sequenced'
    BY <2>0 DEF Sequenced, SubmitClear, WithdrawAbort
  <2>2. Mapped'
    BY <2>0 DEF Ranged, Mapped, SubmitClear, WithdrawAbort
  <2>3. Ranged'
    BY <2>0 DEF Stage, Ranged, SubmitClear, WithdrawAbort
  <2>4. Stage'
    BY <2>0 DEF Sequenced, Ranged, Stage, SubmitClear, WithdrawAbort
  <2>5. Flagged'
    BY <2>0 DEF Flagged, SubmitClear, WithdrawAbort
  <2> QED BY <2>1, <2>2, <2>3, <2>4, <2>5
<1>4. ASSUME NEW r \in Requests, SubmitPush(r) PROVE Typed'
  <2>0. SubmitPush(r)
    BY <1>4
  <2>1. Sequenced'
    <3>1. [kind |-> IF r \in Jobs THEN "job" ELSE "chat", id |-> r] \in Tasks
      BY DEF Requests, Tasks
    <3> QED BY <2>0, <3>1 DEF Sequenced, SubmitPush
  <2>2. Mapped'
    BY <2>0 DEF Ranged, Mapped, SubmitPush
  <2>3. Ranged'
    BY <2>0 DEF Stage, Ranged, SubmitPush
  <2>4. Stage'
    BY <2>0 DEF Sequenced, Ranged, Stage, SubmitPush
  <2>5. Flagged'
    BY <2>0 DEF Flagged, SubmitPush
  <2> QED BY <2>1, <2>2, <2>3, <2>4, <2>5
<1>5. ASSUME NEW c \in Controls, EnqueueControl(c) PROVE Typed'
  <2>0. EnqueueControl(c)
    BY <1>5
  <2>1. Sequenced'
    <3>1. [kind |-> "control", id |-> c] \in Tasks
      BY DEF Tasks
    <3> QED BY <2>0, <3>1 DEF Sequenced, EnqueueControl
  <2>2. Mapped'
    BY <2>0 DEF Ranged, Mapped, EnqueueControl
  <2>3. Ranged'
    BY <2>0 DEF Stage, Ranged, EnqueueControl
  <2>4. Stage'
    BY <2>0 DEF Sequenced, Ranged, Stage, EnqueueControl
  <2>5. Flagged'
    BY <2>0 DEF Flagged, EnqueueControl
  <2> QED BY <2>1, <2>2, <2>3, <2>4, <2>5
<1>6. ASSUME NEW i \in Inputs, NEW expected \in 1..turnNo, SteerInput(i, expected) PROVE Typed'
  <2>0. SteerInput(i, expected)
    BY <1>6
  <2>1. Sequenced'
    BY <2>0 DEF Sequenced, SteerInput, Expects, Promise
  <2>2. Mapped'
    BY <2>0 DEF Ranged, Mapped, SteerInput, Expects, Promise
  <2>3. Ranged'
    BY <2>0 DEF Stage, Ranged, SteerInput, Expects, Promise
  <2>4. Stage'
    BY <2>0 DEF Sequenced, Ranged, Stage, SteerInput, Expects, Promise
  <2>5. Flagged'
    BY <2>0 DEF Flagged, SteerInput, Expects, Promise
  <2> QED BY <2>1, <2>2, <2>3, <2>4, <2>5
<1>7. ASSUME NEW i \in Inputs, NEW expected \in 1..turnNo, InterruptTurn(i, expected) PROVE Typed'
  <2>0. InterruptTurn(i, expected)
    BY <1>7
  <2>1. Sequenced'
    <3>1. /\ Append(steers, i) \in Seq(Inputs)
          /\ Len(Append(steers, i)) = Len(steers) + 1
      BY AppendProperties DEF Sequenced
    <3>2. /\ FollowUps(Append(steers, i)) \in Seq(Chats)
          /\ Len(FollowUps(Append(steers, i))) = Len(steers) + 1
      BY <3>1, FollowUpsIs
    <3>6. PICK d \in Seq(Chats) : d = FollowUps(Append(steers, i))
      BY <3>2
    <3>3. /\ priority' \in Seq(Chats)
          /\ Len(priority') = Len(priority) + (Len(steers) + 1)
      <4>1. priority' = priority \o d
        BY <2>0, <3>6 DEF InterruptTurn
      <4>2. priority \in Seq(Chats)
        BY DEF Sequenced
      <4> HIDE DEF Sequenced
      <4>3. priority \o d \in Seq(Chats) /\ Len(priority \o d) = Len(priority) + Len(d)
        BY <4>2, ConcatIs
      <4> QED BY <3>2, <3>6, <4>1, <4>3
    <3>4. Len(priority) \in Nat /\ Len(steers) \in Nat
      BY LenProperties DEF Sequenced
    <3>5. accepted' \in Seq(Inputs)
      BY <2>0, AppendProperties DEF Sequenced, InterruptTurn, Promise
    <3> QED BY <2>0, <3>3, <3>4, <3>5 DEF Sequenced, InterruptTurn
  <2>2. Mapped'
    BY <2>0 DEF Ranged, Mapped, InterruptTurn, Expects, Promise, RequestInterrupt
  <2>3. Ranged'
    BY <2>0 DEF Stage, Ranged, InterruptTurn, Expects, Promise, RequestInterrupt
  <2>4. Stage'
    BY <2>0 DEF Sequenced, Ranged, Stage, InterruptTurn, Expects, Promise, RequestInterrupt
  <2>5. Flagged'
    BY <2>0 DEF Flagged, InterruptTurn, Expects, Promise, RequestInterrupt
  <2> QED BY <2>1, <2>2, <2>3, <2>4, <2>5
<1>8. CASE Abort
  BY <1>8 DEF Sequenced, Mapped, Ranged, Flagged, Stage, Abort
<1>9. CASE ShutdownFlag
  BY <1>9 DEF Sequenced, Mapped, Ranged, Flagged, Stage, ShutdownFlag
<1>10. CASE ShutdownAbort
  BY <1>10 DEF Sequenced, Mapped, Ranged, Flagged, Stage, ShutdownAbort
<1>11. CASE ShutdownJoin
  BY <1>11 DEF Sequenced, Mapped, Ranged, Flagged, Stage, ShutdownJoin
<1>12. CASE GoalSet
  BY <1>12 DEF Sequenced, Mapped, Ranged, Flagged, Stage, GoalSet, CommandStart
<1>13. CASE GoalResume
  BY <1>13 DEF Sequenced, Mapped, Ranged, Flagged, Stage, GoalResume, CommandStart
<1>14. CASE GoalStop
  BY <1>14 DEF Sequenced, Mapped, Ranged, Flagged, Stage, GoalStop, CommandStart
<1>15. CASE CommandRead
  BY <1>15 DEF Sequenced, Mapped, Ranged, Flagged, Stage, CommandRead
<1>16. CASE CommandClear
  <2>0. CommandClear
    BY <1>16
  <2>1. Sequenced'
    BY <2>0 DEF Sequenced, CommandClear, WithdrawAbort
  <2>2. Mapped'
    BY <2>0 DEF Ranged, Mapped, CommandClear, WithdrawAbort
  <2>3. Ranged'
    BY <2>0 DEF Stage, Ranged, CommandClear, WithdrawAbort
  <2>4. Stage'
    BY <2>0 DEF Sequenced, Ranged, Stage, CommandClear, WithdrawAbort
  <2>5. Flagged'
    BY <2>0 DEF Flagged, CommandClear, WithdrawAbort
  <2> QED BY <2>1, <2>2, <2>3, <2>4, <2>5
<1>17. CASE CommandCheck
  BY <1>17 DEF Sequenced, Mapped, Ranged, Flagged, Stage, CommandCheck, MayContinue
<1>18. CASE CommandPush
  <2>0. CommandPush
    BY <1>18
  <2>1. Sequenced'
    BY <2>0, Pushing DEF Sequenced, CommandPush
  <2>2. Mapped'
    BY <2>0 DEF Ranged, Mapped, CommandPush
  <2>3. Ranged'
    BY <2>0 DEF Stage, Ranged, CommandPush
  <2>4. Stage'
    BY <2>0 DEF Sequenced, Ranged, Stage, CommandPush
  <2>5. Flagged'
    BY <2>0 DEF Flagged, CommandPush
  <2> QED BY <2>1, <2>2, <2>3, <2>4, <2>5
<1>19. CASE Dequeue
  <2>0. Dequeue
    BY <1>19
  <2>6. task' \in Tasks
    <3>1. Chats \subseteq Tasks
      BY DEF Chats, Tasks
    <3>2. CASE priority # <<>> /\ task' = Head(priority)
      BY <3>1, <3>2, HeadTailProperties DEF Sequenced
    <3>3. CASE tasks # <<>> /\ task' = Head(tasks)
      BY <3>3, HeadTailProperties DEF Sequenced
    <3> QED BY <2>0, <3>2, <3>3 DEF Dequeue
  <2>1. Sequenced'
    <3>1. CASE priority # <<>> /\ priority' = Tail(priority) /\ UNCHANGED tasks
      BY <2>0, <3>1, HeadTailProperties DEF Sequenced, Dequeue
    <3>2. CASE tasks # <<>> /\ tasks' = Tail(tasks) /\ UNCHANGED priority
      BY <2>0, <3>2, HeadTailProperties DEF Sequenced, Dequeue
    <3> QED BY <2>0, <3>1, <3>2 DEF Dequeue
  <2>2. Mapped'
    BY <2>0 DEF Ranged, Mapped, Dequeue
  <2>3. Ranged'
    BY <2>0, <2>6 DEF Stage, Ranged, Dequeue
  <2>4. Stage'
    BY <2>0, <2>6, TaskIs DEF Sequenced, Ranged, Stage, Dequeue
  <2>5. Flagged'
    BY <2>0 DEF Flagged, Dequeue
  <2> QED BY <2>1, <2>2, <2>3, <2>4, <2>5
<1>20. CASE Exit
  BY <1>20 DEF Sequenced, Mapped, Ranged, Flagged, Stage, Exit
<1>21. CASE Finish
  <2>0. Finish
    BY <1>21
  <2>1. Sequenced'
    BY <2>0 DEF Sequenced, Finish
  <2>2. Mapped'
    BY <2>0 DEF Ranged, Mapped, Finish
  <2>3. Ranged'
    BY <2>0, TaskIs DEF Stage, Ranged, Finish
  <2>4. Stage'
    BY <2>0 DEF Sequenced, Ranged, Stage, Finish
  <2>5. Flagged'
    BY <2>0 DEF Flagged, Finish
  <2> QED BY <2>1, <2>2, <2>3, <2>4, <2>5
<1>22. CASE JobDone
  <2>0. JobDone
    BY <1>22
  <2>1. Sequenced'
    BY <2>0 DEF Sequenced, JobDone
  <2>2. Mapped'
    BY <2>0 DEF Ranged, Mapped, JobDone
  <2>3. Ranged'
    BY <2>0 DEF Stage, Ranged, JobDone
  <2>4. Stage'
    BY <2>0 DEF Sequenced, Ranged, Stage, JobDone
  <2>5. Flagged'
    BY <2>0 DEF Flagged, JobDone
  <2> QED BY <2>1, <2>2, <2>3, <2>4, <2>5
<1>23. CASE Begin
  <2>0. Begin
    BY <1>23
  <2>1. Sequenced'
    BY <2>0 DEF Sequenced, Begin
  <2>2. Mapped'
    BY <2>0 DEF Ranged, Mapped, Begin
  <2>3. Ranged'
    BY <2>0 DEF Stage, Ranged, Begin
  <2>4. Stage'
    BY <2>0 DEF Sequenced, Ranged, Stage, Begin
  <2>5. Flagged'
    BY <2>0 DEF Flagged, Begin
  <2> QED BY <2>1, <2>2, <2>3, <2>4, <2>5
<1>24. CASE HookBlocks
  <2>0. HookBlocks
    BY <1>24
  <2>1. Sequenced'
    BY <2>0 DEF Sequenced, HookBlocks
  <2>2. Mapped'
    BY <2>0 DEF Ranged, Mapped, HookBlocks
  <2>3. Ranged'
    BY <2>0 DEF Stage, Ranged, HookBlocks
  <2>4. Stage'
    BY <2>0 DEF Sequenced, Ranged, Stage, HookBlocks
  <2>5. Flagged'
    BY <2>0 DEF Flagged, HookBlocks
  <2> QED BY <2>1, <2>2, <2>3, <2>4, <2>5
<1>25. CASE Prepare
  <2>0. Prepare
    BY <1>25
  <2>1. Sequenced'
    <3>1. task \in Tasks /\ task.kind \in {"chat", "goal"}
      BY <2>0, TaskIs DEF Ranged, Stage, Prepare
    <3>2. task.id \in Inputs \union {Continuation}
      BY <3>1, TaskIs
    <3>3. <<task.id>> \in Seq(Inputs \union {Continuation})
      BY <3>2
    <3>4. transcript' \in Seq(Messages)
      <4>1. transcript' = Commit(<<task.id>>, turnNo + 1) /\ turnNo + 1 \in Nat
        BY <2>0 DEF Prepare, Ranged
      <4>2. transcript \in Seq(Messages)
        BY DEF Sequenced
      <4> QED BY <3>3, <4>1, <4>2, CommitIs
    <3> QED BY <2>0, <3>4 DEF Sequenced, Prepare
  <2>2. Mapped'
    BY <2>0 DEF Ranged, Mapped, Prepare, StopGoal
  <2>3. Ranged'
    BY <2>0 DEF Stage, Ranged, Prepare, StopGoal
  <2>4. Stage'
    BY <2>0 DEF Sequenced, Ranged, Stage, Prepare, StopGoal
  <2>5. Flagged'
    BY <2>0 DEF Flagged, Prepare, StopGoal
  <2> QED BY <2>1, <2>2, <2>3, <2>4, <2>5
<1>26. CASE LoopExit
  BY <1>26 DEF Sequenced, Mapped, Ranged, Flagged, Stage, LoopExit, AtLimit
<1>27. CASE LoopError
  <2>0. LoopError
    BY <1>27
  <2>1. Sequenced'
    <3>1. transcript' \in Seq(Messages)
      BY <2>0, Draining DEF Sequenced, LoopError, DrainSteers
    <3>2. steers' = steers \/ steers' = <<>>
      BY <2>0 DEF LoopError, DrainSteers
    <3>3. UNCHANGED <<tasks, priority, accepted, outcomes>>
      BY <2>0 DEF LoopError
    <3>4. steers' \in Seq(Inputs) /\ Len(steers') <= MaxSteers
      <4>1. CASE steers' = steers
        BY <4>1 DEF Sequenced
      <4>2. CASE steers' = <<>>
        BY <4>2, EmptySeq
      <4> QED BY <3>2, <4>1, <4>2
    <3> QED BY <3>1, <3>3, <3>4 DEF Sequenced
  <2>2. Mapped'
    BY <2>0 DEF Ranged, Mapped, LoopError, StopGoal, Counted, AtLimit, DrainSteers
  <2>3. Ranged'
    BY <2>0 DEF Stage, Ranged, LoopError, StopGoal, Counted, AtLimit, DrainSteers
  <2>4. Stage'
    BY <2>0 DEF Sequenced, Ranged, Stage, LoopError, StopGoal, Counted, AtLimit, DrainSteers
  <2>5. Flagged'
    BY <2>0 DEF Flagged, LoopError, StopGoal, Counted, AtLimit, DrainSteers
  <2> QED BY <2>1, <2>2, <2>3, <2>4, <2>5
<1>28. CASE ModelCall
  <2>0. ModelCall
    BY <1>28
  <2>1. Sequenced'
    <3>1. transcript' \in Seq(Messages)
      BY <2>0, Draining DEF Sequenced, ModelCall, DrainSteers
    <3>2. steers' = steers \/ steers' = <<>>
      BY <2>0 DEF ModelCall, DrainSteers
    <3>3. UNCHANGED <<tasks, priority, accepted, outcomes>>
      BY <2>0 DEF ModelCall
    <3>4. steers' \in Seq(Inputs) /\ Len(steers') <= MaxSteers
      <4>1. CASE steers' = steers
        BY <4>1 DEF Sequenced
      <4>2. CASE steers' = <<>>
        BY <4>2, EmptySeq
      <4> QED BY <3>2, <4>1, <4>2
    <3> QED BY <3>1, <3>3, <3>4 DEF Sequenced
  <2>2. Mapped'
    BY <2>0 DEF Ranged, Mapped, ModelCall, Counted, AtLimit, DrainSteers
  <2>3. Ranged'
    BY <2>0 DEF Stage, Ranged, ModelCall, Counted, AtLimit, DrainSteers
  <2>4. Stage'
    BY <2>0 DEF Sequenced, Ranged, Stage, ModelCall, Counted, AtLimit, DrainSteers
  <2>5. Flagged'
    BY <2>0 DEF Flagged, ModelCall, Counted, AtLimit, DrainSteers
  <2> QED BY <2>1, <2>2, <2>3, <2>4, <2>5
<1>29. CASE ResponseAborted
  BY <1>29 DEF Sequenced, Mapped, Ranged, Flagged, Stage, ResponseAborted, Account
<1>30. CASE ResponseRetry
  BY <1>30 DEF Sequenced, Mapped, Ranged, Flagged, Stage, ResponseRetry, Account
<1>31. CASE ResponseError
  BY <1>31 DEF Sequenced, Mapped, Ranged, Flagged, Stage, ResponseError, StopGoal
<1>32. CASE ResponseFinal
  BY <1>32 DEF Sequenced, Mapped, Ranged, Flagged, Stage, ResponseFinal, Account
<1>33. CASE ResponseTools
  BY <1>33 DEF Sequenced, Mapped, Ranged, Flagged, Stage, ResponseTools, Account
<1>34. CASE BoundaryCommits
  <2>0. BoundaryCommits
    BY <1>34
  <2>1. Sequenced'
    BY <2>0, Draining DEF Sequenced, BoundaryCommits
  <2>2. Mapped'
    BY <2>0 DEF Ranged, Mapped, BoundaryCommits
  <2>3. Ranged'
    BY <2>0 DEF Stage, Ranged, BoundaryCommits
  <2>4. Stage'
    BY <2>0 DEF Sequenced, Ranged, Stage, BoundaryCommits
  <2>5. Flagged'
    BY <2>0 DEF Flagged, BoundaryCommits
  <2> QED BY <2>1, <2>2, <2>3, <2>4, <2>5
<1>35. CASE BoundaryCloses
  <2>0. BoundaryCloses
    BY <1>35
  <2>1. Sequenced'
    BY <2>0 DEF Sequenced, BoundaryCloses
  <2>2. Mapped'
    BY <2>0 DEF Ranged, Mapped, BoundaryCloses
  <2>3. Ranged'
    BY <2>0 DEF Stage, Ranged, BoundaryCloses
  <2>4. Stage'
    BY <2>0 DEF Sequenced, Ranged, Stage, BoundaryCloses
  <2>5. Flagged'
    BY <2>0 DEF Flagged, BoundaryCloses
  <2> QED BY <2>1, <2>2, <2>3, <2>4, <2>5
<1>36. CASE LimitCheck
  BY <1>36 DEF Sequenced, Mapped, Ranged, Flagged, Stage, LimitCheck, AtLimit
<1>37. CASE ClaimInterrupt
  BY <1>37 DEF Sequenced, Mapped, Ranged, Flagged, Stage, ClaimInterrupt
<1>38. CASE Settle
  BY <1>38 DEF Sequenced, Mapped, Ranged, Flagged, Stage, Settle
<1>39. CASE Close
  <2>0. Close
    BY <1>39
  <2>1. Sequenced'
    <3>1. outcomes' \in Seq([result : Results, wiped : BOOLEAN])
      <4>1. [result |-> outcome, wiped |-> wiped] \in [result : Results, wiped : BOOLEAN]
        BY DEF Ranged, Flagged
      <4> HIDE DEF Results
      <4> QED BY <2>0, <4>1, AppendProperties DEF Sequenced, Close
    <3> QED BY <2>0, <3>1 DEF Sequenced, Close
  <2>2. Mapped'
    BY <2>0 DEF Ranged, Mapped, Close
  <2>3. Ranged'
    BY <2>0 DEF Stage, Ranged, Close
  <2>4. Stage'
    BY <2>0 DEF Sequenced, Ranged, Stage, Close
  <2>5. Flagged'
    BY <2>0 DEF Flagged, Close
  <2> QED BY <2>1, <2>2, <2>3, <2>4, <2>5
<1>40. CASE Idle
  <2>0. Idle
    BY <1>40
  <2>1. Sequenced'
    BY <2>0 DEF Sequenced, Idle
  <2>2. Mapped'
    BY <2>0 DEF Ranged, Mapped, Idle
  <2>3. Ranged'
    BY <2>0 DEF Stage, Ranged, Idle
  <2>4. Stage'
    BY <2>0 DEF Sequenced, Ranged, Stage, Idle
  <2>5. Flagged'
    BY <2>0 DEF Flagged, Idle
  <2> QED BY <2>1, <2>2, <2>3, <2>4, <2>5
<1>41. CASE ContinueCheck
  BY <1>41 DEF Sequenced, Mapped, Ranged, Flagged, Stage, ContinueCheck, MayContinue
<1>42. CASE ContinuePush
  <2>0. ContinuePush
    BY <1>42
  <2>1. Sequenced'
    BY <2>0, Pushing DEF Sequenced, ContinuePush
  <2>2. Mapped'
    BY <2>0 DEF Ranged, Mapped, ContinuePush
  <2>3. Ranged'
    BY <2>0 DEF Stage, Ranged, ContinuePush
  <2>4. Stage'
    BY <2>0 DEF Sequenced, Ranged, Stage, ContinuePush
  <2>5. Flagged'
    BY <2>0 DEF Flagged, ContinuePush
  <2> QED BY <2>1, <2>2, <2>3, <2>4, <2>5
<1> QED
  BY <1>1, <1>2, <1>3, <1>4, <1>5, <1>6, <1>7, <1>8, <1>9, <1>10, <1>11, <1>12, <1>13, <1>14, <1>15, <1>16, <1>17, <1>18, <1>19, <1>20, <1>21, <1>22, <1>23, <1>24, <1>25, <1>26, <1>27, <1>28, <1>29, <1>30, <1>31, <1>32, <1>33, <1>34, <1>35, <1>36, <1>37, <1>38, <1>39, <1>40, <1>41, <1>42 DEF Next, Worker, Turn, Commander, Submitter
-----------------------------------------------------------------------------
(* Counting in sequences.                                                  *)
Occ(q, T) == Cardinality({k \in DOMAIN q : q[k] \in T})

LEMMA OccFinite ==
  ASSUME NEW S, NEW q \in Seq(S), NEW T
  PROVE  /\ IsFiniteSet({k \in DOMAIN q : q[k] \in T})
         /\ Occ(q, T) \in Nat
<1>1. DOMAIN q = 1..Len(q) /\ Len(q) \in Nat
  BY LenProperties
<1>2. IsFiniteSet(1..Len(q))
  BY <1>1, FS_Interval
<1>3. {k \in DOMAIN q : q[k] \in T} \in SUBSET (1..Len(q))
  BY <1>1
<1>4. IsFiniteSet({k \in DOMAIN q : q[k] \in T})
  BY <1>2, <1>3, FS_Subset
<1> QED BY <1>4, FS_CardinalityType DEF Occ

LEMMA OccEmpty == \A T : Occ(<<>>, T) = 0
<1>1. \A T : {k \in DOMAIN <<>> : <<>>[k] \in T} = {}
  OBVIOUS
<1> QED BY <1>1, FS_EmptySet DEF Occ

LEMMA OccOne ==
  ASSUME NEW e, NEW T
  PROVE  Occ(<<e>>, T) = IF e \in T THEN 1 ELSE 0
<1>1. DOMAIN <<e>> = {1} /\ <<e>>[1] = e
  OBVIOUS
<1>2. CASE e \in T
  <2>1. {k \in DOMAIN <<e>> : <<e>>[k] \in T} = {1}
    BY <1>1, <1>2
  <2> QED BY <1>2, <2>1, FS_Singleton DEF Occ
<1>3. CASE e \notin T
  <2>1. {k \in DOMAIN <<e>> : <<e>>[k] \in T} = {}
    BY <1>1, <1>3
  <2> QED BY <1>3, <2>1, FS_EmptySet DEF Occ
<1> QED BY <1>2, <1>3

(* A shift keeps the size of a finite set of numbers.                      *)
LEMMA ShiftCount ==
  ASSUME NEW B \in SUBSET Nat, IsFiniteSet(B), NEW n \in Nat
  PROVE  /\ IsFiniteSet({n + b : b \in B})
         /\ Cardinality({n + b : b \in B}) = Cardinality(B)
<1> DEFINE U == {n + b : b \in B}
           f == [b \in B |-> n + b]
<1>1. f \in [B -> U] /\ \A b \in B : f[b] = n + b
  OBVIOUS
<1>2. \A a, b \in B : f[a] = f[b] => a = b
  BY <1>1
<1>3. \A u \in U : \E b \in B : f[b] = u
  OBVIOUS
<1> HIDE DEF f, U
<1>4. f \in Bijection(B, U)
  BY <1>1, <1>2, <1>3 DEF Bijection, Injection, Surjection, IsInjective
<1>5. ExistsBijection(B, U)
  BY <1>4 DEF ExistsBijection
<1>6. IsFiniteSet(U) /\ Cardinality(U) = Cardinality(B)
  BY <1>5, FS_Bijection
<1> QED BY <1>6 DEF U

LEMMA OccConcat ==
  ASSUME NEW S, NEW q \in Seq(S), NEW r \in Seq(S), NEW T
  PROVE  Occ(q \o r, T) = Occ(q, T) + Occ(r, T)
<1> DEFINE A == {k \in DOMAIN q : q[k] \in T}
           B == {k \in DOMAIN r : r[k] \in T}
           U == {Len(q) + b : b \in B}
           C == {k \in DOMAIN (q \o r) : (q \o r)[k] \in T}
<1>1. /\ DOMAIN q = 1..Len(q) /\ Len(q) \in Nat
      /\ DOMAIN r = 1..Len(r) /\ Len(r) \in Nat
  BY LenProperties
<1>2. PICK c \in Seq(S) :
        /\ c = q \o r
        /\ Len(c) = Len(q) + Len(r)
        /\ \A k \in 1..Len(q) : c[k] = q[k]
        /\ \A k \in 1..Len(r) : c[Len(q) + k] = r[k]
  <2>1. /\ q \o r \in Seq(S)
        /\ Len(q \o r) = Len(q) + Len(r)
        /\ \A k \in 1..Len(q) : (q \o r)[k] = q[k]
        /\ \A k \in 1..Len(r) : (q \o r)[Len(q) + k] = r[k]
    BY ConcatIs
  <2> QED BY <2>1, Zenon
<1>3. DOMAIN c = 1..(Len(q) + Len(r))
  BY <1>2, LenProperties
<1>4. IsFiniteSet(A) /\ IsFiniteSet(B)
  BY OccFinite
<1>5. C = A \union U
  <2>1. ASSUME NEW k \in A PROVE k \in C
    <3>1. k \in 1..Len(q) /\ k \in 1..(Len(q) + Len(r)) /\ q[k] \in T
      BY <1>1, <2>1
    <3> QED BY <1>2, <1>3, <3>1
  <2>2. ASSUME NEW k \in U PROVE k \in C
    <3>1. PICK b \in B : k = Len(q) + b
      BY <2>2
    <3>2. b \in 1..Len(r) /\ k \in 1..(Len(q) + Len(r)) /\ r[b] \in T
      BY <1>1, <3>1
    <3> QED BY <1>2, <1>3, <3>1, <3>2
  <2>3. ASSUME NEW k \in C PROVE k \in A \union U
    <3>1. k \in 1..(Len(q) + Len(r)) /\ c[k] \in T
      BY <1>2, <1>3, <2>3
    <3>2. CASE k <= Len(q)
      <4>1. k \in 1..Len(q)
        BY <1>1, <3>1, <3>2
      <4> QED BY <1>1, <1>2, <3>1, <4>1
    <3>3. CASE ~(k <= Len(q))
      <4>1. PICK b \in 1..Len(r) : k = Len(q) + b
        <5>1. k - Len(q) \in 1..Len(r) /\ k = Len(q) + (k - Len(q))
          BY <1>1, <3>1, <3>3
        <5> QED BY <5>1
      <4>2. b \in B
        BY <1>1, <1>2, <3>1, <4>1
      <4> QED BY <4>1, <4>2
    <3> QED BY <3>2, <3>3
  <2> QED BY <2>1, <2>2, <2>3
<1>6. A \intersect U = {}
  BY <1>1
<1>7. IsFiniteSet(U) /\ Cardinality(U) = Cardinality(B)
  <2>1. B \in SUBSET Nat
    BY <1>1
  <2> QED BY <1>1, <1>4, <2>1, ShiftCount
<1>8. Cardinality(C) = Cardinality(A) + Cardinality(U) - Cardinality(A \intersect U)
  BY <1>4, <1>5, <1>7, FS_Union
<1>9. Cardinality(A) \in Nat /\ Cardinality(U) \in Nat /\ Cardinality(A \intersect U) = 0
  BY <1>4, <1>6, <1>7, FS_CardinalityType, FS_EmptySet
<1> HIDE DEF A, B, C, U
<1>10. Cardinality(C) = Cardinality(A) + Cardinality(B)
  BY <1>7, <1>8, <1>9
<1> QED BY <1>10 DEF A, B, C, Occ

LEMMA OccAppend ==
  ASSUME NEW S, NEW q \in Seq(S), NEW e \in S, NEW T
  PROVE  Occ(Append(q, e), T) = Occ(q, T) + IF e \in T THEN 1 ELSE 0
<1>1. Append(q, e) = q \o <<e>> /\ <<e>> \in Seq(S)
  BY AppendIsConcat
<1>2. Occ(q \o <<e>>, T) = Occ(q, T) + Occ(<<e>>, T)
  BY <1>1, OccConcat
<1> QED BY <1>1, <1>2, OccOne

LEMMA OccTail ==
  ASSUME NEW S, NEW q \in Seq(S), q # <<>>, NEW T
  PROVE  Occ(q, T) = Occ(Tail(q), T) + IF Head(q) \in T THEN 1 ELSE 0
<1>1. Head(q) \in S /\ Tail(q) \in Seq(S) /\ <<Head(q)>> \in Seq(S)
  BY HeadTailProperties
<1>2. q = <<Head(q)>> \o Tail(q)
  <2>1. Len(q) \in 1..Len(q)
    BY EmptySeq
  <2>2. 1 \in 1..Len(q) /\ SubSeq(q, 1, Len(q)) = <<q[1]>> \o SubSeq(q, 1 + 1, Len(q))
    BY <2>1, SubSeqRecursiveFirst
  <2>3. SubSeq(q, 1, Len(q)) = q /\ Tail(q) = SubSeq(q, 2, Len(q)) /\ q[1] = Head(q)
    BY SubSeqFull, TailIsSubSeq
  <2> QED BY <2>2, <2>3
<1>3. Occ(<<Head(q)>> \o Tail(q), T) = Occ(<<Head(q)>>, T) + Occ(Tail(q), T)
  BY <1>1, OccConcat
<1>4. Occ(Tail(q), T) \in Nat
  BY <1>1, OccFinite
<1>5. Occ(<<Head(q)>>, T) = IF Head(q) \in T THEN 1 ELSE 0
  BY OccOne
<1>6. Occ(q, T) = Occ(<<Head(q)>> \o Tail(q), T)
  BY <1>2, Zenon
<1> HIDE DEF Occ
<1> QED BY <1>3, <1>4, <1>5, <1>6

(* Two sequences of one length that agree on where a thing is.             *)
LEMMA OccSame ==
  ASSUME NEW q, NEW r, NEW T, NEW U, DOMAIN q = DOMAIN r,
         \A k \in DOMAIN q : q[k] \in T <=> r[k] \in U
  PROVE  Occ(q, T) = Occ(r, U)
<1>1. {k \in DOMAIN q : q[k] \in T} = {k \in DOMAIN r : r[k] \in U}
  OBVIOUS
<1> QED BY <1>1 DEF Occ

(* Every variable stays in its range, and both steering queues respect the *)
(* limit steer_input and interrupt_turn check.                             *)
THEOREM TypeCorrect == Spec => []TypeOK
<1>1. Init => Typed
  BY TypeInit
<1>2. Typed /\ [Next]_vars => Typed'
  BY TypeStep
<1>3. Typed => TypeOK
  BY TypeParts DEF Typed
<1> QED BY <1>1, <1>2, <1>3, PTL DEF Spec

LEMMA AlwaysTyped == Spec => []Typed
<1>1. Init => Typed
  BY TypeInit
<1>2. Typed /\ [Next]_vars => Typed'
  BY TypeStep
<1> QED BY <1>1, <1>2, PTL DEF Spec
-----------------------------------------------------------------------------
(* What a step does to the places an input can be in.  Most steps leave    *)
(* them alone; three drains commit the pending steers; a continuation is   *)
(* pushed by the worker or by a command.                                   *)
Rest ==
  /\ UNCHANGED <<tasks, priority, steers, transcript, turnNo, gone, receipt,
                 promiseVars>>
  /\ task' \in {task, NoTask}
  /\ pc' \in {"begin", "hook"} => pc \in {"begin", "hook"} /\ task' = task
  /\ \A i \in Inputs : InHand(i)' = InHand(i)
  /\ accepting' => accepting /\ turn' = turn
  /\ \A i \in Inputs : (caller'[i] = "sent") = (caller[i] = "sent")

Drain ==
  /\ accepting
  /\ transcript' = Commit(steers, turn)
  /\ steers' = <<>>
  /\ pc \notin {"begin", "hook"} /\ pc' \notin {"begin", "hook"}
  /\ UNCHANGED <<tasks, priority, task, turn, accepting, turnNo, gone, receipt,
                 caller, promiseVars>>

Continue ==
  /\ tasks = <<>> /\ priority = <<>>
  /\ tasks' = <<[kind |-> "goal", id |-> Continuation]>>
  /\ pc' \in {"begin", "hook"} => pc' = pc
  /\ pc \in {"begin", "hook"} => pc' = pc
  /\ UNCHANGED <<priority, task, turn, accepting, steers, transcript, turnNo,
                 gone, receipt, caller, promiseVars>>

LEMMA Moves ==
  ASSUME Typed, [Next]_vars
  PROVE  \/ Rest \/ Drain \/ Continue
         \/ \E r \in Requests : SubmitPush(r)
         \/ \E c \in Controls : EnqueueControl(c)
         \/ \E i \in Inputs, expected \in 1..turnNo : SteerInput(i, expected)
         \/ \E i \in Inputs, expected \in 1..turnNo : InterruptTurn(i, expected)
         \/ Dequeue \/ HookBlocks \/ Prepare \/ Close
<1> USE DEF vars, queueVars, turnVars, loopVars, goalVars, callerVars, promiseVars,
        historyVars
<1>1. CASE UNCHANGED vars
  BY <1>1 DEF Rest, InHand
<1>2. ASSUME NEW r \in Requests, SubmitRead(r) \/ SubmitClear(r) PROVE Rest
  <2>1. \A i \in Inputs : (caller'[i] = "sent") = (caller[i] = "sent")
    BY <1>2 DEF SubmitRead, SubmitClear, Requests, Typed, Mapped
  <2> QED BY <1>2, <2>1 DEF Rest, InHand, SubmitRead, SubmitClear
<1>3. CASE Abort
  BY <1>3 DEF Rest, InHand, Abort
<1>4. CASE ShutdownFlag
  BY <1>4 DEF Rest, InHand, ShutdownFlag
<1>5. CASE ShutdownAbort
  BY <1>5 DEF Rest, InHand, ShutdownAbort
<1>6. CASE ShutdownJoin
  BY <1>6 DEF Rest, InHand, ShutdownJoin
<1>7. CASE GoalSet
  BY <1>7 DEF Rest, InHand, GoalSet
<1>8. CASE GoalResume
  BY <1>8 DEF Rest, InHand, GoalResume
<1>9. CASE GoalStop
  BY <1>9 DEF Rest, InHand, GoalStop
<1>10. CASE CommandRead
  BY <1>10 DEF Rest, InHand, CommandRead
<1>11. CASE CommandClear
  BY <1>11 DEF Rest, InHand, CommandClear, WithdrawAbort
<1>12. CASE CommandCheck
  BY <1>12 DEF Rest, InHand, CommandCheck
<1>13. CASE Exit
  BY <1>13 DEF Rest, InHand, Exit
<1>14. CASE Finish
  BY <1>14 DEF Rest, InHand, Finish
<1>15. CASE JobDone
  BY <1>15 DEF Rest, InHand, JobDone
<1>16. CASE LoopExit
  BY <1>16 DEF Rest, InHand, LoopExit
<1>17. CASE ResponseAborted
  BY <1>17 DEF Rest, InHand, ResponseAborted
<1>18. CASE ResponseRetry
  BY <1>18 DEF Rest, InHand, ResponseRetry
<1>19. CASE ResponseError
  BY <1>19 DEF Rest, InHand, ResponseError
<1>20. CASE ResponseFinal
  BY <1>20 DEF Rest, InHand, ResponseFinal
<1>21. CASE ResponseTools
  BY <1>21 DEF Rest, InHand, ResponseTools
<1>22. CASE BoundaryCloses
  BY <1>22 DEF Rest, InHand, BoundaryCloses
<1>23. CASE LimitCheck
  BY <1>23 DEF Rest, InHand, LimitCheck
<1>24. CASE ClaimInterrupt
  BY <1>24 DEF Rest, InHand, ClaimInterrupt
<1>25. CASE Settle
  BY <1>25 DEF Rest, InHand, Settle
<1>26. CASE Idle
  BY <1>26 DEF Rest, InHand, Idle
<1>27. CASE ContinueCheck
  BY <1>27 DEF Rest, InHand, ContinueCheck
<1>28. CASE Begin
  <2>1. task \in Tasks
    BY <1>28 DEF Typed, Ranged, Stage, Begin
  <2>2. task.kind = "job" => task.id \notin Inputs
    BY <2>1, TaskIs, ConstantsAssumption
  <2> QED BY <1>28, <2>2 DEF Rest, InHand, Begin
<1>29. CASE CommandPush
  BY <1>29 DEF Rest, Continue, InHand, CommandPush, PushContinuation
<1>30. CASE ContinuePush
  BY <1>30 DEF Rest, Continue, InHand, ContinuePush, PushContinuation
<1>31. CASE LoopError
  BY <1>31 DEF Rest, Drain, InHand, LoopError, DrainSteers
<1>32. CASE ModelCall
  BY <1>32 DEF Rest, Drain, InHand, ModelCall, DrainSteers
<1>33. CASE BoundaryCommits
  BY <1>33 DEF Drain, BoundaryCommits
<1> QED
  BY <1>1, <1>2, <1>3, <1>4, <1>5, <1>6, <1>7, <1>8, <1>9, <1>10, <1>11, <1>12, <1>13, <1>14, <1>15, <1>16, <1>17, <1>18, <1>19, <1>20, <1>21, <1>22, <1>23, <1>24, <1>25, <1>26, <1>27, <1>28, <1>29, <1>30, <1>31, <1>32, <1>33
  DEF Next, Worker, Turn, Commander, Submitter
-----------------------------------------------------------------------------
(* ExactlyOnce: the places of an input, counted.                           *)
Msg(i) == {m \in Messages : m.id = i}
Work(i) == {t \in Tasks : t.id = i}
Hand(i) == IF InHand(i) THEN 1 ELSE 0
Spent(i) == IF gone[i] # "no" THEN 1 ELSE 0
Sent(i) == IF caller[i] = "sent" THEN 1 ELSE 0

Count(i) ==
  Occ(transcript, Msg(i)) + Occ(tasks, Work(i)) + Occ(priority, Work(i))
  + Occ(steers, {i}) + Hand(i) + Spent(i)

Placed == \A i \in Inputs : Count(i) = Sent(i)

LEMMA CopiesCount ==
  ASSUME Typed, NEW i \in Inputs
  PROVE  Copies(i) = Count(i)
<1>1. /\ transcript \in Seq(Messages) /\ tasks \in Seq(Tasks)
      /\ priority \in Seq(Chats) /\ steers \in Seq(Inputs)
  BY DEF Typed, Sequenced
<1>2. Cardinality(Committed(i)) = Occ(transcript, Msg(i))
  <2>1. Committed(i) = {k \in DOMAIN transcript : transcript[k] \in Msg(i)}
    BY <1>1 DEF Committed, Msg
  <2> QED BY <2>1 DEF Occ
<1>3. Cardinality(Queued(tasks, i)) = Occ(tasks, Work(i))
  <2>1. Queued(tasks, i) = {k \in DOMAIN tasks : tasks[k] \in Work(i)}
    BY <1>1 DEF Queued, Work
  <2> QED BY <2>1 DEF Occ
<1>4. Cardinality(Queued(priority, i)) = Occ(priority, Work(i))
  <2>1. Queued(priority, i) = {k \in DOMAIN priority : priority[k] \in Work(i)}
    <3>1. \A k \in DOMAIN priority : priority[k] \in Tasks
      <4>1. \A k \in DOMAIN priority : priority[k] \in Chats
        BY <1>1
      <4> QED BY <4>1 DEF Chats, Tasks
    <3> QED BY <3>1 DEF Queued, Work
  <2> QED BY <2>1 DEF Occ
<1>5. Cardinality({k \in DOMAIN steers : steers[k] = i}) = Occ(steers, {i})
  <2>1. {k \in DOMAIN steers : steers[k] = i} = {k \in DOMAIN steers : steers[k] \in {i}}
    OBVIOUS
  <2> QED BY <2>1 DEF Occ
<1> QED BY <1>2, <1>3, <1>4, <1>5 DEF Copies, Count, Hand, Spent

LEMMA CountNats ==
  ASSUME Typed, NEW i \in Inputs
  PROVE  /\ Occ(transcript, Msg(i)) \in Nat
         /\ Occ(tasks, Work(i)) \in Nat
         /\ Occ(priority, Work(i)) \in Nat
         /\ Occ(steers, {i}) \in Nat
BY OccFinite DEF Typed, Sequenced

LEMMA CommitCount ==
  ASSUME transcript \in Seq(Messages), NEW i \in Inputs, NEW t \in Nat,
         NEW q \in Seq(Inputs \union {Continuation})
  PROVE  Occ(Commit(q, t), Msg(i)) = Occ(transcript, Msg(i)) + Occ(q, {i})
<1> DEFINE drained == [k \in DOMAIN q |-> [id |-> q[k], turn |-> t]]
<1>1. drained \in Seq(Messages)
  BY MessagesOf
<1>2. Commit(q, t) = transcript \o drained
  BY DEF Commit
<1>3. \A k \in DOMAIN q : q[k] \in {i} <=> drained[k] \in Msg(i)
  <2>1. \A k \in DOMAIN q : q[k] \in Inputs \union {Continuation}
    BY LenProperties, ElementOfSeq
  <2> QED BY <2>1 DEF Msg, Messages
<1>4. Occ(q, {i}) = Occ(drained, Msg(i))
  <2>1. DOMAIN q = DOMAIN drained
    OBVIOUS
  <2> HIDE DEF drained
  <2> QED BY <1>3, <2>1, OccSame
<1> HIDE DEF drained
<1>5. PICK d \in Seq(Messages) : d = drained
  BY <1>1
<1>6. Occ(transcript \o d, Msg(i)) = Occ(transcript, Msg(i)) + Occ(d, Msg(i))
  BY OccConcat
<1> QED BY <1>2, <1>4, <1>5, <1>6

LEMMA FollowUpsCount ==
  ASSUME NEW q \in Seq(Inputs), NEW i \in Inputs
  PROVE  Occ(FollowUps(q), Work(i)) = Occ(q, {i})
<1>1. DOMAIN FollowUps(q) = DOMAIN q
  BY DEF FollowUps
<1>2. \A k \in DOMAIN q : q[k] \in {i} <=> FollowUps(q)[k] \in Work(i)
  <2>1. \A k \in DOMAIN q : q[k] \in Inputs
    BY LenProperties, ElementOfSeq
  <2> QED BY <2>1 DEF FollowUps, Work, Tasks
<1> QED BY <1>1, <1>2, OccSame

LEMMA OccZero ==
  ASSUME NEW S, NEW q \in Seq(S), NEW T, Occ(q, T) = 0
  PROVE  {k \in DOMAIN q : q[k] \in T} = {}
<1>1. IsFiniteSet({k \in DOMAIN q : q[k] \in T})
  BY OccFinite
<1> QED BY <1>1, FS_EmptySet DEF Occ

LEMMA OccSome ==
  ASSUME NEW q \in Seq(Inputs), NEW i \in Inputs
  PROVE  Occ(q, {i}) = 0 <=> i \notin Range(q)
<1>1. IsFiniteSet({k \in DOMAIN q : q[k] \in {i}})
  BY OccFinite
<1>2. {k \in DOMAIN q : q[k] \in {i}} = {} <=> i \notin Range(q)
  BY DEF Range
<1> QED BY <1>1, <1>2, FS_EmptySet DEF Occ

LEMMA PlacedInit == Init => Placed
<1> SUFFICES ASSUME Init, NEW i \in Inputs PROVE Count(i) = Sent(i)
  BY DEF Placed
<1>1. /\ Occ(transcript, Msg(i)) = 0 /\ Occ(tasks, Work(i)) = 0
      /\ Occ(priority, Work(i)) = 0 /\ Occ(steers, {i}) = 0
  BY OccEmpty DEF Init
<1>2. Hand(i) = 0 /\ Spent(i) = 0 /\ Sent(i) = 0
  BY DEF Init, Hand, InHand, Spent, Sent, Requests
<1> QED BY <1>1, <1>2 DEF Count

LEMMA PlacedStep ==
  ASSUME Typed, Typed', Placed, [Next]_vars
  PROVE  Placed'
<1> SUFFICES ASSUME NEW i \in Inputs PROVE Count(i)' = Sent(i)'
  BY DEF Placed
<1>0. Count(i) = Sent(i)
  BY DEF Placed
<1>n. PICK tr, ta, pr, st \in Nat :
        /\ tr = Occ(transcript, Msg(i)) /\ ta = Occ(tasks, Work(i))
        /\ pr = Occ(priority, Work(i)) /\ st = Occ(steers, {i})
  BY CountNats
<1>m. PICK h, p, s \in 0..1 : h = Hand(i) /\ p = Spent(i) /\ s = Sent(i)
  BY DEF Hand, Spent, Sent
<1>t. /\ transcript \in Seq(Messages) /\ tasks \in Seq(Tasks)
      /\ priority \in Seq(Chats) /\ steers \in Seq(Inputs)
      /\ steers \in Seq(Inputs \union {Continuation}) /\ turn \in Nat /\ turnNo \in Nat
  BY SeqMonotonic DEF Typed, Sequenced, Ranged
<1>s. tr + ta + pr + st + h + p = s
  BY <1>0, <1>n, <1>m DEF Count
<1>d. i \notin Controls /\ i \notin Jobs /\ i # Continuation
  BY ConstantsAssumption
<1> USE DEF promiseVars
<1>1. CASE Rest
  <2>1. UNCHANGED <<transcript, tasks, priority, steers>>
    BY <1>1 DEF Rest
  <2>2. Hand(i)' = h /\ Spent(i)' = p /\ Sent(i)' = s
    BY <1>m, <1>1 DEF Rest, Hand, Spent, Sent
  <2>3. Count(i)' = tr + ta + pr + st + h + p
    BY <1>n, <2>1, <2>2 DEF Count
  <2> QED BY <1>s, <2>2, <2>3
<1>2. CASE Drain
  <2>1. Occ(transcript', Msg(i)) = tr + st
    BY <1>n, <1>2, <1>t, CommitCount DEF Drain
  <2>2. Occ(steers', {i}) = 0
    BY <1>2, OccEmpty DEF Drain
  <2>3. Hand(i)' = h /\ Spent(i)' = p /\ Sent(i)' = s
    BY <1>m, <1>2 DEF Drain, Hand, InHand, Spent, Sent
  <2>4. UNCHANGED <<tasks, priority>>
    BY <1>2 DEF Drain
  <2>5. Count(i)' = (tr + st) + ta + pr + 0 + h + p
    BY <1>n, <2>1, <2>2, <2>3, <2>4 DEF Count
  <2>6. (tr + st) + ta + pr + 0 + h + p = s
    BY <1>s
  <2> QED BY <2>3, <2>5, <2>6
<1>3. CASE Continue
  <2>1. Occ(tasks', Work(i)) = 0
    <3>1. [kind |-> "goal", id |-> Continuation] \notin Work(i)
      BY <1>d DEF Work
    <3> QED BY <1>3, <3>1, OccOne DEF Continue
  <2>2. ta = 0
    BY <1>n, <1>3, OccEmpty DEF Continue
  <2>3. Hand(i)' = h /\ Spent(i)' = p /\ Sent(i)' = s
    BY <1>m, <1>3 DEF Continue, Hand, InHand, Spent, Sent
  <2>4. UNCHANGED <<transcript, priority, steers>>
    BY <1>3 DEF Continue
  <2>5. Count(i)' = tr + ta + pr + st + h + p
    BY <1>n, <2>1, <2>2, <2>3, <2>4 DEF Count
  <2> QED BY <1>s, <2>3, <2>5
<1>4. ASSUME NEW r \in Requests, SubmitPush(r) PROVE Count(i)' = Sent(i)'
  <2> DEFINE new == [kind |-> IF r \in Jobs THEN "job" ELSE "chat", id |-> r]
  <2>0. PICK n \in 0..1 : n = IF r = i THEN 1 ELSE 0
    OBVIOUS
  <2>1. new \in Tasks /\ (new \in Work(i) <=> r = i)
    BY <1>d DEF Requests, Tasks, Work
  <2>2. tasks' = Append(tasks, new)
    BY <1>4 DEF SubmitPush
  <2> HIDE DEF new
  <2>3. Occ(tasks', Work(i)) = ta + n
    BY <1>n, <1>t, <2>0, <2>1, <2>2, OccAppend
  <2>4. Hand(i)' = h /\ Spent(i)' = p
    BY <1>m, <1>4 DEF SubmitPush, Hand, InHand, Spent, historyVars
  <2>5. Sent(i)' = s + n
    BY <1>m, <1>4, <2>0 DEF SubmitPush, Sent, Typed, Mapped, Requests
  <2>6. UNCHANGED <<transcript, priority, steers>>
    BY <1>4 DEF SubmitPush, historyVars, turnVars
  <2>7. Count(i)' = tr + (ta + n) + pr + st + h + p
    BY <1>n, <2>3, <2>4, <2>6 DEF Count
  <2>8. tr + (ta + n) + pr + st + h + p = s + n
    BY <1>s
  <2> QED BY <2>5, <2>7, <2>8
<1>5. ASSUME NEW c \in Controls, EnqueueControl(c) PROVE Count(i)' = Sent(i)'
  <2> DEFINE new == [kind |-> "control", id |-> c]
  <2>1. new \in Tasks /\ new \notin Work(i)
    BY <1>d DEF Tasks, Work
  <2>2. tasks' = Append(tasks, new)
    BY <1>5 DEF EnqueueControl
  <2> HIDE DEF new
  <2>3. Occ(tasks', Work(i)) = ta
    BY <1>t, <1>n, <2>1, <2>2, OccAppend
  <2>4. Hand(i)' = h /\ Spent(i)' = p /\ Sent(i)' = s
    BY <1>m, <1>5 DEF EnqueueControl, Hand, InHand, Spent, Sent, historyVars
  <2>5. UNCHANGED <<transcript, priority, steers>>
    BY <1>5 DEF EnqueueControl, historyVars, turnVars
  <2>6. Count(i)' = tr + ta + pr + st + h + p
    BY <1>n, <2>3, <2>4, <2>5 DEF Count
  <2> QED BY <1>s, <2>4, <2>6
<1>6. ASSUME NEW j \in Inputs, NEW expected \in 1..turnNo, SteerInput(j, expected)
      PROVE  Count(i)' = Sent(i)'
  <2>0. PICK n \in 0..1 : n = IF j = i THEN 1 ELSE 0
    OBVIOUS
  <2>1. Occ(steers', {i}) = st + n
    BY <1>n, <2>0, <1>6, <1>t, OccAppend DEF SteerInput
  <2>2. Hand(i)' = h /\ Spent(i)' = p
    BY <1>m, <1>6 DEF SteerInput, Hand, InHand, Spent, historyVars
  <2>3. Sent(i)' = s + n
    BY <1>m, <2>0, <1>6 DEF SteerInput, Expects, Promise, Sent, Typed, Mapped, Requests
  <2>4. UNCHANGED <<transcript, tasks, priority>>
    BY <1>6 DEF SteerInput, historyVars, queueVars
  <2>5. Count(i)' = tr + ta + pr + (st + n) + h + p
    BY <1>n, <2>1, <2>2, <2>4 DEF Count
  <2>6. tr + ta + pr + (st + n) + h + p = s + n
    BY <1>s
  <2> QED BY <2>3, <2>5, <2>6
<1>7. ASSUME NEW j \in Inputs, NEW expected \in 1..turnNo, InterruptTurn(j, expected)
      PROVE  Count(i)' = Sent(i)'
  <2>0. PICK n \in 0..1 : n = IF j = i THEN 1 ELSE 0
    OBVIOUS
  <2>1. PICK q \in Seq(Inputs) : q = Append(steers, j) /\ Occ(q, {i}) = st + n
    <3>1. Append(steers, j) \in Seq(Inputs)
      BY <1>t, AppendProperties
    <3>2. Occ(Append(steers, j), {i}) = st + n
      BY <1>n, <1>t, <2>0, OccAppend
    <3> QED BY <3>1, <3>2
  <2>2. PICK f \in Seq(Chats) : f = FollowUps(q) /\ Occ(f, Work(i)) = st + n
    BY <2>1, FollowUpsIs, FollowUpsCount
  <2>3. Occ(priority', Work(i)) = pr + (st + n)
    <3>1. priority' = priority \o f
      BY <1>7, <2>1, <2>2 DEF InterruptTurn
    <3>2. Occ(priority \o f, Work(i)) = Occ(priority, Work(i)) + Occ(f, Work(i))
      BY <1>t, OccConcat
    <3> QED BY <1>n, <2>2, <3>1, <3>2
  <2>4. Occ(steers', {i}) = 0
    BY <1>7, OccEmpty DEF InterruptTurn
  <2>5. Hand(i)' = h /\ Spent(i)' = p
    BY <1>m, <1>7 DEF InterruptTurn, Hand, InHand, Spent, historyVars
  <2>6. Sent(i)' = s + n
    BY <1>m, <2>0, <1>7 DEF InterruptTurn, Expects, Promise, Sent, Typed, Mapped, Requests
  <2>7. UNCHANGED <<transcript, tasks>>
    BY <1>7 DEF InterruptTurn, historyVars
  <2>8. Count(i)' = tr + ta + (pr + (st + n)) + 0 + h + p
    BY <1>n, <2>3, <2>4, <2>5, <2>7 DEF Count
  <2>9. tr + ta + (pr + (st + n)) + 0 + h + p = s + n
    BY <1>s
  <2> QED BY <2>6, <2>8, <2>9
<1>8. CASE Dequeue
  <2>1. h = 0 /\ Spent(i)' = p /\ Sent(i)' = s
        /\ UNCHANGED <<transcript, steers>>
    BY <1>m, <1>8 DEF Dequeue, Hand, InHand, Spent, Sent, historyVars, callerVars, turnVars
  <2>2. Hand(i)' = IF task' \in Work(i) THEN 1 ELSE 0
    <3>1. task' \in Tasks
      BY <1>8, TaskIs DEF Typed, Stage, Ranged, Dequeue
    <3>2. task'.kind = "control" => task'.id \in Controls
      BY <3>1, TaskIs
    <3>3. pc' = IF task'.kind = "control" THEN "finish" ELSE "begin"
      BY <1>8 DEF Dequeue
    <3>4. InHand(i)' <=> task' \in Work(i)
      BY <1>d, <3>1, <3>2, <3>3 DEF InHand, Work
    <3> QED BY <3>4 DEF Hand
  <2>n. PICK n \in 0..1 : n = IF task' \in Work(i) THEN 1 ELSE 0
    OBVIOUS
  <2>3. CASE priority # <<>> /\ task' = Head(priority) /\ priority' = Tail(priority)
             /\ UNCHANGED tasks
    <3>1. PICK x \in Nat : x = Occ(priority', Work(i)) /\ pr = x + n
      <4>1. priority' \in Seq(Chats)
        BY <1>t, <2>3, HeadTailProperties
      <4>2. Occ(priority', Work(i)) \in Nat
        BY <4>1, OccFinite
      <4>3. Occ(priority, Work(i)) = Occ(Tail(priority), Work(i)) + IF Head(priority) \in Work(i) THEN 1 ELSE 0
        BY <1>t, <2>3, OccTail
      <4> QED BY <1>n, <2>n, <2>3, <4>2, <4>3
    <3>2. Count(i)' = tr + ta + x + st + n + p
      BY <1>n, <2>1, <2>2, <2>n, <2>3, <3>1 DEF Count
    <3>3. tr + ta + x + st + n + p = s
      BY <1>s, <2>1, <3>1
    <3> QED BY <2>1, <3>2, <3>3
  <2>4. CASE tasks # <<>> /\ task' = Head(tasks) /\ tasks' = Tail(tasks)
             /\ UNCHANGED priority
    <3>1. PICK x \in Nat : x = Occ(tasks', Work(i)) /\ ta = x + n
      <4>1. tasks' \in Seq(Tasks)
        BY <1>t, <2>4, HeadTailProperties
      <4>2. Occ(tasks', Work(i)) \in Nat
        BY <4>1, OccFinite
      <4>3. Occ(tasks, Work(i)) = Occ(Tail(tasks), Work(i)) + IF Head(tasks) \in Work(i) THEN 1 ELSE 0
        BY <1>t, <2>4, OccTail
      <4> QED BY <1>n, <2>n, <2>4, <4>2, <4>3
    <3>2. Count(i)' = tr + x + pr + st + n + p
      BY <1>n, <2>1, <2>2, <2>n, <2>4, <3>1 DEF Count
    <3>3. tr + x + pr + st + n + p = s
      BY <1>s, <2>1, <3>1
    <3> QED BY <2>1, <3>2, <3>3
  <2> QED BY <1>8, <2>3, <2>4 DEF Dequeue
<1>9. CASE HookBlocks
  <2>1. UNCHANGED <<transcript, tasks, priority, steers>> /\ Sent(i)' = s /\ Hand(i)' = 0
    BY <1>m, <1>9 DEF HookBlocks, Hand, InHand, Sent, queueVars, turnVars, callerVars
  <2>2. task.id \in Inputs
    BY <1>9, TaskIs DEF HookBlocks, Typed, Ranged, Stage
  <2>3. h = IF task.id = i THEN 1 ELSE 0
    BY <1>m, <1>9 DEF HookBlocks, Hand, InHand
  <2>n. PICK n \in 0..1 : n = IF task.id = i THEN 1 ELSE p
    OBVIOUS
  <2>4. Spent(i)' = n
    BY <1>m, <1>9, <2>2, <2>n DEF HookBlocks, Spent, Typed, Mapped
  <2>5. Count(i)' = tr + ta + pr + st + 0 + n
    BY <1>n, <2>1, <2>4 DEF Count
  <2>6. tr + ta + pr + st + 0 + n = s
    BY <1>s, <2>3, <2>n
  <2> QED BY <2>1, <2>5, <2>6
<1>10. CASE Prepare
  <2>1. UNCHANGED <<tasks, priority>> /\ Sent(i)' = s /\ Hand(i)' = 0
        /\ Spent(i)' = p
    BY <1>m, <1>10 DEF Prepare, Hand, InHand, Spent, Sent, queueVars, callerVars
  <2>2. task.id \in Inputs \union {Continuation}
    <3>1. task \in Tasks /\ task.kind \in {"chat", "goal"}
      BY <1>10, TaskIs DEF Prepare, Typed, Ranged, Stage, Turning, Kinds
    <3> QED BY <3>1, TaskIs
  <2>3. <<task.id>> \in Seq(Inputs \union {Continuation}) /\ turnNo + 1 \in Nat
    BY <1>t, <2>2
  <2>4. Occ(transcript', Msg(i)) = tr + Occ(<<task.id>>, {i})
    BY <1>n, <1>10, <1>t, <2>3, CommitCount DEF Prepare
  <2>5. h = Occ(<<task.id>>, {i})
    BY <1>m, <1>10, OccOne DEF Prepare, Hand, InHand
  <2>6. st = 0 /\ Occ(steers', {i}) = 0
    <3>1. steers = <<>> /\ steers' = <<>>
      BY <1>10 DEF Prepare, Typed, Stage, Turning
    <3> QED BY <1>n, <3>1, OccEmpty
  <2>7. Count(i)' = (tr + h) + ta + pr + 0 + 0 + p
    BY <1>n, <2>1, <2>4, <2>5, <2>6 DEF Count
  <2>8. (tr + h) + ta + pr + 0 + 0 + p = s
    BY <1>s, <2>6
  <2> QED BY <2>1, <2>7, <2>8
<1>11. CASE Close
  <2>1. UNCHANGED <<transcript, tasks, priority>> /\ Sent(i)' = s
        /\ Hand(i)' = 0 /\ h = 0
    BY <1>m, <1>11 DEF Close, Hand, InHand, Sent, queueVars, callerVars
  <2>2. Occ(steers', {i}) = 0
    BY <1>11, OccEmpty DEF Close
  <2>n. PICK n \in 0..1 : n = IF i \in Range(steers) THEN 1 ELSE p
    OBVIOUS
  <2>3. Spent(i)' = n
    BY <1>m, <1>11, <2>n DEF Close, Spent, Typed, Mapped
  <2>4. st = 0 <=> i \notin Range(steers)
    BY <1>n, <1>t, OccSome
  <2>5. Count(i)' = tr + ta + pr + 0 + 0 + n
    BY <1>n, <2>1, <2>2, <2>3 DEF Count
  <2>6. tr + ta + pr + 0 + 0 + n = s
    BY <1>s, <2>1, <2>4, <2>n
  <2> QED BY <2>1, <2>5, <2>6
<1> QED BY <1>1, <1>2, <1>3, <1>4, <1>5, <1>6, <1>7, <1>8, <1>9, <1>10, <1>11, Moves

LEMMA AlwaysPlaced == Spec => [](Typed /\ Placed)
<1>1. Typed /\ Typed' /\ Placed /\ [Next]_vars => Placed'
  BY PlacedStep
<1> QED BY <1>1, AlwaysTyped, PlacedInit, PTL DEF Spec

(* An input that was submitted, steered or used to interrupt is in exactly *)
(* one place from then on, whatever the number of inputs, steers and turns. *)
THEOREM ExactlyOnceCorrect == Spec => []ExactlyOnce
<1>1. Typed /\ Placed => ExactlyOnce
  BY CopiesCount DEF Placed, ExactlyOnce, Sent
<1> QED BY <1>1, AlwaysPlaced, PTL
-----------------------------------------------------------------------------
(* What a sequence holds.                                                  *)
LEMMA RangeEmpty == Range(<<>>) = {}
BY DEF Range

LEMMA RangeAppend ==
  ASSUME NEW S, NEW q \in Seq(S), NEW e \in S
  PROVE  Range(Append(q, e)) = Range(q) \union {e}
<1> DEFINE a == Append(q, e)
<1>1. /\ DOMAIN q = 1..Len(q) /\ Len(q) \in Nat
      /\ a \in Seq(S) /\ Len(a) = Len(q) + 1
      /\ \A k \in 1..Len(q) : a[k] = q[k]
      /\ a[Len(q) + 1] = e
  BY AppendProperties, LenProperties
<1>2. DOMAIN a = 1..(Len(q) + 1)
  BY <1>1, LenProperties
<1> HIDE DEF a
<1>3. \A k \in DOMAIN a : a[k] \in Range(q) \union {e}
  <2> TAKE k \in DOMAIN a
  <2>1. k \in 1..Len(q) \/ k = Len(q) + 1
    BY <1>1, <1>2
  <2> QED BY <1>1, <2>1 DEF Range
<1>4. \A k \in DOMAIN q : q[k] \in Range(a)
  <2> TAKE k \in DOMAIN q
  <2>1. k \in DOMAIN a
    BY <1>1, <1>2
  <2> QED BY <1>1, <2>1 DEF Range
<1>5. e \in Range(a)
  <2>1. Len(q) + 1 \in DOMAIN a
    BY <1>1, <1>2
  <2> QED BY <1>1, <2>1 DEF Range
<1>6. Range(a) = Range(q) \union {e}
  BY <1>3, <1>4, <1>5 DEF Range
<1> QED BY <1>6 DEF a

LEMMA RangeConcat ==
  ASSUME NEW S, NEW q \in Seq(S), NEW r \in Seq(S)
  PROVE  Range(q \o r) = Range(q) \union Range(r)
BY RangeConcatenation

LEMMA RangeTail ==
  ASSUME NEW S, NEW q \in Seq(S), q # <<>>
  PROVE  Range(q) = Range(Tail(q)) \union {Head(q)}
<1> DEFINE t == Tail(q)
<1>1. /\ DOMAIN q = 1..Len(q) /\ Len(q) \in Nat \ {0}
      /\ t \in Seq(S) /\ Len(t) = Len(q) - 1
      /\ \A k \in 1..Len(t) : t[k] = q[k + 1]
      /\ Head(q) = q[1]
  BY HeadTailProperties, LenProperties, EmptySeq
<1>2. DOMAIN t = 1..(Len(q) - 1)
  BY <1>1, LenProperties
<1> HIDE DEF t
<1>3. \A k \in DOMAIN t : t[k] \in Range(q)
  <2> TAKE k \in DOMAIN t
  <2>1. k + 1 \in DOMAIN q
    BY <1>1, <1>2
  <2> QED BY <1>1, <1>2, <2>1 DEF Range
<1>4. \A k \in DOMAIN q : q[k] \in Range(t) \union {Head(q)}
  <2> TAKE k \in DOMAIN q
  <2>1. CASE k = 1
    BY <1>1, <2>1
  <2>2. CASE k # 1
    <3>1. k - 1 \in DOMAIN t /\ (k - 1) + 1 = k
      BY <1>1, <1>2, <2>2
    <3>2. t[k - 1] = q[k]
      BY <1>1, <1>2, <3>1
    <3> QED BY <3>1, <3>2 DEF Range
  <2> QED BY <2>1, <2>2
<1>5. Head(q) \in Range(q)
  <2>1. 1 \in DOMAIN q
    BY <1>1
  <2> QED BY <1>1, <2>1 DEF Range
<1>6. Range(q) = Range(t) \union {Head(q)}
  BY <1>3, <1>4, <1>5 DEF Range
<1> QED BY <1>6 DEF t

LEMMA RangeFollowUps ==
  ASSUME NEW q \in Seq(Inputs)
  PROVE  Range(FollowUps(q)) = {[kind |-> "chat", id |-> i] : i \in Range(q)}
BY DEF FollowUps, Range

(* What a drain or a new turn adds to the transcript.                      *)
LEMMA CommitCases ==
  ASSUME transcript \in Seq(Messages),
         NEW q \in Seq(Inputs \union {Continuation}), NEW t \in Nat
  PROVE  /\ DOMAIN transcript \subseteq DOMAIN Commit(q, t)
         /\ \A k \in DOMAIN transcript : Commit(q, t)[k] = transcript[k]
         /\ \A k \in DOMAIN Commit(q, t) :
              \/ k \in DOMAIN transcript
              \/ Commit(q, t)[k].id \in Range(q) /\ Commit(q, t)[k].turn = t
<1>1. PICK c \in Seq(Messages) :
        /\ c = Commit(q, t)
        /\ Len(c) = Len(transcript) + Len(q)
        /\ \A k \in 1..Len(transcript) : c[k] = transcript[k]
        /\ \A k \in 1..Len(q) : c[Len(transcript) + k] = [id |-> q[k], turn |-> t]
  BY CommitIs
<1>2. /\ DOMAIN transcript = 1..Len(transcript) /\ Len(transcript) \in Nat
      /\ DOMAIN q = 1..Len(q) /\ Len(q) \in Nat
  BY LenProperties
<1>3. DOMAIN c = 1..(Len(transcript) + Len(q))
  BY <1>1, LenProperties
<1>4. \A k \in DOMAIN c :
        \/ k \in DOMAIN transcript
        \/ c[k].id \in Range(q) /\ c[k].turn = t
  <2> TAKE k \in DOMAIN c
  <2>1. CASE k <= Len(transcript)
    BY <1>2, <1>3, <2>1
  <2>2. CASE ~(k <= Len(transcript))
    <3>1. PICK m \in 1..Len(q) : k = Len(transcript) + m
      <4>1. k - Len(transcript) \in 1..Len(q) /\ k = Len(transcript) + (k - Len(transcript))
        BY <1>2, <1>3, <2>2
      <4> QED BY <4>1
    <3>2. c[k] = [id |-> q[m], turn |-> t]
      BY <1>1, <3>1
    <3>3. q[m] \in Range(q)
      BY <1>2, <3>1 DEF Range
    <3> QED BY <3>2, <3>3
  <2> QED BY <2>1, <2>2
<1>5. DOMAIN transcript \subseteq DOMAIN c
  BY <1>2, <1>3
<1> QED BY <1>1, <1>2, <1>4, <1>5

(* An input nobody has sent is nowhere.                                    *)
LEMMA Nowhere ==
  ASSUME Typed, Placed, NEW i \in Inputs, caller[i] # "sent"
  PROVE  /\ Committed(i) = {} /\ i \notin Range(steers)
         /\ \A t \in Range(tasks) \union Range(priority) : t.id # i
         /\ ~InHand(i) /\ gone[i] = "no"
<1>1. PICK tr, ta, pr, st \in Nat :
        /\ tr = Occ(transcript, Msg(i)) /\ ta = Occ(tasks, Work(i))
        /\ pr = Occ(priority, Work(i)) /\ st = Occ(steers, {i})
  BY CountNats
<1>2. PICK h, p \in 0..1 : h = Hand(i) /\ p = Spent(i)
  BY DEF Hand, Spent
<1>3. tr + ta + pr + st + h + p = 0
  BY <1>1, <1>2 DEF Placed, Count, Sent
<1>4. tr = 0 /\ ta = 0 /\ pr = 0 /\ st = 0 /\ h = 0 /\ p = 0
  BY <1>3
<1>t. /\ transcript \in Seq(Messages) /\ tasks \in Seq(Tasks)
      /\ priority \in Seq(Chats) /\ steers \in Seq(Inputs)
  BY DEF Typed, Sequenced
<1>5. Committed(i) = {}
  <2>1. {k \in DOMAIN transcript : transcript[k] \in Msg(i)} = {}
    BY <1>1, <1>4, <1>t, OccZero
  <2> QED BY <1>t, <2>1 DEF Committed, Msg
<1>6. \A t \in Range(tasks) : t.id # i
  <2>1. {k \in DOMAIN tasks : tasks[k] \in Work(i)} = {}
    BY <1>1, <1>4, <1>t, OccZero
  <2> QED BY <1>t, <2>1 DEF Range, Work
<1>7. \A t \in Range(priority) : t.id # i
  <2>1. {k \in DOMAIN priority : priority[k] \in Work(i)} = {}
    BY <1>1, <1>4, <1>t, OccZero
  <2>2. \A k \in DOMAIN priority : priority[k] \in Tasks
    <3>1. \A k \in DOMAIN priority : priority[k] \in Chats
      BY <1>t
    <3> QED BY <3>1 DEF Chats, Tasks
  <2> QED BY <2>1, <2>2 DEF Range, Work
<1>8. i \notin Range(steers)
  BY <1>1, <1>4, <1>t, OccSome
<1> QED BY <1>2, <1>4, <1>5, <1>6, <1>7, <1>8 DEF Hand, Spent
-----------------------------------------------------------------------------
(* Promises.  Steers and the inputs of an interrupt were accepted, and the *)
(* worker begins nothing else while some of them wait.                     *)
Promised ==
  /\ Range(steers) \subseteq Range(accepted)
  /\ \A t \in Range(priority) : t.id \in Range(accepted)
  /\ pc \in {"begin", "hook"} /\ priority # <<>> => task.id \in Range(accepted)

LEMMA PromisedInit == Init => Promised
BY RangeEmpty DEF Init, Promised

LEMMA PromisedStep ==
  ASSUME Typed, Typed', Promised, [Next]_vars
  PROVE  Promised'
<1>t. /\ transcript \in Seq(Messages) /\ tasks \in Seq(Tasks)
      /\ priority \in Seq(Chats) /\ steers \in Seq(Inputs) /\ accepted \in Seq(Inputs)
  BY DEF Typed, Sequenced
<1> USE DEF promiseVars, queueVars, turnVars, historyVars, callerVars
<1>1. CASE Rest
  BY <1>1 DEF Rest, Promised
<1>2. CASE Drain
  BY <1>2, RangeEmpty DEF Drain, Promised
<1>3. CASE Continue
  BY <1>3 DEF Continue, Promised
<1>4. ASSUME NEW r \in Requests, SubmitPush(r) PROVE Promised'
  BY <1>4 DEF SubmitPush, Promised
<1>5. ASSUME NEW c \in Controls, EnqueueControl(c) PROVE Promised'
  BY <1>5 DEF EnqueueControl, Promised
<1>6. ASSUME NEW i \in Inputs, NEW expected \in 1..turnNo, SteerInput(i, expected)
      PROVE  Promised'
  <2>1. Range(steers') = Range(steers) \union {i} /\ Range(accepted') = Range(accepted) \union {i}
    BY <1>6, <1>t, RangeAppend DEF SteerInput, Promise
  <2>2. UNCHANGED <<priority, pc, task>>
    BY <1>6 DEF SteerInput
  <2> QED BY <2>1, <2>2 DEF Promised
<1>7. ASSUME NEW i \in Inputs, NEW expected \in 1..turnNo, InterruptTurn(i, expected)
      PROVE  Promised'
  <2>1. Range(accepted') = Range(accepted) \union {i}
    BY <1>7, <1>t, RangeAppend DEF InterruptTurn, Promise
  <2>2. PICK q \in Seq(Inputs) : q = Append(steers, i) /\ Range(q) = Range(steers) \union {i}
    <3>1. Append(steers, i) \in Seq(Inputs)
      BY <1>t, AppendProperties
    <3>2. Range(Append(steers, i)) = Range(steers) \union {i}
      BY <1>t, RangeAppend
    <3> QED BY <3>1, <3>2
  <2>3. PICK f \in Seq(Chats) :
          f = FollowUps(q) /\ Range(f) = {[kind |-> "chat", id |-> j] : j \in Range(q)}
    BY FollowUpsIs, RangeFollowUps
  <2>4. Range(priority') = Range(priority) \union Range(f)
    <3>1. priority' = priority \o f
      BY <1>7, <2>2, <2>3 DEF InterruptTurn
    <3> QED BY <1>t, <3>1, RangeConcat
  <2>5. Range(steers') = {}
    BY <1>7, RangeEmpty DEF InterruptTurn
  <2>6. pc' \notin {"begin", "hook"}
    BY <1>7 DEF InterruptTurn, Expects, Typed, Stage, Turning
  <2> QED BY <2>1, <2>2, <2>3, <2>4, <2>5, <2>6 DEF Promised
<1>8. CASE Dequeue
  <2>1. UNCHANGED <<steers, accepted>>
    BY <1>8 DEF Dequeue
  <2>2. CASE priority # <<>> /\ task' = Head(priority) /\ priority' = Tail(priority)
    <3>1. Range(priority) = Range(priority') \union {task'}
      BY <1>t, <2>2, RangeTail
    <3> QED BY <2>1, <3>1 DEF Promised
  <2>3. CASE priority = <<>> /\ UNCHANGED priority
    BY <2>1, <2>3 DEF Promised
  <2> QED BY <1>8, <2>2, <2>3 DEF Dequeue
<1>9. CASE HookBlocks
  BY <1>9 DEF HookBlocks, Promised
<1>10. CASE Prepare
  BY <1>10, RangeEmpty DEF Prepare, Promised
<1>11. CASE Close
  BY <1>11, RangeEmpty DEF Close, Promised
<1> QED BY <1>1, <1>2, <1>3, <1>4, <1>5, <1>6, <1>7, <1>8, <1>9, <1>10, <1>11, Moves

(* The step itself: what is committed while promised inputs wait.          *)
LEMMA PromisedCommit ==
  ASSUME Typed, Promised, [Next]_vars, priority # <<>>,
         NEW k \in DOMAIN transcript' \ DOMAIN transcript
  PROVE  transcript'[k].id \in Range(accepted)
<1>t. /\ transcript \in Seq(Messages)
      /\ steers \in Seq(Inputs \union {Continuation}) /\ turn \in Nat /\ turnNo + 1 \in Nat
  BY SeqMonotonic DEF Typed, Sequenced, Ranged
<1>1. CASE Drain
  <2>1. transcript'[k].id \in Range(steers)
    BY <1>1, <1>t, CommitCases DEF Drain
  <2> QED BY <2>1 DEF Promised
<1>2. CASE Prepare
  <2>1. task.id \in Range(accepted)
    BY <1>2 DEF Prepare, Promised
  <2>2. <<task.id>> \in Seq(Inputs \union {Continuation}) /\ Range(<<task.id>>) = {task.id}
    <3>1. task.id \in Inputs
      BY <2>1, RangeOfSeq DEF Typed, Sequenced
    <3> QED BY <3>1 DEF Range
  <2>3. transcript'[k].id \in Range(<<task.id>>)
    BY <1>2, <1>t, <2>2, CommitCases DEF Prepare
  <2> QED BY <2>1, <2>2, <2>3
<1>3. CASE UNCHANGED transcript
  BY <1>3
<1> QED
  BY <1>1, <1>2, <1>3, Moves
  DEF Rest, Continue, SubmitPush, EnqueueControl, SteerInput, InterruptTurn,
      Dequeue, HookBlocks, Close, historyVars

(* While an input promised by interrupt_turn waits, nothing is committed   *)
(* but inputs that steering or interrupting accepted.                      *)
THEOREM PromisedCorrect == Spec => PromisedRunFirst
<1>1. Typed /\ Typed' /\ Promised /\ [Next]_vars => Promised'
  BY PromisedStep
<1>2. Typed /\ Promised /\ [Next]_vars =>
        [priority # <<>> =>
           \A k \in DOMAIN transcript' \ DOMAIN transcript :
             transcript'[k].id \in Range(accepted)]_vars
  BY PromisedCommit
<1> QED BY <1>1, <1>2, AlwaysTyped, PromisedInit, PTL DEF Spec, PromisedRunFirst
-----------------------------------------------------------------------------
(* Receipts.  A control request that was told it is behind no turn has     *)
(* only control requests before it; the worker may be running one.         *)
Told == \A t \in Range(tasks) : t.kind = "control" => receipt[t.id] # "none"

Receipts == Told /\ ReceiptHolds

LEMMA ReceiptsInit == Init => Receipts
BY RangeEmpty DEF Init, Receipts, Told, ReceiptHolds

LEMMA ReceiptsStep ==
  ASSUME Typed, Typed', Receipts, [Next]_vars
  PROVE  Receipts'
<1>t. /\ tasks \in Seq(Tasks) /\ priority \in Seq(Chats) /\ steers \in Seq(Inputs)
      /\ DOMAIN tasks = 1..Len(tasks) /\ Len(tasks) \in Nat
  BY LenProperties DEF Typed, Sequenced
<1> USE DEF promiseVars, queueVars, turnVars, historyVars, callerVars
<1>0. ASSUME UNCHANGED <<tasks, receipt>>, priority' = <<>> \/ UNCHANGED priority,
             task' \in {task, NoTask} \/ task'.kind = "control"
      PROVE  Receipts'
  BY <1>0 DEF Receipts, Told, ReceiptHolds
<1>1. CASE Rest
  BY <1>0, <1>1 DEF Rest
<1>2. CASE Drain
  BY <1>0, <1>2 DEF Drain
<1>3. CASE Continue
  <2>1. Range(tasks') = {[kind |-> "goal", id |-> Continuation]}
    BY <1>3 DEF Continue, Range
  <2>2. DOMAIN tasks' = {1} /\ tasks'[1].kind # "control"
    BY <1>3 DEF Continue
  <2> QED BY <2>1, <2>2 DEF Receipts, Told, ReceiptHolds
<1>4. ASSUME NEW r \in Requests, SubmitPush(r) PROVE Receipts'
  <2>1. PICK new \in Tasks : tasks' = Append(tasks, new) /\ new.kind # "control"
    <3>1. [kind |-> IF r \in Jobs THEN "job" ELSE "chat", id |-> r] \in Tasks
      BY DEF Requests, Tasks
    <3> QED BY <1>4, <3>1 DEF SubmitPush
  <2>2. UNCHANGED <<receipt, priority, task>>
    BY <1>4 DEF SubmitPush
  <2>3. Told'
    <3>1. Range(tasks') = Range(tasks) \union {new}
      BY <1>t, <2>1, RangeAppend
    <3> QED BY <2>1, <2>2, <3>1 DEF Receipts, Told
  <2>4. /\ DOMAIN tasks' = 1..(Len(tasks) + 1)
        /\ \A k \in 1..Len(tasks) : tasks'[k] = tasks[k]
        /\ tasks'[Len(tasks) + 1] = new
    BY <1>t, <2>1, AppendProperties, LenProperties
  <2>5. \A k \in DOMAIN tasks' : tasks'[k].kind = "control" =>
          k \in DOMAIN tasks /\ tasks'[k] = tasks[k]
                             /\ \A j \in 1..(k - 1) : tasks'[j] = tasks[j]
    BY <1>t, <2>1, <2>4
  <2>6. ReceiptHolds'
    BY <2>2, <2>5 DEF Receipts, ReceiptHolds
  <2> QED BY <2>3, <2>6 DEF Receipts
<1>5. ASSUME NEW c \in Controls, EnqueueControl(c) PROVE Receipts'
  <2>1. PICK new \in Tasks :
          tasks' = Append(tasks, new) /\ new = [kind |-> "control", id |-> c]
    <3>1. [kind |-> "control", id |-> c] \in Tasks
      BY DEF Tasks
    <3> QED BY <1>5, <3>1 DEF EnqueueControl
  <2>2. UNCHANGED <<priority, task>> /\ receipt[c] = "none"
        /\ receipt' = [receipt EXCEPT ![c] = IF BehindTurn THEN "behind" ELSE "free"]
    BY <1>5 DEF EnqueueControl
  <2>3. \A d \in Controls : receipt[d] # "none" => receipt'[d] = receipt[d]
    BY <2>2 DEF Typed, Mapped
  <2>4. receipt'[c] # "none" /\ (receipt'[c] = "free" => ~BehindTurn)
    BY <2>2 DEF Typed, Mapped
  <2>5. \A t \in Range(tasks) : t.kind = "control" =>
          t.id \in Controls /\ receipt'[t.id] = receipt[t.id]
    <3>1. Range(tasks) \subseteq Tasks
      BY <1>t, RangeOfSeq
    <3> QED BY <2>3, <3>1, TaskIs DEF Receipts, Told
  <2>6. Told'
    <3>1. Range(tasks') = Range(tasks) \union {new}
      BY <1>t, <2>1, RangeAppend
    <3> QED BY <2>1, <2>4, <2>5, <3>1 DEF Receipts, Told
  <2>7. /\ DOMAIN tasks' = 1..(Len(tasks) + 1)
        /\ \A k \in 1..Len(tasks) : tasks'[k] = tasks[k]
        /\ tasks'[Len(tasks) + 1] = new
    BY <1>t, <2>1, AppendProperties, LenProperties
  <2>8. ASSUME ~BehindTurn
        PROVE  /\ task = NoTask \/ task.kind = "control"
               /\ priority = <<>>
               /\ \A j \in 1..Len(tasks) : tasks[j].kind = "control"
    <3>1. task = NoTask \/ task.kind = "control"
      BY <2>8, TaskIs DEF BehindTurn, Typed, Ranged, Kinds, TurnKinds
    <3>2. ASSUME priority # <<>> PROVE FALSE
      <4>1. Head(priority) \in Chats /\ Head(priority) \in Range(priority)
        BY <1>t, <3>2, HeadTailProperties, RangeTail
      <4> QED BY <2>8, <4>1 DEF BehindTurn, Chats, TurnKinds
    <3>3. ASSUME NEW j \in 1..Len(tasks) PROVE tasks[j].kind = "control"
      <4>1. tasks[j] \in Tasks /\ tasks[j] \in Range(tasks)
        BY <1>t, ElementOfSeq DEF Range
      <4> QED BY <2>8, <4>1, TaskIs DEF BehindTurn, Kinds, TurnKinds
    <3> QED BY <3>1, <3>2, <3>3
  <2>9. ASSUME NEW k \in DOMAIN tasks', tasks'[k].kind = "control",
               receipt'[tasks'[k].id] = "free"
        PROVE  /\ task' = NoTask \/ task'.kind = "control"
               /\ priority' = <<>>
               /\ \A j \in 1..(k - 1) : tasks'[j].kind = "control"
    <3>1. CASE k \in DOMAIN tasks
      <4>1. tasks'[k] = tasks[k] /\ \A j \in 1..(k - 1) : tasks'[j] = tasks[j]
        BY <1>t, <2>7, <3>1
      <4>2. receipt[tasks[k].id] = "free"
        BY <2>5, <2>9, <3>1, <4>1 DEF Range
      <4> QED BY <2>2, <2>9, <3>1, <4>1, <4>2 DEF Receipts, ReceiptHolds
    <3>2. CASE k = Len(tasks) + 1
      <4>1. ~BehindTurn
        BY <2>1, <2>4, <2>7, <2>9, <3>2
      <4>2. \A j \in 1..(k - 1) : j \in 1..Len(tasks) /\ tasks'[j] = tasks[j]
        BY <1>t, <2>7, <3>2
      <4> QED BY <2>2, <2>8, <4>1, <4>2
    <3> QED BY <1>t, <2>7, <3>1, <3>2
  <2>10. ReceiptHolds'
    BY <2>9 DEF ReceiptHolds
  <2> QED BY <2>6, <2>10 DEF Receipts
<1>6. ASSUME NEW i \in Inputs, NEW expected \in 1..turnNo, SteerInput(i, expected)
      PROVE  Receipts'
  BY <1>0, <1>6 DEF SteerInput
<1>7. ASSUME NEW i \in Inputs, NEW expected \in 1..turnNo, InterruptTurn(i, expected)
      PROVE  Receipts'
  <2>1. task # NoTask /\ task.kind # "control"
    BY <1>7 DEF InterruptTurn, Expects, Typed, Stage, Turning
  <2>2. UNCHANGED <<tasks, receipt, task>>
    BY <1>7 DEF InterruptTurn
  <2> QED BY <2>1, <2>2 DEF Receipts, Told, ReceiptHolds
<1>8. CASE Dequeue
  <2>1. UNCHANGED receipt
    BY <1>8 DEF Dequeue
  <2>2. CASE priority # <<>> /\ UNCHANGED tasks
    BY <2>1, <2>2 DEF Receipts, Told, ReceiptHolds
  <2>3. CASE priority = <<>> /\ tasks # <<>> /\ UNCHANGED priority
             /\ task' = Head(tasks) /\ tasks' = Tail(tasks)
    <3>1. /\ DOMAIN tasks' = 1..(Len(tasks) - 1) /\ Len(tasks) \in Nat \ {0}
          /\ \A k \in DOMAIN tasks' : tasks'[k] = tasks[k + 1]
          /\ task' = tasks[1]
      BY <1>t, <2>3, HeadTailProperties, LenProperties, EmptySeq
    <3>2. Told'
      <4>1. Range(tasks') \subseteq Range(tasks)
        BY <1>t, <2>3, RangeTail
      <4> QED BY <2>1, <4>1 DEF Receipts, Told
    <3>3. ASSUME NEW k \in DOMAIN tasks', tasks'[k].kind = "control",
                 receipt'[tasks'[k].id] = "free"
          PROVE  /\ task' = NoTask \/ task'.kind = "control"
                 /\ priority' = <<>>
                 /\ \A j \in 1..(k - 1) : tasks'[j].kind = "control"
      <4>1. k + 1 \in DOMAIN tasks /\ tasks'[k] = tasks[k + 1]
        BY <1>t, <3>1
      <4>2. \A j \in 1..k : tasks[j].kind = "control"
        <5>1. \A j \in 1..((k + 1) - 1) : tasks[j].kind = "control"
          BY <2>1, <3>3, <4>1 DEF Receipts, ReceiptHolds
        <5> QED BY <1>t, <4>1, <5>1
      <4>3. task'.kind = "control"
        BY <3>1, <4>2
      <4>4. \A j \in 1..(k - 1) : j + 1 \in 1..k /\ j \in DOMAIN tasks'
        BY <1>t, <3>1
      <4> QED BY <2>3, <3>1, <4>2, <4>3, <4>4
    <3>4. ReceiptHolds'
      BY <3>3 DEF ReceiptHolds
    <3> QED BY <3>2, <3>4 DEF Receipts
  <2> QED BY <1>8, <2>2, <2>3 DEF Dequeue
<1>9. CASE HookBlocks
  BY <1>0, <1>9 DEF HookBlocks
<1>10. CASE Prepare
  BY <1>0, <1>10 DEF Prepare
<1>11. CASE Close
  BY <1>0, <1>11 DEF Close
<1> QED BY <1>1, <1>2, <1>3, <1>4, <1>5, <1>6, <1>7, <1>8, <1>9, <1>10, <1>11, Moves

(* A control whose receipt says it is behind no turn runs before any turn: *)
(* while it waits no turn runs and none is queued before it.               *)
THEOREM ReceiptCorrect == Spec => []ReceiptHolds
<1>1. Typed /\ Typed' /\ Receipts /\ [Next]_vars => Receipts'
  BY ReceiptsStep
<1>2. Receipts => ReceiptHolds
  BY DEF Receipts
<1> QED BY <1>1, <1>2, AlwaysTyped, ReceiptsInit, PTL DEF Spec
-----------------------------------------------------------------------------
(* Turns.  Steers wait for the turn that is running; what was accepted for *)
(* an earlier turn and is not committed follows an interrupt of that turn. *)
Aimed ==
  /\ \A i \in Inputs : named[i] # 0 => named[i] <= turnNo /\ caller[i] = "sent"
  /\ \A i \in Range(steers) : named[i] = turnNo
  /\ \A t \in Range(priority) : named[t.id] \in interruptedTurns
  /\ \A t \in Range(tasks) : t.kind = "chat" => named[t.id] = 0
  /\ \A i \in Inputs : InHand(i) /\ named[i] # 0 => named[i] \in interruptedTurns

Lands == Aimed /\ LandsInNamedTurn

LEMMA LandsInit == Init => Lands
BY RangeEmpty DEF Init, Lands, Aimed, LandsInNamedTurn

(* A step that commits nothing keeps what has landed.                      *)
LEMMA LandsKept ==
  ASSUME Typed, Lands, UNCHANGED <<transcript, named>>,
         interruptedTurns \subseteq interruptedTurns'
  PROVE  LandsInNamedTurn'
BY DEF Lands, LandsInNamedTurn, Committed

LEMMA LandsStep ==
  ASSUME Typed, Typed', Placed, Lands, [Next]_vars
  PROVE  Lands'
<1>t. /\ transcript \in Seq(Messages) /\ tasks \in Seq(Tasks)
      /\ priority \in Seq(Chats) /\ steers \in Seq(Inputs)
      /\ turn \in Nat /\ turnNo \in Nat /\ named \in [Inputs -> Nat]
  BY DEF Typed, Sequenced, Ranged, Mapped
<1>r. Range(tasks) \subseteq Tasks /\ Range(priority) \subseteq Chats /\ Range(steers) \subseteq Inputs
  BY <1>t, RangeOfSeq
<1> USE DEF promiseVars, queueVars, turnVars, historyVars, callerVars
<1>1. CASE Rest
  BY <1>1, LandsKept DEF Rest, Lands, Aimed
<1>2. CASE Drain
  <2>1. turn = turnNo
    BY <1>2 DEF Drain, Typed, Stage
  <2>2. UNCHANGED <<tasks, priority, turnNo, caller, named, interruptedTurns>>
        /\ \A i \in Inputs : InHand(i)' = InHand(i)
    BY <1>2 DEF Drain, InHand
  <2>3. Range(steers') = {}
    BY <1>2, RangeEmpty DEF Drain
  <2>4. Aimed'
    BY <2>2, <2>3 DEF Lands, Aimed
  <2>5. LandsInNamedTurn'
    <3> SUFFICES ASSUME NEW i \in Inputs, named[i] # 0, NEW k \in Committed(i)'
                 PROVE  \/ transcript'[k].turn = named[i]
                        \/ named[i] \in interruptedTurns /\ transcript'[k].turn > named[i]
      BY <2>2 DEF LandsInNamedTurn
    <3>1. steers \in Seq(Inputs \union {Continuation}) /\ transcript' = Commit(steers, turn)
      BY <1>2, <1>t, SeqMonotonic DEF Drain
    <3>2. k \in DOMAIN transcript' /\ transcript'[k].id = i
      BY DEF Committed
    <3>3. CASE k \in DOMAIN transcript /\ transcript'[k] = transcript[k]
      BY <3>2, <3>3 DEF Lands, LandsInNamedTurn, Committed
    <3>4. CASE i \in Range(steers) /\ transcript'[k].turn = turn
      BY <2>1, <3>4 DEF Lands, Aimed
    <3>5. /\ k \in DOMAIN transcript => transcript'[k] = transcript[k]
          /\ k \in DOMAIN transcript \/ (transcript'[k].id \in Range(steers) /\ transcript'[k].turn = turn)
      <4>1. turn \in Nat
        BY <1>t, <2>1
      <4>2. /\ \A j \in DOMAIN transcript : Commit(steers, turn)[j] = transcript[j]
            /\ \A j \in DOMAIN Commit(steers, turn) :
                 \/ j \in DOMAIN transcript
                 \/ /\ Commit(steers, turn)[j].id \in Range(steers)
                    /\ Commit(steers, turn)[j].turn = turn
        BY <1>t, <3>1, <4>1, CommitCases
      <4> QED BY <3>1, <3>2, <4>2
    <3> QED BY <3>2, <3>3, <3>4, <3>5
  <2> QED BY <2>4, <2>5 DEF Lands
<1>3. CASE Continue
  <2>1. Range(tasks') = {[kind |-> "goal", id |-> Continuation]}
    BY <1>3 DEF Continue, Range
  <2>2. \A i \in Inputs : InHand(i)' => InHand(i)
    BY <1>3 DEF Continue, InHand
  <2>3. Aimed'
    BY <1>3, <2>1, <2>2 DEF Continue, Lands, Aimed
  <2>4. LandsInNamedTurn'
    BY <1>3, LandsKept DEF Continue
  <2> QED BY <2>3, <2>4 DEF Lands
<1>4. ASSUME NEW r \in Requests, SubmitPush(r) PROVE Lands'
  <2>1. PICK new \in Tasks :
          tasks' = Append(tasks, new) /\ (new.kind = "chat" => new.id = r /\ r \in Inputs)
    <3>1. [kind |-> IF r \in Jobs THEN "job" ELSE "chat", id |-> r] \in Tasks
      BY DEF Requests, Tasks
    <3> QED BY <1>4, <3>1 DEF SubmitPush, Requests
  <2>2. Range(tasks') = Range(tasks) \union {new}
    BY <1>t, <2>1, RangeAppend
  <2>3. r \in Inputs => named[r] = 0
    BY <1>4 DEF SubmitPush, Lands, Aimed
  <2>4. UNCHANGED <<steers, priority, transcript, turnNo, named, interruptedTurns>>
        /\ \A i \in Inputs : InHand(i)' = InHand(i)
    BY <1>4 DEF SubmitPush, InHand
  <2>5. \A i \in Inputs : caller[i] = "sent" => caller'[i] = "sent"
    BY <1>4 DEF SubmitPush, Typed, Mapped, Requests
  <2>6. Aimed'
    BY <2>1, <2>2, <2>3, <2>4, <2>5 DEF Lands, Aimed
  <2> QED BY <2>4, <2>6, LandsKept DEF Lands
<1>5. ASSUME NEW c \in Controls, EnqueueControl(c) PROVE Lands'
  <2>1. PICK new \in Tasks : tasks' = Append(tasks, new) /\ new.kind = "control"
    <3>1. [kind |-> "control", id |-> c] \in Tasks
      BY DEF Tasks
    <3> QED BY <1>5, <3>1 DEF EnqueueControl
  <2>2. Range(tasks') = Range(tasks) \union {new}
    BY <1>t, <2>1, RangeAppend
  <2>3. UNCHANGED <<steers, priority, transcript, turnNo, named, interruptedTurns, caller>>
        /\ \A i \in Inputs : InHand(i)' = InHand(i)
    BY <1>5 DEF EnqueueControl, InHand
  <2>4. Aimed'
    BY <2>1, <2>2, <2>3 DEF Lands, Aimed
  <2> QED BY <2>3, <2>4, LandsKept DEF Lands
<1>6. ASSUME NEW i \in Inputs, NEW expected \in 1..turnNo,
             SteerInput(i, expected) \/ InterruptTurn(i, expected)
      PROVE  Lands'
  <2>1. /\ caller[i] = "new" /\ accepting /\ expected = turn /\ turn = turnNo
        /\ caller' = [caller EXCEPT ![i] = "sent"]
        /\ named' = [named EXCEPT ![i] = turnNo]
    BY <1>6 DEF SteerInput, InterruptTurn, Expects, Promise, Typed, Stage
  <2>2. /\ Committed(i) = {} /\ i \notin Range(steers) /\ ~InHand(i)
        /\ \A t \in Range(tasks) \union Range(priority) : t.id # i
    BY <2>1, Nowhere
  <2>3. /\ named'[i] = turnNo /\ caller'[i] = "sent"
        /\ \A j \in Inputs \ {i} : named'[j] = named[j] /\ caller'[j] = caller[j]
    BY <1>t, <2>1 DEF Typed, Mapped, Requests
  <2>4. UNCHANGED <<tasks, transcript, turnNo>> /\ \A j \in Inputs : InHand(j)' = InHand(j)
        /\ interruptedTurns \subseteq interruptedTurns'
    BY <1>6 DEF SteerInput, InterruptTurn, InHand
  <2>5. \A t \in Range(tasks) : t.kind = "chat" => t.id \in Inputs \ {i}
    BY <1>r, <2>2, TaskIs
  <2>6. \A t \in Range(priority) : t.id \in Inputs \ {i}
    BY <1>r, <2>2 DEF Chats
  <2>p. /\ \A j \in Inputs : named'[j] # 0 => named'[j] <= turnNo' /\ caller'[j] = "sent"
        /\ \A t \in Range(tasks') : t.kind = "chat" => named'[t.id] = 0
        /\ \A j \in Inputs : InHand(j)' /\ named'[j] # 0 => named'[j] \in interruptedTurns'
    <3>1. \A j \in Inputs : named'[j] # 0 => named'[j] <= turnNo' /\ caller'[j] = "sent"
      BY <1>t, <2>3, <2>4 DEF Lands, Aimed
    <3>2. \A t \in Range(tasks') : t.kind = "chat" => named'[t.id] = 0
      BY <2>3, <2>4, <2>5 DEF Lands, Aimed
    <3>3. \A j \in Inputs : InHand(j)' /\ named'[j] # 0 => named'[j] \in interruptedTurns'
      <4> TAKE j \in Inputs
      <4>1. CASE j = i
        BY <2>2, <2>4, <4>1
      <4>2. CASE j # i
        BY <2>3, <2>4, <4>2 DEF Lands, Aimed
      <4> QED BY <4>1, <4>2
    <3> QED BY <3>1, <3>2, <3>3
  <2>q. LandsInNamedTurn'
    <3>1. \A j \in Inputs : Committed(j)' = Committed(j)
      BY <2>4 DEF Committed
    <3> QED BY <2>2, <2>3, <2>4, <3>1 DEF Lands, LandsInNamedTurn
  <2>7. CASE SteerInput(i, expected)
    <3>1. Range(steers') = Range(steers) \union {i} /\ UNCHANGED <<priority, interruptedTurns>>
      BY <1>t, <2>7, RangeAppend DEF SteerInput
    <3>2. \A j \in Range(steers') : named'[j] = turnNo
      BY <1>r, <2>2, <2>3, <3>1 DEF Lands, Aimed
    <3>3. \A t \in Range(priority') : named'[t.id] \in interruptedTurns'
      BY <2>3, <2>6, <3>1 DEF Lands, Aimed
    <3> QED BY <2>4, <2>p, <2>q, <3>2, <3>3 DEF Lands, Aimed
  <2>8. CASE InterruptTurn(i, expected)
    <3>1. PICK q \in Seq(Inputs) : q = Append(steers, i) /\ Range(q) = Range(steers) \union {i}
      <4>1. Append(steers, i) \in Seq(Inputs)
        BY <1>t, AppendProperties
      <4>2. Range(Append(steers, i)) = Range(steers) \union {i}
        BY <1>t, RangeAppend
      <4> QED BY <4>1, <4>2
    <3>2. PICK f \in Seq(Chats) :
            f = FollowUps(q) /\ Range(f) = {[kind |-> "chat", id |-> j] : j \in Range(q)}
      BY FollowUpsIs, RangeFollowUps
    <3>3. Range(priority') = Range(priority) \union Range(f)
      <4>1. priority' = priority \o f
        BY <2>8, <3>1, <3>2 DEF InterruptTurn
      <4> QED BY <1>t, <4>1, RangeConcat
    <3>4. Range(steers') = {} /\ interruptedTurns' = interruptedTurns \union {turnNo}
      BY <2>1, <2>8, RangeEmpty DEF InterruptTurn
    <3>5. \A t \in Range(priority') : named'[t.id] \in interruptedTurns'
      <4>1. \A t \in Range(f) : named'[t.id] = turnNo
        BY <1>r, <2>2, <2>3, <3>1, <3>2 DEF Lands, Aimed
      <4> QED BY <2>3, <2>6, <3>3, <3>4, <4>1 DEF Lands, Aimed
    <3> QED BY <2>4, <2>p, <2>q, <3>4, <3>5 DEF Lands, Aimed
  <2> QED BY <1>6, <2>7, <2>8
<1>8. CASE Dequeue
  <2>1. UNCHANGED <<steers, transcript, turnNo, named, interruptedTurns, caller>>
    BY <1>8 DEF Dequeue
  <2>2. /\ Range(priority') \subseteq Range(priority) /\ Range(tasks') \subseteq Range(tasks)
        /\ task' \in Range(priority) \union Range(tasks)
    <3>1. CASE priority # <<>> /\ task' = Head(priority) /\ priority' = Tail(priority)
               /\ UNCHANGED tasks
      BY <1>t, <3>1, RangeTail
    <3>2. CASE tasks # <<>> /\ task' = Head(tasks) /\ tasks' = Tail(tasks)
               /\ UNCHANGED priority
      BY <1>t, <3>2, RangeTail
    <3> QED BY <1>8, <3>1, <3>2 DEF Dequeue
  <2>3. ASSUME NEW i \in Inputs, InHand(i)', named[i] # 0
        PROVE  named[i] \in interruptedTurns
    <3>1. task'.id = i
      BY <2>3 DEF InHand
    <3>2. CASE task' \in Range(priority)
      BY <3>1, <3>2 DEF Lands, Aimed
    <3>3. CASE task' \in Range(tasks)
      <4>1. task'.kind = "chat"
        BY <1>r, <3>1, <3>3, TaskIs, ConstantsAssumption DEF Kinds
      <4> QED BY <2>3, <3>1, <3>3, <4>1 DEF Lands, Aimed
    <3> QED BY <2>2, <3>2, <3>3
  <2>4. Aimed'
    BY <2>1, <2>2, <2>3 DEF Lands, Aimed
  <2> QED BY <2>1, <2>4, LandsKept DEF Lands
<1>9. CASE HookBlocks
  <2>1. \A i \in Inputs : ~InHand(i)'
    BY <1>9 DEF HookBlocks, InHand
  <2> QED BY <1>9, <2>1, LandsKept DEF HookBlocks, Lands, Aimed
<1>10. CASE Prepare
  <2>1. UNCHANGED <<tasks, priority, caller, named, interruptedTurns>> /\ turnNo' = turnNo + 1
        /\ \A i \in Inputs : ~InHand(i)'
    BY <1>10 DEF Prepare, InHand
  <2>2. Range(steers') = {}
    BY <1>10, RangeEmpty DEF Prepare
  <2>3. \A i \in Inputs : named[i] # 0 => named[i] <= turnNo'
    BY <1>t, <2>1 DEF Lands, Aimed
  <2>4. Aimed'
    BY <2>1, <2>2, <2>3 DEF Lands, Aimed
  <2>5. LandsInNamedTurn'
    <3> SUFFICES ASSUME NEW i \in Inputs, named[i] # 0, NEW k \in Committed(i)'
                 PROVE  \/ transcript'[k].turn = named[i]
                        \/ named[i] \in interruptedTurns /\ transcript'[k].turn > named[i]
      BY <2>1 DEF LandsInNamedTurn
    <3>1. transcript' = Commit(<<task.id>>, turnNo + 1) /\ turnNo + 1 \in Nat
      BY <1>10, <1>t DEF Prepare
    <3>2. task.id \in Inputs \union {Continuation}
      <4>1. task \in Tasks /\ task.kind \in {"chat", "goal"}
        BY <1>10, TaskIs DEF Prepare, Typed, Ranged, Stage, Turning, Kinds
      <4> QED BY <4>1, TaskIs
    <3>3. <<task.id>> \in Seq(Inputs \union {Continuation}) /\ Range(<<task.id>>) = {task.id}
      BY <3>2 DEF Range
    <3>4. k \in DOMAIN transcript' /\ transcript'[k].id = i
      BY DEF Committed
    <3>5. CASE k \in DOMAIN transcript /\ transcript'[k] = transcript[k]
      BY <3>4, <3>5 DEF Lands, LandsInNamedTurn, Committed
    <3>6. CASE i = task.id /\ transcript'[k].turn = turnNo + 1
      <4>1. InHand(i)
        BY <1>10, <3>6 DEF Prepare, InHand
      <4>2. named[i] \in interruptedTurns /\ named[i] <= turnNo /\ named[i] \in Nat
        BY <1>t, <4>1 DEF Lands, Aimed
      <4> QED BY <1>t, <3>6, <4>2
    <3>7. /\ k \in DOMAIN transcript => transcript'[k] = transcript[k]
          /\ \/ k \in DOMAIN transcript
             \/ transcript'[k].id \in Range(<<task.id>>) /\ transcript'[k].turn = turnNo + 1
      <4>1. /\ \A j \in DOMAIN transcript : Commit(<<task.id>>, turnNo + 1)[j] = transcript[j]
            /\ \A j \in DOMAIN Commit(<<task.id>>, turnNo + 1) :
                 \/ j \in DOMAIN transcript
                 \/ /\ Commit(<<task.id>>, turnNo + 1)[j].id \in Range(<<task.id>>)
                    /\ Commit(<<task.id>>, turnNo + 1)[j].turn = turnNo + 1
        BY <1>t, <3>1, <3>3, CommitCases
      <4> QED BY <3>1, <3>4, <4>1
    <3> QED BY <3>3, <3>4, <3>5, <3>6, <3>7
  <2> QED BY <2>4, <2>5 DEF Lands
<1>11. CASE Close
  <2>1. \A i \in Inputs : ~InHand(i)'
    BY <1>11 DEF Close, InHand
  <2> QED BY <1>11, <2>1, RangeEmpty, LandsKept DEF Close, Lands, Aimed
<1> QED BY <1>1, <1>2, <1>3, <1>4, <1>5, <1>6, <1>8, <1>9, <1>10, <1>11, Moves

LEMMA AlwaysLands == Spec => []Lands
<1>1. Typed /\ Typed' /\ Placed /\ Lands /\ [Next]_vars => Lands'
  BY LandsStep
<1> QED BY <1>1, AlwaysTyped, AlwaysPlaced, LandsInit, PTL DEF Spec

(* An input accepted for a turn is committed in that turn, or, when that   *)
(* turn was interrupted, in a turn that began after it.                    *)
THEOREM LandsCorrect == Spec => []LandsInNamedTurn
<1>1. Lands => LandsInNamedTurn
  BY DEF Lands
<1> QED BY <1>1, AlwaysLands, PTL
-----------------------------------------------------------------------------
(* Ends.  A turn that leaves its loop while it still accepts steers was    *)
(* aborted, failed or ran out of iterations, and its outcome will say so.  *)
Failed == outcome # "completed" \/ wiped

Ends ==
  /\ pc \in {"top", "response"} => ~terminator
  /\ pc = "limit" /\ accepting => Failed \/ abort \/ (AtLimit /\ ~terminator)
  /\ pc \in {"claim", "settle"} /\ accepting => Failed \/ abort
  /\ pc = "close" /\ accepting => Failed

LEMMA EndsInit == Init => Ends
BY DEF Init, Ends

LEMMA EndsStep ==
  ASSUME Typed, Ends, [Next]_vars
  PROVE  Ends'
<1> USE DEF vars, queueVars, turnVars, loopVars, goalVars, callerVars, promiseVars,
        historyVars
<1>1. CASE UNCHANGED vars
  BY <1>1 DEF Ends, Failed, AtLimit
<1>2. ASSUME NEW r \in Requests, SubmitRead(r) PROVE Ends'
  BY <1>2 DEF Ends, Failed, AtLimit, SubmitRead
<1>3. ASSUME NEW r \in Requests, SubmitClear(r) PROVE Ends'
  BY <1>3 DEF Ends, Failed, AtLimit, SubmitClear, WithdrawAbort
<1>4. ASSUME NEW r \in Requests, SubmitPush(r) PROVE Ends'
  BY <1>4 DEF Ends, Failed, AtLimit, SubmitPush
<1>5. ASSUME NEW c \in Controls, EnqueueControl(c) PROVE Ends'
  BY <1>5 DEF Ends, Failed, AtLimit, EnqueueControl
<1>6. ASSUME NEW i \in Inputs, NEW expected \in 1..turnNo, SteerInput(i, expected) PROVE Ends'
  BY <1>6 DEF Ends, Failed, AtLimit, SteerInput
<1>7. ASSUME NEW i \in Inputs, NEW expected \in 1..turnNo, InterruptTurn(i, expected) PROVE Ends'
  BY <1>7 DEF Ends, Failed, AtLimit, InterruptTurn, RequestInterrupt
<1>8. CASE Abort
  BY <1>8 DEF Ends, Failed, AtLimit, Abort
<1>9. CASE ShutdownFlag
  BY <1>9 DEF Ends, Failed, AtLimit, ShutdownFlag
<1>10. CASE ShutdownAbort
  BY <1>10 DEF Ends, Failed, AtLimit, ShutdownAbort
<1>11. CASE ShutdownJoin
  BY <1>11 DEF Ends, Failed, AtLimit, ShutdownJoin
<1>12. CASE GoalSet
  BY <1>12 DEF Ends, Failed, AtLimit, GoalSet
<1>13. CASE GoalResume
  BY <1>13 DEF Ends, Failed, AtLimit, GoalResume
<1>14. CASE GoalStop
  BY <1>14 DEF Ends, Failed, AtLimit, GoalStop
<1>15. CASE CommandRead
  BY <1>15 DEF Ends, Failed, AtLimit, CommandRead
<1>16. CASE CommandClear
  BY <1>16 DEF Ends, Failed, AtLimit, CommandClear, WithdrawAbort
<1>17. CASE CommandCheck
  BY <1>17 DEF Ends, Failed, AtLimit, CommandCheck
<1>18. CASE CommandPush
  BY <1>18 DEF Ends, Failed, AtLimit, CommandPush
<1>19. CASE Dequeue
  BY <1>19 DEF Ends, Failed, AtLimit, Dequeue
<1>20. CASE Exit
  BY <1>20 DEF Ends, Failed, AtLimit, Exit
<1>21. CASE Finish
  BY <1>21 DEF Ends, Failed, AtLimit, Finish
<1>22. CASE JobDone
  BY <1>22 DEF Ends, Failed, AtLimit, JobDone
<1>23. CASE Begin
  BY <1>23 DEF Ends, Failed, AtLimit, Begin
<1>24. CASE HookBlocks
  BY <1>24 DEF Ends, Failed, AtLimit, HookBlocks
<1>25. CASE Prepare
  BY <1>25 DEF Ends, Failed, AtLimit, Prepare
<1>26. CASE LoopExit
  BY <1>26 DEF Ends, Failed, AtLimit, LoopExit
<1>27. CASE LoopError
  BY <1>27 DEF Ends, Failed, AtLimit, LoopError
<1>28. CASE ModelCall
  BY <1>28 DEF Ends, Failed, AtLimit, ModelCall
<1>29. CASE ResponseAborted
  BY <1>29 DEF Ends, Failed, AtLimit, ResponseAborted
<1>30. CASE ResponseRetry
  BY <1>30 DEF Ends, Failed, AtLimit, ResponseRetry
<1>31. CASE ResponseError
  BY <1>31 DEF Ends, Failed, AtLimit, ResponseError
<1>32. CASE ResponseFinal
  BY <1>32 DEF Ends, Failed, AtLimit, ResponseFinal
<1>33. CASE ResponseTools
  BY <1>33 DEF Ends, Failed, AtLimit, ResponseTools
<1>34. CASE BoundaryCommits
  BY <1>34 DEF Ends, Failed, AtLimit, BoundaryCommits
<1>35. CASE BoundaryCloses
  BY <1>35 DEF Ends, Failed, AtLimit, BoundaryCloses
<1>36. CASE LimitCheck
  BY <1>36 DEF Ends, Failed, AtLimit, LimitCheck
<1>37. CASE ClaimInterrupt
  BY <1>37 DEF Ends, Failed, AtLimit, ClaimInterrupt
<1>38. CASE Settle
  BY <1>38 DEF Ends, Failed, AtLimit, Settle, Typed, Stage
<1>39. CASE Close
  BY <1>39 DEF Ends, Failed, AtLimit, Close
<1>40. CASE Idle
  BY <1>40 DEF Ends, Failed, AtLimit, Idle
<1>41. CASE ContinueCheck
  BY <1>41 DEF Ends, Failed, AtLimit, ContinueCheck
<1>42. CASE ContinuePush
  BY <1>42 DEF Ends, Failed, AtLimit, ContinuePush
<1> QED
  BY <1>1, <1>2, <1>3, <1>4, <1>5, <1>6, <1>7, <1>8, <1>9, <1>10, <1>11, <1>12, <1>13, <1>14, <1>15, <1>16, <1>17, <1>18, <1>19, <1>20, <1>21, <1>22, <1>23, <1>24, <1>25, <1>26, <1>27, <1>28, <1>29, <1>30, <1>31, <1>32, <1>33, <1>34, <1>35, <1>36, <1>37, <1>38, <1>39, <1>40, <1>41, <1>42
  DEF Next, Worker, Turn, Commander, Submitter

(* Every turn that has been closed has an outcome.                         *)
Recorded == Len(outcomes) = IF pc \in Turning THEN turnNo - 1 ELSE turnNo

LEMMA RecordedInit == Init => Recorded
BY DEF Init, Recorded, Turning

LEMMA RecordedStep ==
  ASSUME Typed, Typed', Recorded, [Next]_vars
  PROVE  Recorded'
<1> USE DEF vars, queueVars, turnVars, loopVars, goalVars, callerVars, promiseVars,
        historyVars
<1>t. turnNo \in Nat /\ outcomes \in Seq([result : Results, wiped : BOOLEAN])
  BY DEF Typed, Sequenced, Ranged
<1>1. CASE UNCHANGED <<outcomes, turnNo>> /\ (pc \in Turning <=> pc' \in Turning)
  BY <1>1 DEF Recorded
<1>2. CASE Prepare
  BY <1>2, <1>t DEF Prepare, Recorded, Turning
<1>3. CASE Close
  <2>1. Len(outcomes) = turnNo - 1
    BY <1>3 DEF Close, Recorded, Turning
  <2>2. [result |-> outcome, wiped |-> wiped] \in [result : Results, wiped : BOOLEAN]
    BY DEF Typed, Ranged, Flagged
  <2>3. Len(outcomes') = Len(outcomes) + 1
    <3> HIDE DEF Results
    <3> QED BY <1>3, <1>t, <2>2, AppendProperties DEF Close
  <2> QED BY <1>3, <1>t, <2>1, <2>3 DEF Close, Recorded, Turning
<1>4. \/ UNCHANGED <<outcomes, turnNo>> /\ (pc \in Turning <=> pc' \in Turning)
      \/ Prepare \/ Close
  <2>1. Turn => (UNCHANGED <<outcomes, turnNo>> /\ (pc \in Turning <=> pc' \in Turning))
                \/ Prepare \/ Close
    BY DEF Turn, Turning, Begin, HookBlocks, LoopExit, LoopError, ModelCall,
           ResponseAborted, ResponseRetry, ResponseError, ResponseFinal,
           ResponseTools, BoundaryCommits, BoundaryCloses, LimitCheck,
           ClaimInterrupt, Settle, Idle, ContinueCheck, ContinuePush
  <2>2. Dequeue \/ Exit \/ Finish \/ JobDone =>
          UNCHANGED <<outcomes, turnNo>> /\ (pc \in Turning <=> pc' \in Turning)
    BY DEF Turning, Dequeue, Exit, Finish, JobDone
  <2>3. Commander \/ Abort \/ ShutdownFlag \/ ShutdownAbort \/ ShutdownJoin =>
          UNCHANGED <<outcomes, turnNo, pc>>
    BY DEF Commander, GoalSet, GoalResume, GoalStop, CommandRead, CommandClear,
           CommandCheck, CommandPush, Abort, ShutdownFlag, ShutdownAbort, ShutdownJoin
  <2>4. ASSUME NEW r \in Requests, Submitter(r) PROVE UNCHANGED <<outcomes, turnNo, pc>>
    BY <2>4 DEF Submitter, SubmitRead, SubmitClear, SubmitPush
  <2>5. ASSUME NEW c \in Controls, EnqueueControl(c) PROVE UNCHANGED <<outcomes, turnNo, pc>>
    BY <2>5 DEF EnqueueControl
  <2>6. ASSUME NEW i \in Inputs, NEW expected \in 1..turnNo,
               SteerInput(i, expected) \/ InterruptTurn(i, expected)
        PROVE  UNCHANGED <<outcomes, turnNo, pc>>
    BY <2>6 DEF SteerInput, InterruptTurn
  <2> QED BY <2>1, <2>2, <2>3, <2>4, <2>5, <2>6 DEF Next, Worker
<1> QED BY <1>1, <1>2, <1>3, <1>4

Dropped ==
  \A i \in Inputs : gone[i] = "discarded" =>
    /\ named[i] \in 1..Len(outcomes)
    /\ outcomes[named[i]].result # "completed" \/ outcomes[named[i]].wiped

LEMMA DroppedInit == Init => Dropped
BY DEF Init, Dropped

LEMMA DroppedStep ==
  ASSUME Typed, Typed', Placed, Lands, Ends, Recorded, Dropped, [Next]_vars
  PROVE  Dropped'
<1>t. /\ steers \in Seq(Inputs) /\ turnNo \in Nat /\ named \in [Inputs -> Nat]
      /\ outcomes \in Seq([result : Results, wiped : BOOLEAN])
      /\ DOMAIN outcomes = 1..Len(outcomes) /\ Len(outcomes) \in Nat
  BY LenProperties DEF Typed, Sequenced, Ranged, Mapped
<1>1. CASE Close
  <2>1. Len(outcomes) = turnNo - 1
    BY <1>1 DEF Close, Recorded, Turning
  <2>2. PICK e \in [result : Results, wiped : BOOLEAN] :
          e = [result |-> outcome, wiped |-> wiped]
    BY DEF Typed, Ranged, Flagged
  <2>3. /\ Len(outcomes') = Len(outcomes) + 1
        /\ \A k \in 1..Len(outcomes) : outcomes'[k] = outcomes[k]
        /\ outcomes'[Len(outcomes) + 1] = e
    <3> HIDE DEF Results
    <3> QED BY <1>1, <1>t, <2>2, AppendProperties DEF Close
  <2>4. UNCHANGED named
    BY <1>1 DEF Close, promiseVars
  <2> SUFFICES ASSUME NEW i \in Inputs, gone'[i] = "discarded"
               PROVE  /\ named[i] \in 1..Len(outcomes')
                      /\ outcomes'[named[i]].result # "completed" \/ outcomes'[named[i]].wiped
    BY <2>4 DEF Dropped
  <2>5. CASE i \in Range(steers)
    <3>1. named[i] = turnNo /\ steers # <<>>
      BY <2>5, RangeEmpty DEF Lands, Aimed
    <3>2. accepting /\ turnNo # 0
      BY <3>1 DEF Typed, Stage
    <3>3. e.result # "completed" \/ e.wiped
      BY <1>1, <2>2, <3>2 DEF Close, Ends, Failed
    <3>4. named[i] = Len(outcomes) + 1 /\ named[i] \in 1..Len(outcomes')
      BY <1>t, <2>1, <2>3, <3>1, <3>2
    <3> QED BY <2>3, <3>3, <3>4
  <2>6. CASE i \notin Range(steers)
    <3>1. gone[i] = "discarded"
      BY <1>1, <2>6 DEF Close
    <3>2. named[i] \in 1..Len(outcomes)
      BY <3>1 DEF Dropped
    <3>3. outcomes'[named[i]] = outcomes[named[i]] /\ named[i] \in 1..Len(outcomes')
      BY <1>t, <2>3, <3>2
    <3> QED BY <3>1, <3>3 DEF Dropped
  <2> QED BY <2>5, <2>6
<1>2. ASSUME UNCHANGED outcomes,
             \A i \in Inputs : gone'[i] = "discarded" =>
                                 gone[i] = "discarded" /\ named'[i] = named[i]
      PROVE  Dropped'
  BY <1>2 DEF Dropped
<1>3. ASSUME NEW i \in Inputs, NEW expected \in 1..turnNo,
             SteerInput(i, expected) \/ InterruptTurn(i, expected)
      PROVE  Dropped'
  <2>1. gone[i] = "no"
    BY <1>3, Nowhere DEF SteerInput, InterruptTurn, Expects
  <2>2. UNCHANGED <<gone, outcomes>> /\ \A j \in Inputs \ {i} : named'[j] = named[j]
    BY <1>3, <1>t DEF SteerInput, InterruptTurn, Promise, historyVars
  <2> QED BY <1>2, <2>1, <2>2
<1>4. CASE HookBlocks
  <2>1. UNCHANGED <<outcomes, named>> /\ \A i \in Inputs : gone'[i] \in {gone[i], "blocked"}
    BY <1>4 DEF HookBlocks, promiseVars, Typed, Mapped
  <2> QED BY <1>2, <2>1
<1>5. CASE UNCHANGED <<outcomes, gone, named>>
  BY <1>2, <1>5
<1>6. \/ UNCHANGED <<outcomes, gone, named>> \/ HookBlocks \/ Close
      \/ \E i \in Inputs, expected \in 1..turnNo :
           SteerInput(i, expected) \/ InterruptTurn(i, expected)
  BY DEF Next, Worker, Turn, Commander, Submitter, vars, promiseVars, historyVars,
         SubmitRead, SubmitClear, SubmitPush, EnqueueControl, Abort, ShutdownFlag, ShutdownAbort, ShutdownJoin, GoalSet, 
         GoalResume, GoalStop, CommandRead, CommandClear, 
         CommandCheck, CommandPush, Dequeue, Exit, Finish, JobDone, 
         Begin, Prepare, LoopExit, LoopError, ModelCall, 
         ResponseAborted, ResponseRetry, ResponseError, ResponseFinal, 
         ResponseTools, BoundaryCommits, BoundaryCloses, LimitCheck, 
         ClaimInterrupt, Settle, Idle, ContinueCheck, ContinuePush
<1> QED BY <1>1, <1>3, <1>4, <1>5, <1>6

LEMMA AlwaysDropped == Spec => [](Recorded /\ Dropped)
<1>1. Typed /\ Typed' /\ Recorded /\ [Next]_vars => Recorded'
  BY RecordedStep
<1>2. Typed /\ Ends /\ [Next]_vars => Ends'
  BY EndsStep
<1>3. Typed /\ Typed' /\ Placed /\ Lands /\ Ends /\ Recorded /\ Dropped /\ [Next]_vars => Dropped'
  BY DroppedStep
<1> QED
  BY <1>1, <1>2, <1>3, AlwaysTyped, AlwaysPlaced, AlwaysLands,
     RecordedInit, EndsInit, DroppedInit, PTL DEF Spec

(* A steer that was acknowledged is dropped only by a turn that did not    *)
(* complete, or whose abort a late clear_stale_abort_request withdrew.     *)
THEOREM DiscardedCorrect == Spec => []DiscardedOnlyByFailure
<1>1. Dropped => DiscardedOnlyByFailure
  BY DEF Dropped, DiscardedOnlyByFailure
<1> QED BY <1>1, AlwaysDropped, PTL
-----------------------------------------------------------------------------
(* Goals.  An active goal that no abort suspends is never left alone by a  *)
(* turn: work is pending, or the worker has still to look at it.           *)
Pending ==
  \/ tasks # <<>> \/ priority # <<>>
  \/ command # "ready" \/ stop # "running"
  \/ \E r \in Requests : caller[r] \in {"clear", "push"}

Awake ==
  /\ busy => pc \in Turning \union {"job", "hook", "idle"}
  /\ goal = "active" /\ ~abort =>
       \/ Pending
       \/ pc \notin {"wait", "finish"}
       \/ pc = "wait" /\ last \in {"job", "control"}
       \/ pc = "finish" /\ task.kind \in {"job", "control"}

LEMMA AwakeInit == Init => Awake
BY DEF Init, Awake

LEMMA AwakeStep ==
  ASSUME Typed, Typed', Awake, [Next]_vars
  PROVE  Awake'
<1> USE DEF vars, queueVars, turnVars, loopVars, goalVars, callerVars, promiseVars,
        historyVars, Turning
<1>1. CASE UNCHANGED vars
  BY <1>1 DEF Awake, Pending
<1>2. ASSUME NEW r \in Requests, SubmitRead(r) PROVE Awake'
  BY <1>2 DEF Awake, Pending, SubmitRead
<1>3. ASSUME NEW r \in Requests, SubmitClear(r) PROVE Awake'
  BY <1>3 DEF Awake, Pending, SubmitClear, WithdrawAbort
<1>4. ASSUME NEW r \in Requests, SubmitPush(r) PROVE Awake'
  BY <1>4 DEF Awake, Pending, SubmitPush
<1>5. ASSUME NEW c \in Controls, EnqueueControl(c) PROVE Awake'
  BY <1>5 DEF Awake, Pending, EnqueueControl
<1>6. ASSUME NEW i \in Inputs, NEW expected \in 1..turnNo, SteerInput(i, expected) PROVE Awake'
  <2>1. pc \in Turning
    BY <1>6 DEF SteerInput, Expects, Typed, Stage
  <2>2. UNCHANGED <<tasks, priority, pc, abort, busy, goal, command, stop, task, last>>
    BY <1>6 DEF SteerInput
  <2> QED BY <2>1, <2>2 DEF Awake
<1>7. ASSUME NEW i \in Inputs, NEW expected \in 1..turnNo, InterruptTurn(i, expected) PROVE Awake'
  BY <1>7 DEF Awake, Pending, InterruptTurn, RequestInterrupt
<1>8. CASE Abort
  BY <1>8 DEF Awake, Pending, Abort
<1>9. CASE ShutdownFlag
  BY <1>9 DEF Awake, Pending, ShutdownFlag
<1>10. CASE ShutdownAbort
  BY <1>10 DEF Awake, Pending, ShutdownAbort
<1>11. CASE ShutdownJoin
  BY <1>11 DEF Awake, Pending, ShutdownJoin
<1>12. CASE GoalSet
  BY <1>12 DEF Awake, Pending, GoalSet, CommandStart
<1>13. CASE GoalResume
  BY <1>13 DEF Awake, Pending, GoalResume, CommandStart
<1>14. CASE GoalStop
  BY <1>14 DEF Awake, Pending, GoalStop, CommandStart
<1>15. CASE CommandRead
  BY <1>15 DEF Awake, Pending, CommandRead
<1>16. CASE CommandClear
  BY <1>16 DEF Awake, Pending, CommandClear, WithdrawAbort
<1>17. CASE CommandCheck
  BY <1>17 DEF Awake, Pending, CommandCheck, MayContinue
<1>18. CASE CommandPush
  BY <1>18 DEF Awake, Pending, CommandPush, PushContinuation
<1>19. CASE Dequeue
  BY <1>19 DEF Awake, Pending, Dequeue
<1>20. CASE Exit
  BY <1>20 DEF Awake, Pending, Exit
<1>21. CASE Finish
  BY <1>21 DEF Awake, Pending, Finish
<1>22. CASE JobDone
  BY <1>22 DEF Awake, JobDone, Typed, Stage
<1>23. CASE Begin
  BY <1>23 DEF Awake, Pending, Begin
<1>24. CASE HookBlocks
  BY <1>24 DEF Awake, Pending, HookBlocks
<1>25. CASE Prepare
  BY <1>25 DEF Awake, Pending, Prepare, StopGoal
<1>26. CASE LoopExit
  BY <1>26 DEF Awake, Pending, LoopExit
<1>27. CASE LoopError
  BY <1>27 DEF Awake, Pending, LoopError, StopGoal
<1>28. CASE ModelCall
  BY <1>28 DEF Awake, Pending, ModelCall
<1>29. CASE ResponseAborted
  BY <1>29 DEF Awake, Pending, ResponseAborted, Account
<1>30. CASE ResponseRetry
  BY <1>30 DEF Awake, Pending, ResponseRetry, Account
<1>31. CASE ResponseError
  BY <1>31 DEF Awake, Pending, ResponseError, StopGoal
<1>32. CASE ResponseFinal
  BY <1>32 DEF Awake, Pending, ResponseFinal, Account
<1>33. CASE ResponseTools
  BY <1>33 DEF Awake, Pending, ResponseTools, Account
<1>34. CASE BoundaryCommits
  BY <1>34 DEF Awake, Pending, BoundaryCommits
<1>35. CASE BoundaryCloses
  BY <1>35 DEF Awake, Pending, BoundaryCloses
<1>36. CASE LimitCheck
  BY <1>36 DEF Awake, Pending, LimitCheck
<1>37. CASE ClaimInterrupt
  BY <1>37 DEF Awake, Pending, ClaimInterrupt
<1>38. CASE Settle
  BY <1>38 DEF Awake, Pending, Settle
<1>39. CASE Close
  BY <1>39 DEF Awake, Pending, Close
<1>40. CASE Idle
  BY <1>40 DEF Awake, Pending, Idle
<1>41. CASE ContinueCheck
  BY <1>41 DEF Awake, Pending, ContinueCheck, MayContinue
<1>42. CASE ContinuePush
  BY <1>42 DEF Awake, Pending, ContinuePush, PushContinuation
<1> QED
  BY <1>1, <1>2, <1>3, <1>4, <1>5, <1>6, <1>7, <1>8, <1>9, <1>10, <1>11, <1>12, <1>13, <1>14, <1>15, <1>16, <1>17, <1>18, <1>19, <1>20, <1>21, <1>22, <1>23, <1>24, <1>25, <1>26, <1>27, <1>28, <1>29, <1>30, <1>31, <1>32, <1>33, <1>34, <1>35, <1>36, <1>37, <1>38, <1>39, <1>40, <1>41, <1>42
  DEF Next, Worker, Turn, Commander, Submitter

(* An active goal is left alone in an idle session only when an abort is   *)
(* pending or when the last task was no turn of the agent.                 *)
THEOREM GoalCorrect == Spec => []GoalNotLost
<1>1. Typed /\ Typed' /\ Awake /\ [Next]_vars => Awake'
  BY AwakeStep
<1>2. Typed /\ Awake => GoalNotLost
  BY DEF Typed, Mapped, Awake, Pending, GoalNotLost, Quiet
<1> QED BY <1>1, <1>2, AlwaysTyped, AwakeInit, PTL DEF Spec
-----------------------------------------------------------------------------
(* Order.  Of two inputs accepted for one turn the earlier is ahead of the *)
(* later one wherever that is: the transcript is behind nothing, then come *)
(* the worker's hands, the priority queue and the pending steers.          *)
Waiting(i) == {k \in DOMAIN steers : steers[k] = i}

AheadDone(x, y) == \A k \in Committed(y) : \E j \in Committed(x) : j < k
AheadInHand(x, y) == InHand(y) => Committed(x) # {}
AheadQueued(x, y) ==
  \A k \in Queued(priority, y) :
    Committed(x) # {} \/ InHand(x) \/ \E j \in Queued(priority, x) : j < k
AheadWaiting(x, y) ==
  \A k \in Waiting(y) : Committed(x) # {} \/ \E j \in Waiting(x) : j < k

Ahead(x, y) ==
  AheadDone(x, y) /\ AheadInHand(x, y) /\ AheadQueued(x, y) /\ AheadWaiting(x, y)

Lined(x, y) == gone[x] = "blocked" \/ Ahead(x, y)

(* What was accepted was sent and has named a turn; a turn that accepts    *)
(* was not interrupted.                                                    *)
Heard == \A x \in Range(accepted) : caller[x] = "sent" /\ named[x] # 0
Open ==
  /\ \A t \in interruptedTurns : t <= turnNo
  /\ accepting => turnNo \notin interruptedTurns

InOrder ==
  \A a, b \in DOMAIN accepted :
    a < b /\ named[accepted[a]] = named[accepted[b]] => Lined(accepted[a], accepted[b])

LEMMA OrderInit == Init => Heard /\ Open /\ InOrder
BY RangeEmpty DEF Init, Heard, Open, InOrder

(* Only steer_input and interrupt_turn accept and name; only the latter    *)
(* adds to the interrupted turns.                                          *)
LEMMA PromisesKept ==
  ASSUME Typed, [Next]_vars
  PROVE  \/ UNCHANGED promiseVars
         \/ \E i \in Inputs, expected \in 1..turnNo :
              SteerInput(i, expected) \/ InterruptTurn(i, expected)
<1> USE DEF queueVars, turnVars, historyVars, callerVars
<1>1. Rest \/ Drain \/ Continue => UNCHANGED promiseVars
  BY DEF Rest, Drain, Continue
<1>2. (\E r \in Requests : SubmitPush(r)) \/ (\E c \in Controls : EnqueueControl(c))
        => UNCHANGED promiseVars
  BY DEF SubmitPush, EnqueueControl
<1>3. Dequeue \/ HookBlocks \/ Prepare \/ Close => UNCHANGED promiseVars
  BY DEF Dequeue, HookBlocks, Prepare, Close
<1> QED BY <1>1, <1>2, <1>3, Moves

LEMMA SentStays ==
  ASSUME Typed, [Next]_vars, NEW i \in Inputs, caller[i] = "sent"
  PROVE  caller'[i] = "sent"
<1> USE DEF queueVars, turnVars, historyVars, callerVars
<1>t. caller \in [Requests -> {"new", "clear", "push", "sent"}] /\ i \in Requests
  BY DEF Typed, Mapped, Requests
<1>1. Rest \/ Drain \/ Continue => caller'[i] = "sent"
  BY DEF Rest, Drain, Continue
<1>2. (\E r \in Requests : SubmitPush(r)) \/ (\E c \in Controls : EnqueueControl(c))
        => caller'[i] = "sent"
  BY <1>t DEF SubmitPush, EnqueueControl
<1>3. Dequeue \/ HookBlocks \/ Prepare \/ Close => caller'[i] = "sent"
  BY DEF Dequeue, HookBlocks, Prepare, Close
<1>4. (\E j \in Inputs, expected \in 1..turnNo : SteerInput(j, expected)) => caller'[i] = "sent"
  BY <1>t DEF SteerInput, Promise
<1>5. (\E j \in Inputs, expected \in 1..turnNo : InterruptTurn(j, expected)) => caller'[i] = "sent"
  BY <1>t DEF InterruptTurn, Promise
<1> QED BY <1>1, <1>2, <1>3, <1>4, <1>5, Moves

LEMMA HeardStep ==
  ASSUME Typed, Heard, [Next]_vars
  PROVE  Heard'
<1>t. accepted \in Seq(Inputs) /\ Range(accepted) \subseteq Inputs /\ turnNo \in Nat
      /\ named \in [Inputs -> Nat] /\ caller \in [Requests -> {"new", "clear", "push", "sent"}]
  BY RangeOfSeq DEF Typed, Sequenced, Mapped, Ranged
<1>1. CASE UNCHANGED promiseVars
  BY <1>1, <1>t, SentStays DEF Heard, promiseVars
<1>2. ASSUME NEW i \in Inputs, NEW expected \in 1..turnNo,
             SteerInput(i, expected) \/ InterruptTurn(i, expected)
      PROVE  Heard'
  <2>1. Promise(i, expected)
    BY <1>2 DEF SteerInput, InterruptTurn
  <2>2. Range(accepted') = Range(accepted) \union {i}
    BY <1>t, <2>1, RangeAppend DEF Promise
  <2>3. named'[i] = expected /\ caller'[i] = "sent" /\ expected # 0
    BY <1>t, <2>1 DEF Promise, Requests
  <2>4. \A x \in Range(accepted) \ {i} : named'[x] = named[x] /\ caller'[x] = "sent"
    BY <1>t, <2>1, SentStays DEF Promise, Heard
  <2> QED BY <2>2, <2>3, <2>4 DEF Heard
<1> QED BY <1>1, <1>2, PromisesKept

LEMMA OpenStep ==
  ASSUME Typed, Typed', Open, [Next]_vars
  PROVE  Open'
<1>t. turnNo \in Nat /\ interruptedTurns \subseteq Nat
  BY DEF Typed, Ranged
<1> USE DEF queueVars, turnVars, historyVars, callerVars, promiseVars
<1>1. Rest \/ Drain \/ Continue => Open'
  BY DEF Rest, Drain, Continue, Open
<1>2. ASSUME NEW r \in Requests, SubmitPush(r) PROVE Open'
  BY <1>2 DEF SubmitPush, Open
<1>7. ASSUME NEW c \in Controls, EnqueueControl(c) PROVE Open'
  BY <1>7 DEF EnqueueControl, Open
<1>3. Dequeue \/ HookBlocks \/ Close => Open'
  BY DEF Dequeue, HookBlocks, Close, Open
<1>4. CASE Prepare
  <2>1. turnNo' = turnNo + 1 /\ UNCHANGED interruptedTurns
    BY <1>4 DEF Prepare
  <2> QED BY <1>t, <2>1 DEF Open
<1>5. ASSUME NEW i \in Inputs, NEW expected \in 1..turnNo, SteerInput(i, expected) PROVE Open'
  BY <1>5 DEF SteerInput, Open
<1>6. ASSUME NEW i \in Inputs, NEW expected \in 1..turnNo, InterruptTurn(i, expected) PROVE Open'
  <2>1. turn = turnNo /\ UNCHANGED turnNo /\ ~accepting'
        /\ interruptedTurns' = interruptedTurns \union {turn}
    BY <1>6 DEF InterruptTurn, Expects, Typed, Stage
  <2> QED BY <1>t, <2>1 DEF Open
<1> QED BY <1>1, <1>2, <1>3, <1>4, <1>5, <1>6, <1>7, Moves

(* An input that was sent is somewhere; one that waits was not given up.   *)
LEMMA OccNone ==
  ASSUME NEW q, NEW T, \A k \in DOMAIN q : q[k] \notin T
  PROVE  Occ(q, T) = 0
<1>1. {k \in DOMAIN q : q[k] \in T} = {}
  OBVIOUS
<1> QED BY <1>1, FS_EmptySet DEF Occ

LEMMA Somewhere ==
  ASSUME Typed, Placed, NEW i \in Inputs, caller[i] = "sent"
  PROVE  \/ Committed(i) # {} \/ Waiting(i) # {} \/ Queued(priority, i) # {}
         \/ \E t \in Range(tasks) : t.kind = "chat" /\ t.id = i
         \/ InHand(i) \/ gone[i] # "no"
<1> SUFFICES ASSUME Committed(i) = {}, Waiting(i) = {}, Queued(priority, i) = {},
                    \A t \in Range(tasks) : t.kind = "chat" => t.id # i,
                    ~InHand(i), gone[i] = "no"
             PROVE  FALSE
  OBVIOUS
<1>t. transcript \in Seq(Messages) /\ priority \in Seq(Chats)
      /\ tasks \in Seq(Tasks) /\ Range(tasks) \subseteq Tasks
  BY RangeOfSeq DEF Typed, Sequenced
<1>1. Occ(transcript, Msg(i)) = 0
  <2>1. \A k \in DOMAIN transcript : transcript[k] \notin Msg(i)
    BY DEF Committed, Msg
  <2> QED BY <2>1, OccNone
<1>2. Occ(tasks, Work(i)) = 0
  <2>1. \A k \in DOMAIN tasks : tasks[k] \in Range(tasks)
    BY DEF Range
  <2>2. \A t \in Tasks : t.id = i => t.kind = "chat"
    BY ConstantsAssumption DEF Tasks
  <2>3. \A k \in DOMAIN tasks : tasks[k] \notin Work(i)
    BY <1>t, <2>1, <2>2 DEF Work
  <2> QED BY <2>3, OccNone
<1>3. Occ(priority, Work(i)) = 0
  <2>1. \A k \in DOMAIN priority : priority[k] \notin Work(i)
    BY DEF Queued, Work
  <2> QED BY <2>1, OccNone
<1>4. Occ(steers, {i}) = 0
  <2>1. \A k \in DOMAIN steers : steers[k] \notin {i}
    BY DEF Waiting
  <2> QED BY <2>1, OccNone
<1>5. Hand(i) = 0 /\ Spent(i) = 0 /\ Sent(i) = 1
  BY DEF Hand, Spent, Sent
<1> QED BY <1>1, <1>2, <1>3, <1>4, <1>5 DEF Placed, Count

LEMMA WaitingIsKept ==
  ASSUME Typed, Placed, NEW i \in Range(steers)
  PROVE  i \in Inputs /\ gone[i] = "no"
<1>t. steers \in Seq(Inputs) /\ i \in Inputs
  BY RangeOfSeq DEF Typed, Sequenced
<1>1. PICK tr, ta, pr, st \in Nat :
        /\ tr = Occ(transcript, Msg(i)) /\ ta = Occ(tasks, Work(i))
        /\ pr = Occ(priority, Work(i)) /\ st = Occ(steers, {i})
  BY <1>t, CountNats
<1>2. PICK h, p, s \in 0..1 : h = Hand(i) /\ p = Spent(i) /\ s = Sent(i)
  BY DEF Hand, Spent, Sent
<1>3. tr + ta + pr + st + h + p = s
  BY <1>t, <1>1, <1>2 DEF Placed, Count
<1>4. st # 0
  BY <1>t, <1>1, OccSome
<1>5. p = 0
  BY <1>2, <1>3, <1>4
<1> QED BY <1>t, <1>2, <1>5 DEF Spent

(* Where a drain or a new turn puts what it commits.                       *)
LEMMA CommittedOf ==
  ASSUME transcript \in Seq(Messages), NEW i \in Inputs, NEW t \in Nat,
         NEW q \in Seq(Inputs \union {Continuation}), transcript' = Commit(q, t)
  PROVE  /\ Committed(i) \subseteq Committed(i)'
         /\ \A k \in Committed(i) : k \in Nat /\ k <= Len(transcript)
         /\ \A k \in Committed(i)' :
              k \in Committed(i) \/ \E m \in DOMAIN q : q[m] = i /\ k = Len(transcript) + m
         /\ \A m \in DOMAIN q : q[m] = i => Len(transcript) + m \in Committed(i)'
<1>1. /\ Commit(q, t) \in Seq(Messages)
      /\ Len(Commit(q, t)) = Len(transcript) + Len(q)
      /\ \A k \in 1..Len(transcript) : Commit(q, t)[k] = transcript[k]
      /\ \A k \in 1..Len(q) : Commit(q, t)[Len(transcript) + k] = [id |-> q[k], turn |-> t]
  BY CommitIs
<1>2. PICK c \in Seq(Messages) :
        /\ c = Commit(q, t)
        /\ Len(c) = Len(transcript) + Len(q)
        /\ \A k \in 1..Len(transcript) : c[k] = transcript[k]
        /\ \A k \in 1..Len(q) : c[Len(transcript) + k] = [id |-> q[k], turn |-> t]
  BY <1>1
<1>3. PICK n, l \in Nat :
        /\ n = Len(transcript) /\ l = Len(q)
        /\ DOMAIN transcript = 1..n /\ DOMAIN q = 1..l /\ DOMAIN c = 1..(n + l)
  BY <1>2, LenProperties
<1>4. /\ Committed(i) = {k \in 1..n : transcript[k].id = i}
      /\ Committed(i)' = {k \in 1..(n + l) : c[k].id = i}
  BY <1>2, <1>3 DEF Committed
<1>5. /\ \A k \in 1..n : c[k].id = transcript[k].id
      /\ \A m \in 1..l : c[n + m].id = q[m]
  <2>1. \A k \in 1..n : c[k] = transcript[k]
    BY <1>2, <1>3
  <2>2. \A m \in 1..l : c[n + m] = [id |-> q[m], turn |-> t]
    BY <1>2, <1>3
  <2>3. \A m \in 1..l : c[n + m].id = q[m]
    <3> TAKE m \in 1..l
    <3>1. c[n + m] = [id |-> q[m], turn |-> t]
      BY <2>2
    <3> QED BY <3>1
  <2> QED BY <2>1, <2>3
<1>6. \A k \in 1..(n + l) : k \in 1..n \/ \E m \in 1..l : k = n + m
  <2> TAKE k \in 1..(n + l)
  <2>1. CASE k <= n
    BY <2>1
  <2>2. CASE ~(k <= n)
    <3>1. k - n \in 1..l /\ k = n + (k - n)
      BY <2>2
    <3> QED BY <3>1
  <2> QED BY <2>1, <2>2
<1>7. \A k \in 1..n : k \in 1..(n + l)
  OBVIOUS
<1>8. \A m \in 1..l : n + m \in 1..(n + l)
  OBVIOUS
<1>9. Committed(i) \subseteq Committed(i)'
  BY <1>4, <1>5, <1>7
<1>10. \A k \in Committed(i) : k \in Nat /\ k <= n
  BY <1>4
<1>11. \A k \in Committed(i)' : k \in Committed(i) \/ \E m \in 1..l : q[m] = i /\ k = n + m
  <2> SUFFICES ASSUME NEW k \in 1..(n + l), c[k].id = i
               PROVE  k \in Committed(i) \/ \E m \in 1..l : q[m] = i /\ k = n + m
    BY <1>4
  <2>1. CASE k \in 1..n
    BY <1>4, <1>5, <2>1
  <2>2. ASSUME NEW m \in 1..l, k = n + m PROVE q[m] = i
    BY <1>5, <2>2
  <2> QED BY <1>6, <2>1, <2>2
<1>12. \A m \in 1..l : q[m] = i => n + m \in Committed(i)'
  BY <1>4, <1>5, <1>8
<1> QED BY <1>3, <1>9, <1>10, <1>11, <1>12

(* Steps that leave the places alone, and those of the worker.             *)
LEMMA LinedSame ==
  ASSUME UNCHANGED <<transcript, priority, steers, gone>>,
         \A i \in Inputs : InHand(i)' = InHand(i),
         NEW x \in Inputs, NEW y \in Inputs, Lined(x, y)
  PROVE  Lined(x, y)'
<1>1. UNCHANGED <<Committed(x), Committed(y), Queued(priority, x), Queued(priority, y),
                  Waiting(x), Waiting(y), gone>>
  BY DEF Committed, Queued, Waiting
<1>2. InHand(x)' = InHand(x) /\ InHand(y)' = InHand(y)
  OBVIOUS
<1> QED
  BY <1>1, <1>2 DEF Lined, Ahead, AheadDone, AheadInHand, AheadQueued, AheadWaiting

LEMMA LinedDrain ==
  ASSUME Typed, Drain, NEW x \in Inputs, NEW y \in Inputs, Lined(x, y)
  PROVE  Lined(x, y)'
<1>t. transcript \in Seq(Messages) /\ turn \in Nat /\ Len(transcript) \in Nat
      /\ steers \in Seq(Inputs \union {Continuation}) /\ DOMAIN steers = 1..Len(steers)
  BY SeqMonotonic, LenProperties DEF Typed, Sequenced, Ranged
<1>g. UNCHANGED gone
  BY DEF Drain
<1>b. CASE gone[x] = "blocked"
  BY <1>g, <1>b DEF Lined
<1> SUFFICES ASSUME Ahead(x, y) PROVE Ahead(x, y)'
  BY <1>b DEF Lined
<1>x. /\ Committed(x) \subseteq Committed(x)'
      /\ \A k \in Committed(x) : k \in Nat /\ k <= Len(transcript)
      /\ \A m \in DOMAIN steers : steers[m] = x => Len(transcript) + m \in Committed(x)'
  BY <1>t, CommittedOf DEF Drain
<1>y. \A k \in Committed(y)' : k \in Committed(y)
        \/ \E m \in DOMAIN steers : steers[m] = y /\ k = Len(transcript) + m
  BY <1>t, CommittedOf DEF Drain
<1>1. AheadDone(x, y)'
  <2> SUFFICES ASSUME NEW k \in Committed(y)' PROVE \E j \in Committed(x)' : j < k
    BY DEF AheadDone
  <2>1. CASE k \in Committed(y)
    BY <1>x, <2>1 DEF Ahead, AheadDone
  <2>2. ASSUME NEW m \in DOMAIN steers, steers[m] = y, k = Len(transcript) + m
        PROVE  \E j \in Committed(x)' : j < k
    <3>1. m \in Waiting(y) /\ m \in Nat \ {0}
      BY <1>t, <2>2 DEF Waiting
    <3>2. CASE Committed(x) # {}
      <4>1. PICK j \in Committed(x) : j \in Nat /\ j <= Len(transcript)
        BY <1>x, <3>2
      <4>2. j < k
        BY <1>t, <2>2, <3>1, <4>1
      <4> QED BY <1>x, <4>1, <4>2
    <3>3. ASSUME NEW j \in Waiting(x), j < m PROVE \E l \in Committed(x)' : l < k
      <4>1. Len(transcript) + j \in Committed(x)' /\ j \in Nat
        BY <1>t, <1>x, <3>3 DEF Waiting
      <4>2. Len(transcript) + j < k
        BY <1>t, <2>2, <3>1, <3>3, <4>1
      <4> QED BY <4>1, <4>2
    <3> QED BY <3>1, <3>2, <3>3 DEF Ahead, AheadWaiting
  <2> QED BY <1>y, <2>1, <2>2
<1>2. AheadInHand(x, y)'
  BY DEF Drain, AheadInHand, InHand
<1>3. AheadQueued(x, y)'
  <2>1. ~InHand(x) /\ UNCHANGED priority
    BY DEF Drain, InHand
  <2> QED BY <1>x, <2>1 DEF Ahead, AheadQueued, Queued
<1>4. AheadWaiting(x, y)'
  BY DEF Drain, AheadWaiting, Waiting
<1> QED BY <1>1, <1>2, <1>3, <1>4 DEF Ahead

LEMMA LinedPrepare ==
  ASSUME Typed, Prepare, NEW x \in Inputs, NEW y \in Inputs, Lined(x, y)
  PROVE  Lined(x, y)'
<1>1. task.id \in Inputs \union {Continuation}
  <2>1. task \in Tasks /\ task.kind \in {"chat", "goal"}
    BY TaskIs DEF Prepare, Typed, Ranged, Stage, Turning, Kinds
  <2> QED BY <2>1, TaskIs
<1>2. PICK q \in Seq(Inputs \union {Continuation}) :
        q = <<task.id>> /\ DOMAIN q = {1} /\ q[1] = task.id
  <2>1. <<task.id>> \in Seq(Inputs \union {Continuation})
    BY <1>1
  <2>2. DOMAIN <<task.id>> = {1} /\ <<task.id>>[1] = task.id
    OBVIOUS
  <2> QED BY <2>1, <2>2
<1>t. transcript \in Seq(Messages) /\ turnNo + 1 \in Nat /\ Len(transcript) \in Nat
  BY LenProperties DEF Typed, Sequenced, Ranged
<1>c. transcript' = Commit(q, turnNo + 1)
  BY <1>2 DEF Prepare
<1>g. UNCHANGED <<gone, priority>>
  BY DEF Prepare, queueVars
<1>b. CASE gone[x] = "blocked"
  BY <1>g, <1>b DEF Lined
<1> SUFFICES ASSUME Ahead(x, y) PROVE Ahead(x, y)'
  BY <1>b DEF Lined
<1>x. /\ Committed(x) \subseteq Committed(x)'
      /\ \A k \in Committed(x) : k \in Nat /\ k <= Len(transcript)
      /\ \A m \in DOMAIN q : q[m] = x => Len(transcript) + m \in Committed(x)'
  BY <1>t, <1>c, CommittedOf
<1>y. \A k \in Committed(y)' : k \in Committed(y)
        \/ \E m \in DOMAIN q : q[m] = y /\ k = Len(transcript) + m
  BY <1>t, <1>c, CommittedOf
<1>3. AheadDone(x, y)'
  <2> SUFFICES ASSUME NEW k \in Committed(y)' PROVE \E j \in Committed(x)' : j < k
    BY DEF AheadDone
  <2>1. CASE k \in Committed(y)
    BY <1>x, <2>1 DEF Ahead, AheadDone
  <2>2. CASE task.id = y /\ k = Len(transcript) + 1
    <3>1. InHand(y)
      BY <2>2 DEF Prepare, InHand
    <3>2. PICK j \in Committed(x) : j \in Nat /\ j <= Len(transcript)
      BY <1>x, <3>1 DEF Ahead, AheadInHand
    <3>3. j < k
      BY <1>t, <2>2, <3>2
    <3> QED BY <1>x, <3>2, <3>3
  <2> QED BY <1>2, <1>y, <2>1, <2>2
<1>4. AheadInHand(x, y)'
  BY DEF Prepare, AheadInHand, InHand
<1>5. AheadQueued(x, y)'
  <2>1. InHand(x) => Committed(x)' # {}
    BY <1>2, <1>x DEF InHand
  <2> QED BY <1>g, <1>x, <2>1 DEF Ahead, AheadQueued, Queued
<1>6. AheadWaiting(x, y)'
  BY DEF Prepare, AheadWaiting, Waiting
<1> QED BY <1>3, <1>4, <1>5, <1>6 DEF Ahead

(* A hook refuses the input in the worker's hands; a turn that is closed   *)
(* gives up only what still waits.                                         *)
LEMMA LinedHook ==
  ASSUME Typed, HookBlocks, NEW x \in Inputs, NEW y \in Inputs, Lined(x, y)
  PROVE  Lined(x, y)'
<1>t. gone \in [Inputs -> {"no", "blocked", "discarded"}]
  BY DEF Typed, Mapped
<1>1. UNCHANGED <<transcript, priority, steers>> /\ ~InHand(y)'
  BY DEF HookBlocks, historyVars, queueVars, turnVars, InHand
<1>2. UNCHANGED <<Committed(x), Committed(y), Queued(priority, x), Queued(priority, y),
                  Waiting(x), Waiting(y)>>
  BY <1>1 DEF Committed, Queued, Waiting
<1>3. CASE gone[x] = "blocked" \/ InHand(x)
  <2>1. gone'[x] = "blocked"
    BY <1>3, <1>t DEF HookBlocks, InHand
  <2> QED BY <2>1 DEF Lined
<1>4. CASE Ahead(x, y) /\ ~InHand(x)
  <2>1. Ahead(x, y)'
    BY <1>1, <1>2, <1>4 DEF Ahead, AheadDone, AheadInHand, AheadQueued, AheadWaiting
  <2> QED BY <2>1 DEF Lined
<1> QED BY <1>3, <1>4 DEF Lined

LEMMA LinedClose ==
  ASSUME Typed, Placed, Close, NEW x \in Inputs, NEW y \in Inputs, Lined(x, y)
  PROVE  Lined(x, y)'
<1>1. UNCHANGED <<transcript, priority>> /\ ~InHand(y)' /\ ~InHand(x) /\ steers' = <<>>
  BY DEF Close, historyVars, queueVars, InHand
<1>2. UNCHANGED <<Committed(x), Committed(y), Queued(priority, x), Queued(priority, y)>>
      /\ Waiting(y)' = {}
  BY <1>1 DEF Committed, Queued, Waiting
<1>3. CASE gone[x] = "blocked"
  <2>1. x \notin Range(steers)
    BY <1>3, WaitingIsKept
  <2>2. gone'[x] = "blocked"
    BY <1>3, <2>1 DEF Close
  <2> QED BY <2>2 DEF Lined
<1>4. CASE Ahead(x, y)
  <2>1. Ahead(x, y)'
    BY <1>1, <1>2, <1>4 DEF Ahead, AheadDone, AheadInHand, AheadQueued, AheadWaiting
  <2> QED BY <2>1 DEF Lined
<1> QED BY <1>3, <1>4 DEF Lined

(* The worker takes the head of the priority queue; other work was not     *)
(* accepted for a turn.                                                    *)
LEMMA LinedDequeue ==
  ASSUME Typed, Lands, Dequeue, NEW x \in Inputs, NEW y \in Inputs,
         named[y] # 0, Lined(x, y)
  PROVE  Lined(x, y)'
<1>t. /\ priority \in Seq(Chats) /\ tasks \in Seq(Tasks) /\ steers = <<>>
      /\ DOMAIN priority = 1..Len(priority) /\ Len(priority) \in Nat
  BY LenProperties DEF Dequeue, Typed, Sequenced, Stage, Turning
<1>1. UNCHANGED <<transcript, gone, steers>> /\ ~InHand(x)
  BY DEF Dequeue, historyVars, turnVars, InHand
<1>2. UNCHANGED <<Committed(x), Committed(y)>> /\ Waiting(y)' = {}
  BY <1>t, <1>1 DEF Committed, Waiting
<1>b. CASE gone[x] = "blocked"
  BY <1>1, <1>b DEF Lined
<1> SUFFICES ASSUME Ahead(x, y) PROVE Ahead(x, y)'
  BY <1>b DEF Lined
<1>3. AheadDone(x, y)' /\ AheadWaiting(x, y)'
  BY <1>2 DEF Ahead, AheadDone, AheadWaiting
<1>4. CASE priority # <<>> /\ task' = Head(priority) /\ priority' = Tail(priority)
  <2>1. PICK h \in Chats, q \in Seq(Chats) :
          /\ h = task' /\ h = priority[1] /\ q = priority'
          /\ DOMAIN q = 1..(Len(priority) - 1) /\ 1 \in DOMAIN priority
          /\ \A k \in DOMAIN q : q[k] = priority[k + 1]
    <3>1. /\ Head(priority) = priority[1] /\ Len(priority) # 0
          /\ Tail(priority) \in Seq(Chats) /\ Len(Tail(priority)) = Len(priority) - 1
          /\ \A k \in 1..Len(Tail(priority)) : Tail(priority)[k] = priority[k + 1]
      BY <1>t, <1>4, HeadTailProperties, EmptySeq
    <3>2. priority[1] \in Chats /\ 1 \in DOMAIN priority
      BY <1>t, <3>1, ElementOfSeq
    <3>3. DOMAIN Tail(priority) = 1..(Len(priority) - 1)
      BY <3>1, LenProperties
    <3> QED BY <1>4, <3>1, <3>2, <3>3
  <2>2. pc' = "begin"
    BY <2>1 DEF Dequeue, Chats
  <2>3. \A i \in Inputs : InHand(i)' <=> priority[1].id = i
    BY <2>1, <2>2 DEF InHand
  <2>4. \A i \in Inputs : \A k \in Queued(priority, i) :
          (k = 1 /\ InHand(i)') \/ (k > 1 /\ k - 1 \in Queued(priority, i)')
    <3> SUFFICES ASSUME NEW i \in Inputs, NEW k \in DOMAIN priority, priority[k].id = i
                 PROVE  (k = 1 /\ InHand(i)') \/ (k > 1 /\ k - 1 \in Queued(priority, i)')
      BY DEF Queued
    <3>1. CASE k = 1
      BY <2>3, <3>1
    <3>2. CASE k # 1
      <4>1. k > 1 /\ k - 1 \in DOMAIN q /\ (k - 1) + 1 = k
        BY <1>t, <2>1, <3>2
      <4>2. q[k - 1].id = i
        BY <2>1, <4>1
      <4> QED BY <2>1, <4>1, <4>2 DEF Queued
    <3> QED BY <3>1, <3>2
  <2>5. AheadInHand(x, y)'
    <3> SUFFICES ASSUME InHand(y)' PROVE Committed(x) # {}
      BY <1>2 DEF AheadInHand
    <3>1. 1 \in Queued(priority, y)
      BY <2>1, <2>3 DEF Queued
    <3>2. \A j \in Queued(priority, x) : ~(j < 1)
      BY <1>t DEF Queued
    <3> QED BY <1>1, <3>1, <3>2 DEF Ahead, AheadQueued
  <2>6. AheadQueued(x, y)'
    <3> SUFFICES ASSUME NEW k \in Queued(priority, y)'
                 PROVE  \/ Committed(x)' # {} \/ InHand(x)'
                        \/ \E j \in Queued(priority, x)' : j < k
      BY DEF AheadQueued
    <3>1. k \in Nat /\ k + 1 \in Queued(priority, y)
      <4>1. k \in DOMAIN q /\ q[k].id = y
        BY <2>1 DEF Queued
      <4>2. k \in Nat /\ k + 1 \in DOMAIN priority
        BY <1>t, <2>1, <4>1
      <4> QED BY <2>1, <4>1, <4>2 DEF Queued
    <3>2. CASE Committed(x) # {}
      BY <1>2, <3>2
    <3>3. ASSUME NEW j \in Queued(priority, x), j < k + 1
          PROVE  InHand(x)' \/ \E l \in Queued(priority, x)' : l < k
      <4>1. j \in Nat
        BY <1>t DEF Queued
      <4>2. CASE j = 1 /\ InHand(x)'
        BY <4>2
      <4>3. CASE j > 1 /\ j - 1 \in Queued(priority, x)'
        <5>1. j - 1 < k
          BY <3>1, <3>3, <4>1
        <5> QED BY <4>3, <5>1
      <4> QED BY <2>4, <4>2, <4>3
    <3> QED BY <1>1, <3>1, <3>2, <3>3 DEF Ahead, AheadQueued
  <2> QED BY <1>3, <2>5, <2>6 DEF Ahead
<1>5. CASE priority = <<>> /\ tasks # <<>> /\ task' = Head(tasks) /\ UNCHANGED priority
  <2>1. task' \in Range(tasks) /\ task' \in Tasks
    <3>1. Range(tasks) = Range(Tail(tasks)) \union {Head(tasks)} /\ Range(tasks) \subseteq Tasks
      BY <1>t, <1>5, RangeTail, RangeOfSeq
    <3> QED BY <1>5, <3>1
  <2>2. ~InHand(y)'
    <3> SUFFICES ASSUME InHand(y)' PROVE FALSE
      OBVIOUS
    <3>1. task'.id = y
      BY DEF InHand
    <3>2. task'.kind = "chat"
      BY <2>1, <3>1, ConstantsAssumption DEF Tasks
    <3>3. named[y] = 0
      BY <2>1, <3>1, <3>2 DEF Lands, Aimed
    <3> QED BY <3>3
  <2>3. AheadQueued(x, y)'
    BY <1>5 DEF AheadQueued, Queued
  <2> QED BY <1>3, <2>2, <2>3 DEF Ahead, AheadInHand
<1> QED BY <1>4, <1>5 DEF Dequeue

(* What an accepted steer or interrupt does.  The inputs accepted for the  *)
(* running turn before it are committed or wait, unless a hook refused one. *)
LEMMA HeardForTurn ==
  ASSUME Typed, Placed, Lands, Recorded, Dropped, Heard, Open, accepting,
         NEW x \in Range(accepted), named[x] = turn
  PROVE  gone[x] = "blocked" \/ Committed(x) # {} \/ Waiting(x) # {}
<1>t. x \in Inputs /\ gone[x] \in {"no", "blocked", "discarded"} /\ turnNo \in Nat
  BY RangeOfSeq DEF Typed, Sequenced, Mapped, Ranged
<1>1. pc \in Turning /\ turn = turnNo /\ turn # 0
  BY DEF Typed, Stage
<1>2. caller[x] = "sent"
  BY DEF Heard
<1>3. Queued(priority, x) = {}
  <2> SUFFICES ASSUME NEW k \in Queued(priority, x) PROVE FALSE
    OBVIOUS
  <2>1. priority[k] \in Range(priority) /\ priority[k].id = x
    BY DEF Queued, Range
  <2> QED BY <1>1, <2>1 DEF Lands, Aimed, Open
<1>4. \A t \in Range(tasks) : ~(t.kind = "chat" /\ t.id = x)
  BY <1>1 DEF Lands, Aimed
<1>5. ~InHand(x)
  BY <1>1 DEF InHand, Turning
<1>6. gone[x] # "discarded"
  <2> SUFFICES ASSUME gone[x] = "discarded" PROVE FALSE
    OBVIOUS
  <2>1. turnNo \in 1..Len(outcomes) /\ Len(outcomes) = turnNo - 1
    BY <1>t, <1>1 DEF Dropped, Recorded
  <2> QED BY <1>t, <2>1
<1> QED BY <1>t, <1>2, <1>3, <1>4, <1>5, <1>6, Somewhere

LEMMA WaitingAppend ==
  ASSUME Typed, NEW i \in Inputs, NEW q, q = Append(steers, i)
  PROVE  /\ q \in Seq(Inputs) /\ DOMAIN q = 1..(Len(steers) + 1) /\ Len(steers) \in Nat
         /\ DOMAIN steers = 1..Len(steers)
         /\ \A k \in DOMAIN steers : q[k] = steers[k]
         /\ q[Len(steers) + 1] = i
<1>t. steers \in Seq(Inputs)
  BY DEF Typed, Sequenced
<1>1. /\ q \in Seq(Inputs) /\ Len(q) = Len(steers) + 1
      /\ \A k \in 1..Len(steers) : q[k] = steers[k]
      /\ q[Len(steers) + 1] = i
  BY <1>t, AppendProperties
<1> QED BY <1>t, <1>1, LenProperties

LEMMA LinedSteer ==
  ASSUME Typed, Placed, Lands, Recorded, Dropped, Heard, Open,
         NEW i \in Inputs, NEW expected \in 1..turnNo, SteerInput(i, expected)
  PROVE  /\ \A x, y \in Inputs \ {i} : Lined(x, y) => Lined(x, y)'
         /\ \A x \in Range(accepted) : named[x] = expected => Lined(x, i)'
<1>1. UNCHANGED <<transcript, gone, priority>> /\ \A z \in Inputs : InHand(z)' = InHand(z)
  BY DEF SteerInput, historyVars, queueVars, InHand
<1>2. \A z \in Inputs : UNCHANGED <<Committed(z), Queued(priority, z)>>
  BY <1>1 DEF Committed, Queued
<1>3. /\ DOMAIN steers' = 1..(Len(steers) + 1) /\ Len(steers) \in Nat
      /\ DOMAIN steers = 1..Len(steers)
      /\ \A k \in DOMAIN steers : steers'[k] = steers[k]
      /\ steers'[Len(steers) + 1] = i
  BY WaitingAppend DEF SteerInput
<1>4. \A z \in Inputs : Waiting(z) \subseteq Waiting(z)'
  BY <1>3 DEF Waiting
<1>5. \A z \in Inputs \ {i} : Waiting(z)' \subseteq Waiting(z)
  <2> SUFFICES ASSUME NEW z \in Inputs \ {i}, NEW k \in DOMAIN steers', steers'[k] = z
               PROVE  k \in Waiting(z)
    BY DEF Waiting
  <2>1. k \in DOMAIN steers
    BY <1>3
  <2> QED BY <1>3, <2>1 DEF Waiting
<1>6. ASSUME NEW x \in Inputs \ {i}, NEW y \in Inputs \ {i}, Lined(x, y) PROVE Lined(x, y)'
  <2>1. CASE gone[x] = "blocked"
    BY <1>1, <2>1 DEF Lined
  <2>2. CASE Ahead(x, y)
    <3>1. Ahead(x, y)'
      BY <1>1, <1>2, <1>4, <1>5, <2>2
      DEF Ahead, AheadDone, AheadInHand, AheadQueued, AheadWaiting
    <3> QED BY <3>1 DEF Lined
  <2> QED BY <1>6, <2>1, <2>2 DEF Lined
<1>7. ASSUME NEW x \in Range(accepted), named[x] = expected PROVE Lined(x, i)'
  <2>0. x \in Inputs
    BY RangeOfSeq DEF Typed, Sequenced
  <2>1. caller[i] # "sent" /\ accepting /\ named[x] = turn
    BY <1>7 DEF SteerInput, Expects
  <2>2. Committed(i) = {} /\ ~InHand(i) /\ \A t \in Range(priority) : t.id # i
    BY <2>1, Nowhere
  <2>3. Queued(priority, i) = {}
    BY <2>2 DEF Queued, Range
  <2>4. CASE gone[x] = "blocked"
    BY <1>1, <2>4 DEF Lined
  <2>5. CASE Committed(x) # {} \/ Waiting(x) # {}
    <3>1. AheadWaiting(x, i)'
      <4> SUFFICES ASSUME NEW k \in Waiting(i)'
                   PROVE  Committed(x)' # {} \/ \E j \in Waiting(x)' : j < k
        BY DEF AheadWaiting
      <4>1. CASE Committed(x) # {}
        BY <1>2, <2>0, <4>1
      <4>2. ASSUME NEW j \in Waiting(x) PROVE j \in Waiting(x)' /\ j < k
        <5>1. k = Len(steers) + 1
          <6>1. i \notin Range(steers)
            BY <2>1, Nowhere
          <6>2. k \notin DOMAIN steers
            BY <1>3, <6>1 DEF Waiting, Range
          <6> QED BY <1>3, <6>2 DEF Waiting
        <5>2. j \in 1..Len(steers)
          BY <1>3 DEF Waiting
        <5> QED BY <1>3, <1>4, <2>0, <5>1, <5>2
      <4> QED BY <2>5, <4>1, <4>2
    <3>2. Ahead(x, i)'
      BY <1>1, <1>2, <2>2, <2>3, <3>1 DEF Ahead, AheadDone, AheadInHand, AheadQueued
    <3> QED BY <3>2 DEF Lined
  <2> QED BY <2>1, <2>4, <2>5, HeardForTurn
<1> QED BY <1>6, <1>7

LEMMA LinedInterrupt ==
  ASSUME Typed, Placed, Lands, Recorded, Dropped, Heard, Open,
         NEW i \in Inputs, NEW expected \in 1..turnNo, InterruptTurn(i, expected)
  PROVE  /\ \A x, y \in Inputs \ {i} : Lined(x, y) => Lined(x, y)'
         /\ \A x \in Range(accepted) : named[x] = expected => Lined(x, i)'
<1>1. UNCHANGED <<transcript, gone>> /\ \A z \in Inputs : InHand(z)' = InHand(z)
  BY DEF InterruptTurn, historyVars, InHand
<1>2. \A z \in Inputs : UNCHANGED Committed(z) /\ Waiting(z)' = {}
  BY <1>1 DEF InterruptTurn, Committed, Waiting
<1>3. PICK q \in Seq(Inputs) :
        /\ q = Append(steers, i)
        /\ DOMAIN q = 1..(Len(steers) + 1) /\ Len(steers) \in Nat
        /\ DOMAIN steers = 1..Len(steers)
        /\ \A k \in DOMAIN steers : q[k] = steers[k]
        /\ q[Len(steers) + 1] = i
  BY WaitingAppend
<1>4. PICK n \in Nat :
        /\ n = Len(priority) /\ DOMAIN priority = 1..n
        /\ DOMAIN priority' = 1..(n + Len(steers) + 1)
        /\ \A k \in 1..n : priority'[k] = priority[k]
        /\ \A m \in DOMAIN q : priority'[n + m].id = q[m]
  <2>1. Len(q) = Len(steers) + 1
    BY <1>3, LenProperties
  <2>2. PICK f \in Seq(Chats) :
          /\ f = FollowUps(q) /\ Len(f) = Len(q)
          /\ \A k \in 1..Len(q) : f[k] = [kind |-> "chat", id |-> q[k]]
    BY FollowUpsIs
  <2>3. priority \in Seq(Chats) /\ priority' = priority \o f
    BY <1>3, <2>2 DEF InterruptTurn, Typed, Sequenced
  <2>4. /\ priority \o f \in Seq(Chats)
        /\ Len(priority \o f) = Len(priority) + Len(f)
        /\ \A k \in 1..Len(priority) : (priority \o f)[k] = priority[k]
        /\ \A k \in 1..Len(f) : (priority \o f)[Len(priority) + k] = f[k]
    BY <2>3, ConcatIs
  <2>5. PICK p \in Seq(Chats) :
          /\ p = priority'
          /\ Len(p) = Len(priority) + Len(f)
          /\ \A k \in 1..Len(priority) : p[k] = priority[k]
          /\ \A k \in 1..Len(f) : p[Len(priority) + k] = f[k]
    BY <2>3, <2>4
  <2>6. /\ DOMAIN priority = 1..Len(priority) /\ Len(priority) \in Nat
        /\ DOMAIN p = 1..(Len(priority) + Len(steers) + 1)
    <3>1. DOMAIN p = 1..Len(p) /\ DOMAIN priority = 1..Len(priority) /\ Len(priority) \in Nat
      BY <2>3, LenProperties
    <3>2. Len(p) = Len(priority) + Len(steers) + 1
      BY <1>3, <2>1, <2>2, <2>5, <3>1
    <3> QED BY <3>1, <3>2
  <2>7. \A m \in DOMAIN q : p[Len(priority) + m].id = q[m]
    <3> TAKE m \in DOMAIN q
    <3>1. p[Len(priority) + m] = [kind |-> "chat", id |-> q[m]]
      BY <1>3, <2>1, <2>2, <2>5
    <3> QED BY <3>1
  <2> QED BY <2>5, <2>6, <2>7
<1>5. \A z \in Inputs : Queued(priority, z) \subseteq Queued(priority, z)'
  <2> SUFFICES ASSUME NEW z \in Inputs, NEW k \in 1..n, priority[k].id = z
               PROVE  k \in Queued(priority, z)'
    BY <1>4 DEF Queued
  <2>1. k \in 1..(n + Len(steers) + 1)
    BY <1>3
  <2> QED BY <1>4, <2>1 DEF Queued
<1>6. \A z \in Inputs : \A m \in Waiting(z) : n + m \in Queued(priority, z)' /\ m \in 1..Len(steers)
  <2> SUFFICES ASSUME NEW z \in Inputs, NEW m \in DOMAIN steers, steers[m] = z
               PROVE  n + m \in Queued(priority, z)' /\ m \in 1..Len(steers)
    BY DEF Waiting
  <2>1. m \in DOMAIN q /\ q[m] = z /\ n + m \in 1..(n + Len(steers) + 1)
    BY <1>3
  <2> QED BY <1>3, <1>4, <2>1 DEF Queued
<1>7. \A z \in Inputs : \A k \in Queued(priority, z)' :
        \/ k \in Queued(priority, z)
        \/ \E m \in Waiting(z) : k = n + m
        \/ z = i /\ k = n + Len(steers) + 1
  <2> SUFFICES ASSUME NEW z \in Inputs, NEW k \in 1..(n + Len(steers) + 1), priority'[k].id = z
               PROVE  \/ k \in Queued(priority, z)
                      \/ \E m \in Waiting(z) : k = n + m
                      \/ z = i /\ k = n + Len(steers) + 1
    BY <1>4 DEF Queued
  <2>1. CASE k \in 1..n
    BY <1>4, <2>1 DEF Queued
  <2>2. ASSUME NEW m \in DOMAIN q, k = n + m
        PROVE  m \in Waiting(z) \/ (z = i /\ k = n + Len(steers) + 1)
    <3>1. q[m] = z
      BY <1>4, <2>2
    <3>2. m \in DOMAIN steers \/ m = Len(steers) + 1
      BY <1>3
    <3>3. CASE m \in DOMAIN steers
      BY <1>3, <3>1, <3>3 DEF Waiting
    <3>4. CASE m = Len(steers) + 1
      BY <1>3, <2>2, <3>1, <3>4
    <3> QED BY <3>2, <3>3, <3>4
  <2>3. k \in 1..n \/ \E m \in DOMAIN q : k = n + m
    <3>1. CASE k <= n
      BY <3>1
    <3>2. CASE ~(k <= n)
      <4>1. k - n \in DOMAIN q /\ k = n + (k - n)
        BY <1>3, <3>2
      <4> QED BY <4>1
    <3> QED BY <3>1, <3>2
  <2> QED BY <2>1, <2>2, <2>3
<1>8. ASSUME NEW x \in Inputs \ {i}, NEW y \in Inputs \ {i}, Lined(x, y) PROVE Lined(x, y)'
  <2>1. CASE gone[x] = "blocked"
    BY <1>1, <2>1 DEF Lined
  <2>2. CASE Ahead(x, y)
    <3>1. AheadQueued(x, y)'
      <4> SUFFICES ASSUME NEW k \in Queued(priority, y)', Committed(x) = {}, ~InHand(x)
                   PROVE  \E j \in Queued(priority, x)' : j < k
        BY <1>1, <1>2 DEF AheadQueued
      <4>1. CASE k \in Queued(priority, y)
        BY <1>5, <2>2, <4>1 DEF Ahead, AheadQueued
      <4>2. ASSUME NEW m \in Waiting(y), k = n + m PROVE \E j \in Queued(priority, x)' : j < k
        <5>1. PICK j \in Waiting(x) : j < m
          BY <2>2 DEF Ahead, AheadWaiting
        <5>2. n + j \in Queued(priority, x)' /\ j \in Nat /\ m \in Nat
          BY <1>3, <1>6
        <5>3. n + j < k
          BY <4>2, <5>1, <5>2
        <5> QED BY <5>2, <5>3
      <4> QED BY <1>7, <4>1, <4>2
    <3>2. Ahead(x, y)'
      BY <1>1, <1>2, <2>2, <3>1 DEF Ahead, AheadDone, AheadInHand, AheadWaiting
    <3> QED BY <3>2 DEF Lined
  <2> QED BY <1>8, <2>1, <2>2 DEF Lined
<1>9. ASSUME NEW x \in Range(accepted), named[x] = expected PROVE Lined(x, i)'
  <2>0. x \in Inputs
    BY RangeOfSeq DEF Typed, Sequenced
  <2>1. caller[i] # "sent" /\ accepting /\ named[x] = turn
    BY <1>9 DEF InterruptTurn, Expects
  <2>2. Committed(i) = {} /\ ~InHand(i) /\ \A t \in Range(priority) : t.id # i
    BY <2>1, Nowhere
  <2>3. Queued(priority, i) = {} /\ Waiting(i) = {}
    <3>1. i \notin Range(steers)
      BY <2>1, Nowhere
    <3> QED BY <2>2, <3>1 DEF Queued, Waiting, Range
  <2>4. CASE gone[x] = "blocked"
    BY <1>1, <2>4 DEF Lined
  <2>5. CASE Committed(x) # {} \/ Waiting(x) # {}
    <3>1. AheadQueued(x, i)'
      <4> SUFFICES ASSUME NEW k \in Queued(priority, i)', Committed(x) = {}
                   PROVE  \E j \in Queued(priority, x)' : j < k
        BY <1>2, <2>0 DEF AheadQueued
      <4>1. PICK m \in Waiting(x) : n + m \in Queued(priority, x)' /\ m \in 1..Len(steers)
        BY <1>6, <2>0, <2>5
      <4>2. k = n + Len(steers) + 1
        BY <1>7, <2>3
      <4>3. n + m < k
        BY <1>3, <4>1, <4>2
      <4> QED BY <4>1, <4>3
    <3>2. Ahead(x, i)'
      BY <1>1, <1>2, <2>2, <3>1 DEF Ahead, AheadDone, AheadInHand, AheadWaiting
    <3> QED BY <3>2 DEF Lined
  <2> QED BY <2>1, <2>4, <2>5, HeardForTurn
<1> QED BY <1>8, <1>9

LEMMA LinedStep ==
  ASSUME Typed, Placed, Lands, [Next]_vars, UNCHANGED promiseVars,
         NEW x \in Inputs, NEW y \in Inputs, named[y] # 0, Lined(x, y)
  PROVE  Lined(x, y)'
<1> USE DEF queueVars, turnVars, historyVars, callerVars
<1>1. CASE Rest
  BY <1>1, LinedSame DEF Rest
<1>2. CASE Continue
  <2>1. \A i \in Inputs : InHand(i)' = InHand(i)
    BY <1>2 DEF Continue, InHand
  <2> QED BY <1>2, <2>1, LinedSame DEF Continue
<1>3. ASSUME NEW r \in Requests, SubmitPush(r) PROVE Lined(x, y)'
  <2>1. \A i \in Inputs : InHand(i)' = InHand(i)
    BY <1>3 DEF SubmitPush, InHand
  <2> QED BY <1>3, <2>1, LinedSame DEF SubmitPush
<1>4. ASSUME NEW c \in Controls, EnqueueControl(c) PROVE Lined(x, y)'
  <2>1. \A i \in Inputs : InHand(i)' = InHand(i)
    BY <1>4 DEF EnqueueControl, InHand
  <2> QED BY <1>4, <2>1, LinedSame DEF EnqueueControl
<1>5. ASSUME NEW i \in Inputs, NEW expected \in 1..turnNo,
             SteerInput(i, expected) \/ InterruptTurn(i, expected)
      PROVE  FALSE
  <2>1. caller[i] = "new" /\ caller'[i] = "sent" /\ accepted' = Append(accepted, i)
        /\ accepted \in Seq(Inputs)
    BY <1>5 DEF SteerInput, InterruptTurn, Expects, Promise, Typed, Sequenced, Mapped, Requests
  <2>2. Len(accepted') = Len(accepted) + 1 /\ Len(accepted) \in Nat
    BY <2>1, AppendProperties, LenProperties
  <2> QED BY <2>2 DEF promiseVars
<1> QED
  BY <1>1, <1>2, <1>3, <1>4, <1>5, Moves, LinedDrain, LinedPrepare, LinedHook, LinedClose,
     LinedDequeue

LEMMA InOrderStep ==
  ASSUME Typed, Placed, Lands, Recorded, Dropped, Heard, Open, InOrder, [Next]_vars
  PROVE  InOrder'
<1>t. /\ accepted \in Seq(Inputs) /\ Range(accepted) \subseteq Inputs
      /\ DOMAIN accepted = 1..Len(accepted) /\ Len(accepted) \in Nat
      /\ named \in [Inputs -> Nat]
  BY RangeOfSeq, LenProperties DEF Typed, Sequenced, Mapped
<1>m. \A a \in DOMAIN accepted : accepted[a] \in Range(accepted)
  BY DEF Range
<1>1. CASE UNCHANGED promiseVars
  <2> SUFFICES ASSUME NEW a \in DOMAIN accepted, NEW b \in DOMAIN accepted, a < b,
                      named[accepted[a]] = named[accepted[b]]
               PROVE  Lined(accepted[a], accepted[b])'
    BY <1>1 DEF InOrder, promiseVars
  <2>1. Lined(accepted[a], accepted[b]) /\ accepted[a] \in Inputs /\ accepted[b] \in Inputs
        /\ named[accepted[b]] # 0
    BY <1>t, <1>m DEF InOrder, Heard
  <2>2. PICK x \in Inputs, y \in Inputs : x = accepted[a] /\ y = accepted[b]
    BY <2>1
  <2>3. Lined(x, y)'
    BY <1>1, <2>1, <2>2, LinedStep
  <2>4. UNCHANGED accepted
    BY <1>1 DEF promiseVars
  <2> QED BY <2>2, <2>3, <2>4
<1>2. ASSUME NEW i \in Inputs, NEW expected \in 1..turnNo,
             SteerInput(i, expected) \/ InterruptTurn(i, expected)
      PROVE  InOrder'
  <2>1. /\ \A x, y \in Inputs \ {i} : Lined(x, y) => Lined(x, y)'
        /\ \A x \in Range(accepted) : named[x] = expected => Lined(x, i)'
    BY <1>2, LinedSteer, LinedInterrupt
  <2>2. caller[i] = "new" /\ accepted' = Append(accepted, i)
        /\ named' = [named EXCEPT ![i] = expected]
    BY <1>2 DEF SteerInput, InterruptTurn, Expects, Promise
  <2>3. PICK acc \in Seq(Inputs) :
          /\ acc = accepted' /\ DOMAIN acc = 1..(Len(accepted) + 1)
          /\ \A a \in 1..Len(accepted) : acc[a] = accepted[a]
          /\ acc[Len(accepted) + 1] = i
    <3>1. /\ Append(accepted, i) \in Seq(Inputs)
          /\ Len(Append(accepted, i)) = Len(accepted) + 1
          /\ \A a \in 1..Len(accepted) : Append(accepted, i)[a] = accepted[a]
          /\ Append(accepted, i)[Len(accepted) + 1] = i
      BY <1>t, AppendProperties
    <3> QED BY <2>2, <3>1, LenProperties
  <2>4. i \notin Range(accepted)
    BY <2>2 DEF Heard
  <2>5. \A x \in Range(accepted) : named'[x] = named[x]
    BY <1>t, <2>2, <2>4
  <2>6. named'[i] = expected
    BY <1>t, <2>2
  <2> SUFFICES ASSUME NEW a \in DOMAIN acc, NEW b \in DOMAIN acc, a < b,
                      named'[acc[a]] = named'[acc[b]]
               PROVE  Lined(acc[a], acc[b])'
    BY <2>3 DEF InOrder
  <2>7. a \in DOMAIN accepted /\ acc[a] = accepted[a] /\ acc[a] \in Range(accepted)
    <3>1. a \in 1..Len(accepted)
      BY <1>t, <2>3
    <3> QED BY <1>t, <1>m, <2>3, <3>1
  <2>8. CASE b \in DOMAIN accepted
    <3>1. acc[b] = accepted[b] /\ acc[b] \in Range(accepted)
      BY <1>t, <1>m, <2>3, <2>8
    <3>2. Lined(acc[a], acc[b])
      BY <2>5, <2>7, <2>8, <3>1 DEF InOrder
    <3>3. PICK x \in Inputs \ {i}, y \in Inputs \ {i} : x = acc[a] /\ y = acc[b]
      BY <1>t, <2>4, <2>7, <3>1
    <3>4. Lined(x, y)'
      BY <2>1, <3>2, <3>3
    <3> QED BY <3>3, <3>4
  <2>9. CASE b = Len(accepted) + 1
    <3>1. acc[b] = i /\ named[acc[a]] = expected
      BY <2>3, <2>5, <2>6, <2>7, <2>9
    <3> QED BY <2>1, <2>7, <3>1
  <2> QED BY <1>t, <2>3, <2>8, <2>9
<1> QED BY <1>1, <1>2, PromisesKept

(* Inputs accepted for one turn are committed in the order of acceptance,  *)
(* also when an interrupt moved the earlier ones to the priority queue, a  *)
(* hook refused one between them, or the worker took them one by one.      *)
THEOREM OrderCorrect == Spec => []AcceptedInOrder
<1>1. Typed /\ Heard /\ [Next]_vars => Heard'
  BY HeardStep
<1>2. Typed /\ Typed' /\ Open /\ [Next]_vars => Open'
  BY OpenStep
<1>3. Typed /\ Placed /\ Lands /\ Recorded /\ Dropped /\ Heard /\ Open /\ InOrder /\ [Next]_vars
        => InOrder'
  BY InOrderStep
<1>4. InOrder => AcceptedInOrder
  BY DEF InOrder, Lined, Ahead, AheadDone, AcceptedInOrder
<1> QED
  BY <1>1, <1>2, <1>3, <1>4, AlwaysTyped, AlwaysPlaced, AlwaysLands, AlwaysDropped,
     OrderInit, PTL DEF Spec
==============================================================================
