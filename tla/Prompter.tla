------------------------------- MODULE Prompter -------------------------------
(***************************************************************************)
(* How a session asks its user (src/session/permission_prompter.cpp and    *)
(* ask_user_question_prompter.cpp): the tools that wait for an answer, the *)
(* clients that show a card for it and answer, a change of the permission  *)
(* mode, stop and timeout, and a client that connects while a request is   *)
(* open (src/web/routes/routes_ws.cpp), for one turn of the agent.         *)
(*                                                                         *)
(* One action is one section under pending_mu_ or under a request's own    *)
(* mutex, one read of the permission mode, one emit, or one message to a   *)
(* client.  What is asked and what is answered is left out: an answer is   *)
(* the client that gave it.                                                *)
(***************************************************************************)
EXTENDS Integers, Sequences, FiniteSets

CONSTANTS
  Permissions,             \* tool calls that need a permission, run one by one
  Questions,               \* AskUserQuestion calls, run side by side
  Timed,                   \* the requests with a timeout
  Clients,                 \* connections of user interfaces
  Connected,               \* those subscribed before the turn
  Nobody,                  \* no client, no request
  MaxSwitches,             \* bound: changes of the permission mode
  MaxLate                  \* bound: submits that take the agent for idle

Requests == Permissions \union Questions

ASSUME ConstantsAssumption ==
  /\ Permissions \intersect Questions = {}
  /\ Timed \subseteq Requests
  /\ Connected \subseteq Clients
  /\ Nobody \notin Requests \union Clients
  /\ {MaxSwitches, MaxLate} \subseteq Nat

ASSUME NamesAssumption ==
  \A c \in Clients \union {Nobody} :
    c \notin {"mode", "abort", "timeout", "yolo", "rule", "hook"}

VARIABLES
  mode,                    \* PermissionManager::mode_: "default" stands for all but Yolo
  switches,                \* mode changes so far
  resolving,               \* set_permission_mode: where it stands
  toResolve,               \* resolve_all: copied requests not visited yet
  abort,                   \* abort_requested_
  late,                    \* submits that have read busy_ before the turn began
                           \* and are about to clear abort_requested_
  turn,                    \* "running" or "over"
  at,                      \* where the tool call of each request stands
  pending,                 \* the keys of pending_
  verdict,                 \* Pending: who settled it (responded, accepting)
  returned,                \* what prompt() or the check before it came to
  hand,                    \* notify_*: the request a client has looked up
  told,                    \* what became of a client's answer
  stream,                  \* events emitted to a subscribed client, not delivered
  snap,                    \* where the client's connection handler stands
  card                     \* the client's queue entry of each request

modeVars == <<mode, switches, resolving, toResolve>>
toolVars == <<at, returned>>
tableVars == <<pending, verdict>>
answerVars == <<hand, told>>
clientVars == <<stream, snap, card>>
stopVars == <<abort, late>>
vars == <<modeVars, stopVars, turn, toolVars, tableVars, answerVars, clientVars>>

\* What a client is sent, and where its connection handler stands.
Events == [type : {"request", "closed", "over"}, of : Requests \union {Nobody}]

Standing(pc, table, ids, found) ==
  [pc |-> pc, table |-> table, ids |-> ids, found |-> found]

Out == Standing("out", "none", {}, {})
In == Standing("in", "none", {}, {})

Init ==
  /\ mode = "default"
  /\ switches = 0
  /\ resolving = "idle"
  /\ toResolve = {}
  /\ abort = FALSE
  /\ late \in 0..MaxLate
  /\ turn = "running"
  /\ at = [r \in Requests |-> "new"]
  /\ pending = {}
  /\ verdict = [r \in Requests |-> Nobody]
  /\ returned = [r \in Requests |-> Nobody]
  /\ hand = [c \in Clients |-> Nobody]
  /\ told = [c \in Clients |-> [r \in Requests |-> "none"]]
  /\ stream = [c \in Clients |-> <<>>]
  /\ snap = [c \in Clients |-> IF c \in Connected THEN In ELSE Out]
  /\ card = [c \in Clients |-> [r \in Requests |-> "none"]]
-----------------------------------------------------------------------------
(* Plausible mistakes in the code below.  No action uses them: each one,   *)
(* put in the place of the definition it is named after, must break a      *)
(* property.                                                               *)

SubscribedLate(c) == snap[c].pc = "in"       \* subscribes after the snapshot

GiveUpOpen(r, reason) ==                     \* leaves without settling it
  /\ verdict[r] = Nobody
  /\ at[r] = "wait"
  /\ at' = [at EXCEPT ![r] = "erase"]
  /\ returned' = [returned EXCEPT ![r] = reason]
  /\ UNCHANGED <<modeVars, stopVars, turn, tableVars, answerVars, clientVars>>

WaitAbortedByPermission(r) ==                \* questions never look at the flag
  /\ abort /\ r \in Permissions
  /\ verdict[r] = Nobody
  /\ at[r] = "wait"
  /\ at' = [at EXCEPT ![r] = "erase"]
  /\ returned' = [returned EXCEPT ![r] = "abort"]
  /\ verdict' = [verdict EXCEPT ![r] = "abort"]
  /\ UNCHANGED <<modeVars, stopVars, turn, pending, answerVars, clientVars>>

DeliverRemoves(c) ==                         \* a closed card leaves no tombstone
  /\ stream[c] # <<>>
  /\ LET event == Head(stream[c])
     IN  card' = [card EXCEPT ![c] = [r \in Requests |->
           IF event.of # r THEN @[r]
           ELSE IF event.type = "closed" THEN "none"
           ELSE IF @[r] = "none" THEN "pending" ELSE @[r]]]
  /\ stream' = [stream EXCEPT ![c] = Tail(@)]
  /\ UNCHANGED <<modeVars, stopVars, turn, toolVars, tableVars, answerVars, snap>>
-----------------------------------------------------------------------------
(* The tool call.  A permission is first decided without asking: by the    *)
(* mode (should_auto_allow, then a second read of the mode) and by a hook, *)
(* which is an external program.                                           *)

Started(r) == at[r] \notin {"new", "done"}

Move(r, from, to) == at[r] = from /\ at' = [at EXCEPT ![r] = to]

Return(r, result) == returned' = [returned EXCEPT ![r] = result]

CheckAllow(r) ==
  /\ r \in Permissions
  /\ turn = "running" /\ ~abort
  /\ \A q \in Requests : ~Started(q)
  /\ \/ mode = "yolo" /\ Move(r, "new", "done") /\ Return(r, "yolo")
     \/ mode # "yolo" /\ Move(r, "new", "check") /\ UNCHANGED returned
  /\ UNCHANGED <<modeVars, stopVars, turn, tableVars, answerVars, clientVars>>

CheckMode(r) ==
  /\ \/ mode = "yolo" /\ Move(r, "check", "done") /\ Return(r, "rule")
     \/ mode # "yolo" /\ Move(r, "check", "hook") /\ UNCHANGED returned
  /\ UNCHANGED <<modeVars, stopVars, turn, tableVars, answerVars, clientVars>>

HookDecides(r) ==
  /\ Move(r, "hook", "done")
  /\ Return(r, "hook")
  /\ UNCHANGED <<modeVars, stopVars, turn, tableVars, answerVars, clientVars>>

(* prompt(): the request is in pending_ before clients hear of it. *)
Register(r) ==
  /\ \/ r \in Permissions /\ Move(r, "hook", "emit")
     \/ /\ r \in Questions
        /\ turn = "running"
        /\ \A p \in Permissions : ~Started(p)
        /\ Move(r, "new", "emit")
  /\ pending' = pending \union {r}
  /\ UNCHANGED <<modeVars, stopVars, turn, returned, verdict, answerVars,
                 clientVars>>

Subscribed(c) == snap[c].pc # "out"

EmitToAll(event) ==
  stream' = [c \in Clients |-> IF Subscribed(c) THEN Append(stream[c], event)
                                                ELSE stream[c]]

Announce(r) ==
  /\ Move(r, "emit", "wait")
  /\ EmitToAll([type |-> "request", of |-> r])
  /\ UNCHANGED <<modeVars, stopVars, turn, returned, tableVars, answerVars, snap,
                 card>>

(* The three ways out of the wait, in the order the loop looks at them.    *)
(* Leaving unanswered settles the request in the same section.             *)
WaitAnswered(r) ==
  /\ verdict[r] # Nobody
  /\ Move(r, "wait", "erase")
  /\ Return(r, verdict[r])
  /\ UNCHANGED <<modeVars, stopVars, turn, tableVars, answerVars, clientVars>>

GiveUp(r, reason) ==
  /\ verdict[r] = Nobody
  /\ Move(r, "wait", "erase")
  /\ Return(r, reason)
  /\ verdict' = [verdict EXCEPT ![r] = reason]
  /\ UNCHANGED <<modeVars, stopVars, turn, pending, answerVars, clientVars>>

WaitAborted(r) == abort /\ GiveUp(r, "abort")

WaitTimedOut(r) == r \in Timed /\ ~abort /\ GiveUp(r, "timeout")

Erase(r) ==
  /\ Move(r, "erase", "close")
  /\ pending' = pending \ {r}
  /\ UNCHANGED <<modeVars, stopVars, turn, returned, verdict, answerVars,
                 clientVars>>

Close(r) ==
  /\ Move(r, "close", "done")
  /\ EmitToAll([type |-> "closed", of |-> r])
  /\ UNCHANGED <<modeVars, stopVars, turn, returned, tableVars, answerVars, snap,
                 card>>

(* The turn ends when its tools have returned; clients are told.           *)
EndTurn ==
  /\ turn = "running"
  /\ \A r \in Requests : ~Started(r)
  /\ turn' = "over"
  /\ EmitToAll([type |-> "over", of |-> Nobody])
  /\ UNCHANGED <<modeVars, stopVars, toolVars, tableVars, answerVars, snap, card>>

Abort ==
  /\ turn = "running"
  /\ abort' = TRUE
  /\ UNCHANGED <<modeVars, late, turn, toolVars, tableVars, answerVars, clientVars>>

(* clear_stale_abort_request: a submit that found the agent idle clears     *)
(* the flag, although a turn has begun and been stopped since.             *)
ClearStale ==
  /\ late > 0
  /\ late' = late - 1
  /\ abort' = FALSE
  /\ UNCHANGED <<modeVars, turn, toolVars, tableVars, answerVars, clientVars>>
-----------------------------------------------------------------------------
(* A client answers a card it shows: notify_decision, notify_response.     *)

Respond(c, r) ==
  /\ card[c][r] = "pending" /\ told[c][r] = "none" /\ hand[c] = Nobody
  /\ \/ /\ r \in pending
        /\ hand' = [hand EXCEPT ![c] = r]
        /\ UNCHANGED told
     \/ /\ r \notin pending
        /\ told' = [told EXCEPT ![c][r] = "closed"]
        /\ UNCHANGED hand
  /\ card' = [card EXCEPT ![c][r] = IF r \in Permissions THEN "submitting" ELSE @]
  /\ UNCHANGED <<modeVars, stopVars, turn, toolVars, tableVars, stream, snap>>

Answer(c) ==
  /\ hand[c] # Nobody
  /\ \/ /\ verdict[hand[c]] = Nobody
        /\ verdict' = [verdict EXCEPT ![hand[c]] = c]
        /\ told' = [told EXCEPT ![c][hand[c]] = "accepted"]
     \/ /\ verdict[hand[c]] # Nobody
        /\ told' = [told EXCEPT ![c][hand[c]] = "closed"]
        /\ UNCHANGED verdict
  /\ hand' = [hand EXCEPT ![c] = Nobody]
  /\ UNCHANGED <<modeVars, stopVars, turn, toolVars, pending, clientVars>>

(* set_permission_mode, under the registry's mutex to its end; Yolo also   *)
(* answers every permission that is being asked (resolve_all).             *)
SetMode ==
  /\ switches < MaxSwitches
  /\ resolving = "idle"
  /\ switches' = switches + 1
  /\ mode' \in {"default", "yolo"} \ {mode}
  /\ resolving' = IF mode' = "yolo" THEN "copy" ELSE "idle"
  /\ UNCHANGED <<toResolve, stopVars, turn, toolVars, tableVars, answerVars,
                 clientVars>>

ResolveCopy ==
  /\ resolving = "copy"
  /\ toResolve' = pending \intersect Permissions
  /\ resolving' = IF toResolve' = {} THEN "idle" ELSE "visit"
  /\ UNCHANGED <<mode, switches, stopVars, turn, toolVars, tableVars, answerVars,
                 clientVars>>

ResolveVisit(r) ==
  /\ resolving = "visit" /\ r \in toResolve
  /\ verdict' = [verdict EXCEPT ![r] = IF @ = Nobody THEN "mode" ELSE @]
  /\ toResolve' = toResolve \ {r}
  /\ resolving' = IF toResolve' = {} THEN "idle" ELSE "visit"
  /\ UNCHANGED <<mode, switches, stopVars, turn, toolVars, pending, answerVars,
                 clientVars>>
-----------------------------------------------------------------------------
(* A client: pushPermissionRequest and addPendingQuestionRequest add a     *)
(* card once, a closed request stays as a tombstone until the turn ends.   *)

Show(c, r) ==
  card' = [card EXCEPT ![c][r] = IF @ = "none" THEN "pending" ELSE @]

Deliver(c) ==
  /\ stream[c] # <<>>
  /\ LET event == Head(stream[c])
     IN  \/ event.type = "request" /\ Show(c, event.of)
         \/ event.type = "closed" /\ card' = [card EXCEPT ![c][event.of] = "resolved"]
         \/ /\ event.type = "over"
            /\ card' = [card EXCEPT ![c] = [r \in Requests |->
                           IF @[r] = "resolved" THEN "none" ELSE @[r]]]
  /\ stream' = [stream EXCEPT ![c] = Tail(@)]
  /\ UNCHANGED <<modeVars, stopVars, turn, toolVars, tableVars, answerVars, snap>>

(* Its connection: subscribe without replay, then the requests found open, *)
(* one table after the other: copy the table, look at each entry, send     *)
(* what is unanswered.                                                     *)
Connect(c) ==
  /\ snap[c].pc = "out"
  /\ snap' = [snap EXCEPT ![c] = Standing("copy", "permission", {}, {})]
  /\ UNCHANGED <<modeVars, stopVars, turn, toolVars, tableVars, answerVars,
                 stream, card>>

Table(name) == IF name = "permission" THEN Permissions ELSE Questions

SnapshotCopy(c) ==
  /\ snap[c].pc = "copy"
  /\ snap' = [snap EXCEPT ![c] =
                Standing("look", @.table, pending \intersect Table(@.table), {})]
  /\ UNCHANGED <<modeVars, stopVars, turn, toolVars, tableVars, answerVars,
                 stream, card>>

SnapshotLook(c, r) ==
  /\ snap[c].pc = "look" /\ r \in snap[c].ids
  /\ snap' = [snap EXCEPT ![c] =
                Standing("look", @.table, @.ids \ {r},
                         IF verdict[r] = Nobody THEN @.found \union {r} ELSE @.found)]
  /\ UNCHANGED <<modeVars, stopVars, turn, toolVars, tableVars, answerVars,
                 stream, card>>

SnapshotSend(c, r) ==
  /\ snap[c].pc = "look" /\ snap[c].ids = {} /\ r \in snap[c].found
  /\ snap' = [snap EXCEPT ![c] = Standing("look", @.table, {}, @.found \ {r})]
  /\ Show(c, r)
  /\ UNCHANGED <<modeVars, stopVars, turn, toolVars, tableVars, answerVars, stream>>

SnapshotEnd(c) ==
  /\ snap[c].pc = "look" /\ snap[c].ids = {} /\ snap[c].found = {}
  /\ snap' = [snap EXCEPT ![c] =
                IF @.table = "permission"
                THEN Standing("copy", "question", {}, {})
                ELSE In]
  /\ UNCHANGED <<modeVars, stopVars, turn, toolVars, tableVars, answerVars,
                 stream, card>>
-----------------------------------------------------------------------------
Tool(r) ==
  \/ CheckAllow(r) \/ CheckMode(r) \/ HookDecides(r) \/ Register(r)
  \/ Announce(r) \/ WaitAnswered(r) \/ WaitAborted(r) \/ WaitTimedOut(r)
  \/ Erase(r) \/ Close(r)

Handler(c) ==
  \/ Connect(c) \/ SnapshotCopy(c) \/ SnapshotEnd(c)
  \/ \E r \in Requests : SnapshotLook(c, r) \/ SnapshotSend(c, r)

Next ==
  \/ \E r \in Requests : Tool(r) \/ ResolveVisit(r)
  \/ EndTurn \/ Abort \/ ClearStale \/ SetMode \/ ResolveCopy
  \/ \E c \in Clients : Answer(c) \/ Deliver(c) \/ Handler(c)
  \/ \E c \in Clients, r \in Requests : Respond(c, r)

Spec == Init /\ [][Next]_vars

(* The agent's threads run on: a tool call that has begun goes on to its   *)
(* end, a stopped prompt looks at its flag within 50 ms, hooks return, and *)
(* the turn ends when no tool call is left.  Nobody has to answer.         *)
Fairness ==
  WF_vars(EndTurn \/ \E r \in Requests : at[r] # "new" /\ Tool(r))

FairSpec == Spec /\ Fairness
-----------------------------------------------------------------------------
Reasons == {"mode", "abort", "timeout"}

TypeOK ==
  /\ mode \in {"default", "yolo"} /\ switches \in 0..MaxSwitches
  /\ resolving \in {"idle", "copy", "visit"}
  /\ toResolve \subseteq Permissions
  /\ abort \in BOOLEAN /\ late \in 0..MaxLate
  /\ turn \in {"running", "over"}
  /\ at \in [Requests -> {"new", "check", "hook", "emit", "wait", "erase",
                         "close", "done"}]
  /\ pending \subseteq Requests
  /\ verdict \in [Requests -> Clients \union Reasons \union {Nobody}]
  /\ returned \in [Requests -> Clients \union Reasons \union
                               {"yolo", "rule", "hook", Nobody}]
  /\ hand \in [Clients -> Requests \union {Nobody}]
  /\ told \in [Clients -> [Requests -> {"none", "accepted", "closed"}]]
  /\ stream \in [Clients -> Seq(Events)]
  /\ snap \in [Clients -> [pc : {"out", "copy", "look", "in"},
                          table : {"none", "permission", "question"},
                          ids : SUBSET Requests, found : SUBSET Requests]]
  /\ card \in [Clients -> [Requests -> {"none", "pending", "submitting", "resolved"}]]

(* A request has one outcome.  The client whose answer was accepted is the *)
(* one the tool acts on, whatever stop, timeout, other clients and mode    *)
(* changes do at the same moment, and an answer that does not count is     *)
(* never reported as accepted (notify_response).                           *)
AcceptedAnswerCounts ==
  \A c \in Clients, r \in Requests :
    /\ told[c][r] = "accepted" => verdict[r] = c /\ returned[r] \in {c, Nobody}
    /\ returned[r] = c => told[c][r] = "accepted"

(* A stop or a mode change does not take an answer back: once settled, a   *)
(* request keeps its verdict.                                              *)
VerdictIsFinal ==
  [][\A r \in Requests : verdict[r] # Nobody => verdict'[r] = verdict[r]]_vars

UpToDate(c) == snap[c].pc = "in" /\ stream[c] = <<>>

(* A client that connects at any moment gets every open request: either    *)
(* its event, because the subscription came first, or the snapshot, because *)
(* the request was in the table before it was announced.                   *)
NoMissedRequest ==
  \A c \in Clients, r \in Requests :
    (UpToDate(c) /\ at[r] = "wait" /\ verdict[r] = Nobody) => card[c][r] # "none"

(* During the turn no client keeps a card of a request that is over, even  *)
(* if a snapshot of the request reaches it after the request was closed.   *)
NoStaleCardInTurn ==
  \A c \in Clients, r \in Requests :
    (UpToDate(c) /\ at[r] = "done" /\ turn = "running") =>
      card[c][r] \in {"none", "resolved"}

(* A stop releases the worker from every question and permission, and the  *)
(* turn ends, unless a late submit takes the stop back: a wait that has not *)
(* looked at the flag by then goes on.                                      *)
StopEndsTurn == abort ~> (turn = "over" \/ ~abort)
=============================================================================
