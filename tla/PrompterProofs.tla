---------------------------- MODULE PrompterProofs ----------------------------
(***************************************************************************)
(* Proofs about Prompter: types, the one verdict of every request, and     *)
(* that an answer reported as accepted is the one the tool acts on.        *)
(***************************************************************************)
EXTENDS Prompter, TLAPS

(* Changing one entry of a table of tables keeps its type.                 *)
LEMMA EntryType ==
  ASSUME NEW S, NEW T, NEW V, NEW f \in [S -> [T -> V]],
         NEW c \in S, NEW r \in T, NEW v \in V
  PROVE  [f EXCEPT ![c][r] = v] \in [S -> [T -> V]]
OBVIOUS

(* What is emitted is added to the streams of the clients.                 *)
LEMMA EmitType ==
  ASSUME TypeOK, NEW e \in Events, EmitToAll(e)
  PROVE  stream' \in [Clients -> Seq(Events)]
BY DEF TypeOK, EmitToAll, Subscribed

(* A new standing of one connection handler has its type.                  *)
LEMMA StandingType ==
  ASSUME TypeOK, NEW c \in Clients,
         NEW pc \in {"out", "copy", "look", "in"},
         NEW table \in {"none", "permission", "question"},
         NEW ids \in SUBSET Requests, NEW found \in SUBSET Requests,
         snap' = [snap EXCEPT ![c] = Standing(pc, table, ids, found)]
  PROVE  snap' \in [Clients -> [pc : {"out", "copy", "look", "in"},
                                table : {"none", "permission", "question"},
                                ids : SUBSET Requests, found : SUBSET Requests]]
BY DEF TypeOK, Standing

Places == {"new", "check", "hook", "emit", "wait", "erase", "close", "done"}
Results == Clients \union Reasons \union {"yolo", "rule", "hook", Nobody}

(* Every variable keeps its type through every step of a tool call.        *)
LEMMA TypeOKTool ==
  ASSUME TypeOK, NEW r \in Requests, Tool(r)
  PROVE  TypeOK'
<1> USE ConstantsAssumption
<1>2. CASE CheckAllow(r)
  <2>1. at' \in [Requests -> Places]
    BY <1>2 DEF CheckAllow, TypeOK, Move, Places
  <2>2. returned' \in [Requests -> Results]
    BY <1>2 DEF CheckAllow, TypeOK, Return, Results
  <2> QED BY <1>2, <2>1, <2>2 DEF CheckAllow, TypeOK, Places, Results, stopVars, modeVars,
       tableVars,
                                   answerVars, clientVars
<1>3. CASE CheckMode(r)
  <2>1. at' \in [Requests -> Places]
    BY <1>3 DEF CheckMode, TypeOK, Move, Places
  <2>2. returned' \in [Requests -> Results]
    BY <1>3 DEF CheckMode, TypeOK, Return, Results
  <2> QED BY <1>3, <2>1, <2>2 DEF CheckMode, TypeOK, Places, Results, stopVars, modeVars,
       tableVars,
                                   answerVars, clientVars
<1>4. CASE HookDecides(r)
  BY <1>4 DEF HookDecides, TypeOK, Move, Return, stopVars, modeVars, tableVars, answerVars,
       clientVars
<1>5. CASE Register(r)
  BY <1>5 DEF Register, TypeOK, Move, stopVars, modeVars, answerVars, clientVars
<1>6. CASE Announce(r)
  <2>1. stream' \in [Clients -> Seq(Events)]
    BY EmitType, <1>6 DEF Announce, Events
  <2> QED BY <1>6, <2>1 DEF Announce, TypeOK, Move, stopVars, modeVars, tableVars, answerVars
<1>7. CASE WaitAnswered(r)
  BY <1>7 DEF WaitAnswered, TypeOK, Move, Return, Reasons, stopVars, modeVars, tableVars,
       answerVars, clientVars
<1>8. CASE WaitAborted(r)
  BY <1>8 DEF WaitAborted, GiveUp, TypeOK, Move, Return, Reasons, stopVars, modeVars,
       answerVars, clientVars
<1>9. CASE WaitTimedOut(r)
  BY <1>9 DEF WaitTimedOut, GiveUp, TypeOK, Move, Return, Reasons, stopVars, modeVars,
       answerVars, clientVars
<1>10. CASE Erase(r)
  BY <1>10 DEF Erase, TypeOK, Move, stopVars, modeVars, answerVars, clientVars
<1>11. CASE Close(r)
  <2>1. stream' \in [Clients -> Seq(Events)]
    BY EmitType, <1>11 DEF Close, Events
  <2> QED BY <1>11, <2>1 DEF Close, TypeOK, Move, stopVars, modeVars, tableVars, answerVars
<1> QED
  BY <1>2, <1>3, <1>4, <1>5, <1>6, <1>7, <1>8, <1>9, <1>10, <1>11 DEF Tool

(* Every variable keeps its type through the steps of clients, of the      *)
(* mode switch, of a stop and of the end of the turn.                      *)
LEMMA TypeOKOthers ==
  ASSUME TypeOK,
         \/ EndTurn \/ Abort \/ ClearStale \/ SetMode \/ ResolveCopy
         \/ \E r \in Requests : ResolveVisit(r)
         \/ \E c \in Clients : Answer(c) \/ Deliver(c) \/ Handler(c)
         \/ \E c \in Clients, r \in Requests : Respond(c, r)
  PROVE  TypeOK'
<1> USE ConstantsAssumption
<1>1. CASE EndTurn
  <2>1. stream' \in [Clients -> Seq(Events)]
    BY EmitType, <1>1 DEF EndTurn, Events
  <2> QED BY <1>1, <2>1 DEF EndTurn, TypeOK, stopVars, modeVars, toolVars, tableVars, answerVars
<1>2. CASE Abort \/ ClearStale
  <2>1. late' \in 0..MaxLate
    BY <1>2 DEF Abort, ClearStale, TypeOK
  <2>2. abort' \in BOOLEAN
    BY <1>2 DEF Abort, ClearStale
  <2>3. UNCHANGED <<modeVars, turn, toolVars, tableVars, answerVars, clientVars>>
    BY <1>2 DEF Abort, ClearStale
  <2> QED BY <2>1, <2>2, <2>3 DEF TypeOK, modeVars, toolVars, tableVars, answerVars, clientVars
<1>3. CASE SetMode
  BY <1>3 DEF SetMode, TypeOK, stopVars, toolVars, tableVars, answerVars, clientVars
<1>4. CASE ResolveCopy
  BY <1>4 DEF ResolveCopy, TypeOK, stopVars, toolVars, tableVars, answerVars, clientVars
<1>5. ASSUME NEW r \in Requests, ResolveVisit(r) PROVE TypeOK'
  <2>1. verdict' \in [Requests -> Clients \union Reasons \union {Nobody}]
    BY <1>5 DEF ResolveVisit, TypeOK, Reasons
  <2>2. toResolve' \subseteq Permissions /\ resolving' \in {"idle", "copy", "visit"}
    BY <1>5 DEF ResolveVisit, TypeOK
  <2> QED BY <1>5, <2>1, <2>2 DEF ResolveVisit, TypeOK, stopVars, toolVars, answerVars,
       clientVars
<1>6. ASSUME NEW c \in Clients, Answer(c) PROVE TypeOK'
  <2>1. hand[c] \in Requests
    BY <1>6 DEF Answer, TypeOK
  <2>2. hand' \in [Clients -> Requests \union {Nobody}]
    BY <1>6 DEF Answer, TypeOK
  <2>3. told' \in [Clients -> [Requests -> {"none", "accepted", "closed"}]]
    <3>1. PICK result \in {"accepted", "closed"} :
            told' = [told EXCEPT ![c][hand[c]] = result]
      BY <1>6 DEF Answer
    <3> QED BY <2>1, <3>1, EntryType DEF TypeOK
  <2>4. verdict' \in [Requests -> Clients \union Reasons \union {Nobody}]
    <3>1. verdict' = verdict \/ verdict' = [verdict EXCEPT ![hand[c]] = c]
      BY <1>6 DEF Answer
    <3>2. verdict \in [Requests -> Clients \union Reasons \union {Nobody}]
      BY DEF TypeOK
    <3>3. c \in Clients \union Reasons \union {Nobody}
      OBVIOUS
    <3> QED BY <2>1, <3>1, <3>2, <3>3
  <2> QED BY <1>6, <2>2, <2>3, <2>4 DEF Answer, TypeOK, stopVars, modeVars, toolVars, clientVars
<1>7. ASSUME NEW c \in Clients, Deliver(c) PROVE TypeOK'
  <2>1. stream' \in [Clients -> Seq(Events)]
    <3>1. stream[c] \in Seq(Events) /\ stream[c] # <<>>
      BY <1>7 DEF Deliver, TypeOK
    <3>2. Tail(stream[c]) \in Seq(Events)
      BY <3>1
    <3> QED BY <1>7, <3>2 DEF Deliver, TypeOK
  <2>2. card' \in [Clients -> [Requests -> {"none", "pending", "submitting", "resolved"}]]
    <3> DEFINE event == Head(stream[c])
    <3>1. CASE event.type = "request" /\ Show(c, event.of)
      <4>1. card \in [Clients -> [Requests -> {"none", "pending", "submitting", "resolved"}]]
        BY DEF TypeOK
      <4> QED BY <3>1, <4>1 DEF Show
    <3>2. CASE event.type = "closed" /\ card' = [card EXCEPT ![c][event.of] = "resolved"]
      BY <3>2 DEF TypeOK
    <3>3. CASE card' = [card EXCEPT ![c] = [r \in Requests |->
                          IF @[r] = "resolved" THEN "none" ELSE @[r]]]
      BY <3>3 DEF TypeOK
    <3> QED BY <1>7, <3>1, <3>2, <3>3 DEF Deliver
  <2> QED BY <1>7, <2>1, <2>2 DEF Deliver, TypeOK, stopVars, modeVars, toolVars, tableVars,
       answerVars
<1>8. ASSUME NEW c \in Clients, Handler(c) PROVE TypeOK'
  <2> DEFINE SnapOK == snap' \in [Clients -> [pc : {"out", "copy", "look", "in"},
                                table : {"none", "permission", "question"},
                                ids : SUBSET Requests, found : SUBSET Requests]]
  <2>0. snap[c] \in [pc : {"out", "copy", "look", "in"},
                     table : {"none", "permission", "question"},
                     ids : SUBSET Requests, found : SUBSET Requests]
    BY DEF TypeOK
  <2>1. CASE Connect(c)
    <3>1. SnapOK
      BY <2>1, StandingType DEF Connect
    <3> QED BY <2>1, <3>1 DEF Connect, TypeOK, stopVars, modeVars, toolVars, tableVars,
         answerVars
  <2>2. CASE SnapshotCopy(c)
    <3>1. pending \intersect Table(snap[c].table) \in SUBSET Requests
      BY DEF TypeOK
    <3>2. SnapOK
      BY <2>0, <2>2, <3>1, StandingType DEF SnapshotCopy
    <3> QED BY <2>2, <3>2 DEF SnapshotCopy, TypeOK, stopVars, modeVars, toolVars, tableVars,
         answerVars
  <2>3. CASE SnapshotEnd(c)
    <3>1. SnapOK
      BY <2>3, StandingType DEF SnapshotEnd, In
    <3> QED BY <2>3, <3>1 DEF SnapshotEnd, TypeOK, stopVars, modeVars, toolVars, tableVars,
         answerVars
  <2>4. ASSUME NEW r \in Requests, SnapshotLook(c, r) PROVE TypeOK'
    <3>1. PICK found \in SUBSET Requests :
            snap' = [snap EXCEPT ![c] =
                       Standing("look", snap[c].table, snap[c].ids \ {r}, found)]
      BY <2>0, <2>4 DEF SnapshotLook
    <3>2. snap[c].ids \ {r} \in SUBSET Requests
      BY <2>0
    <3>3. SnapOK
      BY <2>0, <3>1, <3>2, StandingType
    <3> QED BY <2>4, <3>3 DEF SnapshotLook, TypeOK, stopVars, modeVars, toolVars, tableVars,
         answerVars
  <2>5. ASSUME NEW r \in Requests, SnapshotSend(c, r) PROVE TypeOK'
    <3>1. SnapOK
      <4>1. snap[c].found \ {r} \in SUBSET Requests /\ {} \in SUBSET Requests
        BY <2>0
      <4> QED BY <2>0, <2>5, <4>1, StandingType DEF SnapshotSend
    <3>2. card' \in [Clients -> [Requests -> {"none", "pending", "submitting", "resolved"}]]
      BY <2>5 DEF SnapshotSend, Show, TypeOK
    <3> QED BY <2>5, <3>1, <3>2 DEF SnapshotSend, TypeOK, stopVars, modeVars, toolVars,
         tableVars, answerVars
  <2> QED BY <1>8, <2>1, <2>2, <2>3, <2>4, <2>5 DEF Handler
<1>9. ASSUME NEW c \in Clients, NEW r \in Requests, Respond(c, r) PROVE TypeOK'
  <2>1. card' \in [Clients -> [Requests -> {"none", "pending", "submitting", "resolved"}]]
    <3>1. PICK entry \in {"submitting", "pending"} :
            card' = [card EXCEPT ![c][r] = entry]
      <4>1. card' = [card EXCEPT ![c][r] = "submitting"] \/ card' = [card EXCEPT ![c][r] = card[c][r]]
        BY <1>9 DEF Respond
      <4>2. card[c][r] = "pending"
        BY <1>9 DEF Respond
      <4> QED BY <4>1, <4>2
    <3> QED BY <3>1, EntryType DEF TypeOK
  <2>2. hand' \in [Clients -> Requests \union {Nobody}]
    <3>1. hand' = hand \/ hand' = [hand EXCEPT ![c] = r]
      BY <1>9 DEF Respond
    <3> QED BY <3>1 DEF TypeOK
  <2>3. told' \in [Clients -> [Requests -> {"none", "accepted", "closed"}]]
    <3>1. told' = told \/ told' = [told EXCEPT ![c][r] = "closed"]
      BY <1>9 DEF Respond
    <3>2. told \in [Clients -> [Requests -> {"none", "accepted", "closed"}]]
      BY DEF TypeOK
    <3> QED BY <3>1, <3>2, EntryType
  <2> QED BY <1>9, <2>1, <2>2, <2>3 DEF Respond, TypeOK, stopVars, modeVars, toolVars, tableVars
<1> QED
  BY <1>1, <1>2, <1>3, <1>4, <1>5, <1>6, <1>7, <1>8, <1>9

(* TypeOK holds at first and no step of the program leaves it.             *)
LEMMA TypeOKStep == TypeOK /\ [Next]_vars => TypeOK'
<1> SUFFICES ASSUME TypeOK, [Next]_vars PROVE TypeOK'
  OBVIOUS
<1>1. CASE UNCHANGED vars
  BY <1>1 DEF TypeOK, vars, stopVars, modeVars, toolVars, tableVars, answerVars, clientVars
<1>2. CASE Next
  BY <1>2, TypeOKTool, TypeOKOthers DEF Next
<1> QED BY <1>1, <1>2

(* The variables of the prompters and of the client queues keep their      *)
(* types, for any sets of requests and clients.                            *)
THEOREM TypeCorrect == Spec => []TypeOK
<1>1. Init => TypeOK
  <2> SUFFICES ASSUME Init PROVE TypeOK
    OBVIOUS
  <2>1. stream \in [Clients -> Seq(Events)]
    BY DEF Init
  <2>2. \A c \in Clients : snap[c] \in {In, Out}
    BY DEF Init
  <2>3. {In, Out} \subseteq [pc : {"out", "copy", "look", "in"},
                             table : {"none", "permission", "question"},
                             ids : SUBSET Requests, found : SUBSET Requests]
    BY DEF In, Out, Standing
  <2>4. snap \in [Clients -> [pc : {"out", "copy", "look", "in"},
                              table : {"none", "permission", "question"},
                              ids : SUBSET Requests, found : SUBSET Requests]]
    BY <2>2, <2>3 DEF Init
  <2>5. /\ card \in [Clients -> [Requests -> {"none", "pending", "submitting", "resolved"}]]
        /\ told \in [Clients -> [Requests -> {"none", "accepted", "closed"}]]
    BY DEF Init
  <2>6. mode \in {"default", "yolo"} /\ switches \in 0..MaxSwitches /\ abort \in BOOLEAN
       /\ late \in 0..MaxLate
    <3>1. 0 \in 0..MaxSwitches
      BY ConstantsAssumption
    <3> QED BY <3>1 DEF Init
  <2>7. /\ at \in [Requests -> {"new", "check", "hook", "emit", "wait", "erase",
                                "close", "done"}]
        /\ verdict \in [Requests -> Clients \union Reasons \union {Nobody}]
        /\ returned \in [Requests -> Clients \union Reasons \union
                                     {"yolo", "rule", "hook", Nobody}]
        /\ hand \in [Clients -> Requests \union {Nobody}]
    BY DEF Init
  <2> QED BY <2>1, <2>4, <2>5, <2>6, <2>7 DEF Init, TypeOK
<1> QED BY <1>1, TypeOKStep, PTL DEF Spec
-----------------------------------------------------------------------------
(* Why an accepted answer counts.  Nothing refers to a request that was    *)
(* never prompted for, a tool that has left the wait returned the verdict  *)
(* it found or set there, and a client is told "accepted" in the section   *)
(* that makes it the verdict, once.                                        *)

Before == {"new", "check", "hook"}
After == {"erase", "close", "done"}
Unasked == {"yolo", "rule", "hook"}

\* Somebody holds the request's record.
Held(r) == r \in pending \/ r \in toResolve \/ \E c \in Clients : hand[c] = r

BeforePrompt(r) ==
  at[r] \in Before \/ returned[r] \in Unasked => verdict[r] = Nobody /\ ~Held(r)

ReturnedVerdict(r) ==
  /\ at[r] \notin After => returned[r] = Nobody
  /\ at[r] \in After => \/ returned[r] \in Unasked
                        \/ verdict[r] # Nobody /\ returned[r] = verdict[r]

AnswerKept ==
  \A r \in Requests :
    /\ BeforePrompt(r)
    /\ ReturnedVerdict(r)
    /\ \A c \in Clients :
         /\ hand[c] = r => told[c][r] = "none"
         /\ told[c][r] = "accepted" <=> verdict[r] = c

(* The invariant of the argument says what the property asks.              *)
LEMMA AnswerKeptImplies == TypeOK /\ AnswerKept => AcceptedAnswerCounts
<1> SUFFICES ASSUME TypeOK, AnswerKept, NEW c \in Clients, NEW r \in Requests
             PROVE  /\ told[c][r] = "accepted" => verdict[r] = c /\ returned[r] \in {c, Nobody}
                    /\ returned[r] = c => told[c][r] = "accepted"
  BY DEF AcceptedAnswerCounts
<1>1. c \notin Unasked /\ c # Nobody
  BY NamesAssumption, ConstantsAssumption DEF Unasked
<1>2. /\ BeforePrompt(r) /\ ReturnedVerdict(r)
      /\ told[c][r] = "accepted" <=> verdict[r] = c
  BY DEF AnswerKept
<1> QED BY <1>1, <1>2 DEF BeforePrompt, ReturnedVerdict

(* A step of a tool call keeps the invariant: it settles a request only    *)
(* together with what it returns.                                          *)
LEMMA AnswerKeptTool ==
  ASSUME TypeOK, AnswerKept, NEW r \in Requests, Tool(r)
  PROVE  AnswerKept'
<1> USE DEF Before, After, Unasked, Held, BeforePrompt, ReturnedVerdict, Move, Return,
            stopVars, modeVars, tableVars, answerVars, clientVars
<1>0. SUFFICES ASSUME NEW q \in Requests
               PROVE  /\ BeforePrompt(q)'
                      /\ ReturnedVerdict(q)'
                      /\ \A c \in Clients :
                           /\ (hand[c] = q => told[c][q] = "none")'
                           /\ (told[c][q] = "accepted" <=> verdict[q] = c)'
  BY DEF AnswerKept
<1>a. /\ BeforePrompt(q) /\ BeforePrompt(r) /\ ReturnedVerdict(q) /\ ReturnedVerdict(r)
      /\ \A c \in Clients :
           /\ hand[c] = q => told[c][q] = "none"
           /\ told[c][q] = "accepted" <=> verdict[q] = c
  BY DEF AnswerKept
<1>t. /\ at \in [Requests -> Places] /\ returned \in [Requests -> Results]
      /\ verdict \in [Requests -> Clients \union Reasons \union {Nobody}]
      /\ hand \in [Clients -> Requests \union {Nobody}]
      /\ toResolve \subseteq Permissions
  BY DEF TypeOK, Places, Results
<1>n. /\ Nobody \notin Requests \union Clients \union Reasons \union Unasked
      /\ Reasons \intersect Clients = {} /\ Unasked \intersect (Clients \union Reasons) = {}
  BY ConstantsAssumption, NamesAssumption DEF Reasons
<1>1. CASE CheckAllow(r)
  BY <1>1, <1>a, <1>t, <1>n DEF CheckAllow
<1>2. CASE CheckMode(r)
  BY <1>2, <1>a, <1>t, <1>n DEF CheckMode
<1>3. CASE HookDecides(r)
  BY <1>3, <1>a, <1>t, <1>n DEF HookDecides
<1>4. CASE Register(r)
  BY <1>4, <1>a, <1>t, <1>n DEF Register
<1>5. CASE Announce(r)
  BY <1>5, <1>a, <1>t, <1>n DEF Announce
<1>6. CASE WaitAnswered(r)
  BY <1>6, <1>a, <1>t, <1>n DEF WaitAnswered
<1>7. ASSUME NEW reason \in {"abort", "timeout"}, GiveUp(r, reason)
      PROVE  /\ BeforePrompt(q)' /\ ReturnedVerdict(q)'
             /\ \A c \in Clients :
                  /\ (hand[c] = q => told[c][q] = "none")'
                  /\ (told[c][q] = "accepted" <=> verdict[q] = c)'
  BY <1>7, <1>a, <1>t, <1>n DEF GiveUp, Reasons
<1>8. CASE Erase(r)
  BY <1>8, <1>a, <1>t, <1>n DEF Erase
<1>9. CASE Close(r)
  BY <1>9, <1>a, <1>t, <1>n DEF Close
<1> QED
  BY <1>1, <1>2, <1>3, <1>4, <1>5, <1>6, <1>7, <1>8, <1>9
  DEF Tool, WaitAborted, WaitTimedOut

(* So does every other step: a client's answer settles the request only if *)
(* it is unsettled, in the section that tells the client.                  *)
LEMMA AnswerKeptOthers ==
  ASSUME TypeOK, AnswerKept,
         \/ EndTurn \/ Abort \/ ClearStale \/ SetMode \/ ResolveCopy
         \/ \E r \in Requests : ResolveVisit(r)
         \/ \E d \in Clients : Answer(d) \/ Deliver(d) \/ Handler(d)
         \/ \E d \in Clients, r \in Requests : Respond(d, r)
  PROVE  AnswerKept'
<1> USE DEF Before, After, Unasked, Held, BeforePrompt, ReturnedVerdict,
            stopVars, modeVars, toolVars, tableVars, answerVars, clientVars
<1>0. SUFFICES ASSUME NEW q \in Requests
               PROVE  /\ BeforePrompt(q)' /\ ReturnedVerdict(q)'
                      /\ \A c \in Clients :
                           /\ (hand[c] = q => told[c][q] = "none")'
                           /\ (told[c][q] = "accepted" <=> verdict[q] = c)'
  BY DEF AnswerKept
<1>a. /\ BeforePrompt(q) /\ ReturnedVerdict(q)
      /\ \A c \in Clients :
           /\ hand[c] = q => told[c][q] = "none"
           /\ told[c][q] = "accepted" <=> verdict[q] = c
  BY DEF AnswerKept
<1>t. /\ at \in [Requests -> Places] /\ returned \in [Requests -> Results]
      /\ verdict \in [Requests -> Clients \union Reasons \union {Nobody}]
      /\ hand \in [Clients -> Requests \union {Nobody}]
      /\ told \in [Clients -> [Requests -> {"none", "accepted", "closed"}]]
      /\ toResolve \subseteq Permissions
  BY DEF TypeOK, Places, Results
<1>n. /\ Nobody \notin Requests \union Clients \union Reasons \union Unasked
      /\ Reasons \intersect Clients = {} /\ Unasked \intersect (Clients \union Reasons) = {}
  BY ConstantsAssumption, NamesAssumption DEF Reasons
<1>1. CASE EndTurn \/ Abort \/ ClearStale \/ SetMode
  BY <1>1, <1>a DEF EndTurn, Abort, ClearStale, SetMode
<1>2. CASE ResolveCopy
  BY <1>2, <1>a DEF ResolveCopy
<1>3. ASSUME NEW r \in Requests, ResolveVisit(r)
      PROVE  /\ BeforePrompt(q)' /\ ReturnedVerdict(q)'
             /\ \A c \in Clients :
                  /\ (hand[c] = q => told[c][q] = "none")'
                  /\ (told[c][q] = "accepted" <=> verdict[q] = c)'
  BY <1>3, <1>a, <1>t, <1>n DEF ResolveVisit, Reasons
<1>4. ASSUME NEW d \in Clients, Answer(d)
      PROVE  /\ BeforePrompt(q)' /\ ReturnedVerdict(q)'
             /\ \A c \in Clients :
                  /\ (hand[c] = q => told[c][q] = "none")'
                  /\ (told[c][q] = "accepted" <=> verdict[q] = c)'
  BY <1>4, <1>a, <1>t, <1>n DEF Answer
<1>5. ASSUME NEW d \in Clients, Deliver(d) \/ Handler(d)
      PROVE  /\ BeforePrompt(q)' /\ ReturnedVerdict(q)'
             /\ \A c \in Clients :
                  /\ (hand[c] = q => told[c][q] = "none")'
                  /\ (told[c][q] = "accepted" <=> verdict[q] = c)'
  <2>1. UNCHANGED <<at, returned, pending, verdict, hand, told, toResolve>>
    BY <1>5 DEF Deliver, Handler, Connect, SnapshotCopy, SnapshotEnd, SnapshotLook, SnapshotSend
  <2> QED BY ONLY <1>a, <2>1 DEF Before, After, Unasked, Held, BeforePrompt, ReturnedVerdict
<1>6. ASSUME NEW d \in Clients, NEW r \in Requests, Respond(d, r)
      PROVE  /\ BeforePrompt(q)' /\ ReturnedVerdict(q)'
             /\ \A c \in Clients :
                  /\ (hand[c] = q => told[c][q] = "none")'
                  /\ (told[c][q] = "accepted" <=> verdict[q] = c)'
  BY <1>6, <1>a, <1>t, <1>n DEF Respond
<1> QED
  BY <1>1, <1>2, <1>3, <1>4, <1>5, <1>6

(* A client whose answer was accepted is the one the tool acts on, and     *)
(* only such an answer is acted on (notify_decision, notify_response).     *)
THEOREM AnswersCorrect == Spec => []AcceptedAnswerCounts
<1>1. Init => AnswerKept
  BY ConstantsAssumption, NamesAssumption
  DEF Init, AnswerKept, BeforePrompt, ReturnedVerdict, Held, Before, After, Unasked
<1>2. TypeOK /\ AnswerKept /\ [Next]_vars => AnswerKept'
  <2> SUFFICES ASSUME TypeOK, AnswerKept, [Next]_vars PROVE AnswerKept'
    OBVIOUS
  <2>1. CASE UNCHANGED vars
    BY <2>1 DEF AnswerKept, BeforePrompt, ReturnedVerdict, Held, vars, stopVars, modeVars,
         toolVars,
                tableVars, answerVars
  <2>2. CASE Next
    BY <2>2, AnswerKeptTool, AnswerKeptOthers DEF Next
  <2> QED BY <2>1, <2>2
<1> QED BY <1>1, <1>2, TypeCorrect, AnswerKeptImplies, PTL DEF Spec
-----------------------------------------------------------------------------
(* Every write of a verdict is guarded by its absence, so whatever races,  *)
(* the first of answer, mode switch, stop and timeout stays.               *)
THEOREM VerdictCorrect == Spec => VerdictIsFinal
<1>1. TypeOK /\ [Next]_vars =>
        [\A r \in Requests : verdict[r] # Nobody => verdict'[r] = verdict[r]]_vars
  <2> SUFFICES ASSUME TypeOK, Next, NEW q \in Requests, verdict[q] # Nobody
               PROVE  verdict'[q] = verdict[q]
    BY DEF vars
  <2> USE DEF TypeOK, stopVars, modeVars, toolVars, tableVars, answerVars, clientVars
  <2>1. ASSUME NEW r \in Requests, Tool(r) PROVE verdict'[q] = verdict[q]
    BY <2>1 DEF Tool, CheckAllow, CheckMode, HookDecides, Register, Announce, WaitAnswered,
                WaitAborted, WaitTimedOut, GiveUp, Erase, Close
  <2>2. ASSUME NEW r \in Requests, ResolveVisit(r) PROVE verdict'[q] = verdict[q]
    BY <2>2 DEF ResolveVisit
  <2>3. CASE EndTurn \/ Abort \/ ClearStale \/ SetMode \/ ResolveCopy
    BY <2>3 DEF EndTurn, Abort, ClearStale, SetMode, ResolveCopy
  <2>4. ASSUME NEW c \in Clients, Answer(c) PROVE verdict'[q] = verdict[q]
    BY <2>4 DEF Answer
  <2>5. ASSUME NEW c \in Clients, Deliver(c) \/ Handler(c) PROVE verdict'[q] = verdict[q]
    BY <2>5 DEF Deliver, Handler, Connect, SnapshotCopy, SnapshotEnd, SnapshotLook, SnapshotSend
  <2>6. ASSUME NEW c \in Clients, NEW r \in Requests, Respond(c, r)
        PROVE  verdict'[q] = verdict[q]
    BY <2>6 DEF Respond
  <2> QED BY <2>1, <2>2, <2>3, <2>4, <2>5, <2>6 DEF Next
<1> QED BY <1>1, TypeCorrect, PTL DEF Spec, VerdictIsFinal
-----------------------------------------------------------------------------
(* What the clients show.  A request that is open is shown by every client  *)
(* or on its way there, by its event or by the snapshot; one that is over   *)
(* and still on its way is followed by its closing event, unless the        *)
(* tombstone is there already.                                              *)

Has(q, type, of) == \E i \in 1..Len(q) : q[i].type = type /\ q[i].of = of

Asks(c, r) == Has(stream[c], "request", r)
Closes(c, r) == Has(stream[c], "closed", r)

\* Something may still make c show a card for r, or has.
Known(c, r) ==
  \/ r \in snap[c].ids \/ r \in snap[c].found
  \/ Asks(c, r)
  \/ card[c][r] \in {"pending", "submitting"}

\* c shows r or is going to.
Coming(c, r) ==
  \/ card[c][r] # "none" \/ Asks(c, r)
  \/ snap[c].pc = "out" \/ r \in snap[c].ids \/ r \in snap[c].found
  \/ snap[c].pc = "copy" /\ (snap[c].table = "permission" \/ r \in Questions)
  \/ snap[c].pc = "look" /\ snap[c].table = "permission" /\ r \in Questions

Shown(c, r) ==
  /\ at[r] \in Before => ~Known(c, r) /\ card[c][r] = "none"
  /\ at[r] # "done" => ~Closes(c, r) /\ card[c][r] # "resolved"
  /\ at[r] = "done" /\ turn = "running" /\ Known(c, r) =>
       Closes(c, r) \/ card[c][r] = "resolved"
  /\ at[r] = "wait" /\ verdict[r] = Nobody => Coming(c, r)

Attached(c) ==
  /\ snap[c].pc # "look" => snap[c].ids = {} /\ snap[c].found = {}
  /\ snap[c].pc = "out" => /\ stream[c] = <<>>
                           /\ \A r \in Requests : card[c][r] = "none"
  /\ \A of \in Requests \union {Nobody} : Has(stream[c], "over", of) => turn = "over"

Opened(r) ==
  /\ at[r] \notin {"new", "done"} => turn = "running"
  /\ r \in pending <=> at[r] \in {"emit", "wait", "erase"}

Displayed ==
  /\ \A r \in Requests : Opened(r)
  /\ \A c \in Clients : Attached(c)
  /\ \A c \in Clients, r \in Requests : Shown(c, r)

(* What a stream holds after a message was added, or taken. *)
LEMMA HasAppend ==
  ASSUME NEW q \in Seq(Events), NEW x \in Events, NEW type, NEW of
  PROVE  Has(Append(q, x), type, of) <=>
           Has(q, type, of) \/ (x.type = type /\ x.of = of)
<1>1. /\ Len(Append(q, x)) = Len(q) + 1 /\ Len(q) \in Nat
      /\ \A i \in 1..Len(q) : Append(q, x)[i] = q[i]
      /\ Append(q, x)[Len(q) + 1] = x
  OBVIOUS
<1>2. \A i : i \in 1..Len(q) + 1 <=> i \in 1..Len(q) \/ i = Len(q) + 1
  BY <1>1
<1> QED BY <1>1, <1>2 DEF Has

LEMMA HasTail ==
  ASSUME NEW q \in Seq(Events), q # <<>>, NEW type, NEW of
  PROVE  Has(q, type, of) <=>
           (Head(q).type = type /\ Head(q).of = of) \/ Has(Tail(q), type, of)
<1>1. /\ Len(Tail(q)) = Len(q) - 1 /\ Len(q) \in Nat /\ 1 \in 1..Len(q)
      /\ \A i \in 1..Len(Tail(q)) : Tail(q)[i] = q[i + 1]
      /\ Head(q) = q[1]
  OBVIOUS
<1>2. ASSUME Has(q, type, of)
      PROVE  (Head(q).type = type /\ Head(q).of = of) \/ Has(Tail(q), type, of)
  <2>1. PICK i \in 1..Len(q) : q[i].type = type /\ q[i].of = of
    BY <1>2 DEF Has
  <2>2. CASE i = 1
    BY <1>1, <2>1, <2>2
  <2>3. CASE i # 1
    <3>1. i - 1 \in 1..Len(Tail(q)) /\ (i - 1) + 1 = i
      BY <1>1, <2>3
    <3> QED BY <1>1, <2>1, <3>1 DEF Has
  <2> QED BY <2>2, <2>3
<1>3. ASSUME Has(Tail(q), type, of) PROVE Has(q, type, of)
  <2>1. PICK i \in 1..Len(Tail(q)) : Tail(q)[i].type = type /\ Tail(q)[i].of = of
    BY <1>3 DEF Has
  <2>2. i + 1 \in 1..Len(q)
    BY <1>1
  <2> QED BY <1>1, <2>1, <2>2 DEF Has
<1> QED BY <1>1, <1>2, <1>3 DEF Has

LEMMA HasNothing == \A type, of : ~Has(<<>>, type, of)
BY DEF Has

(* What an emit adds to the stream of one client. *)
LEMMA HasEmit ==
  ASSUME TypeOK, NEW e \in Events, EmitToAll(e), NEW c \in Clients
  PROVE  /\ snap[c].pc = "out" => stream'[c] = stream[c]
         /\ \A type, of : Has(stream'[c], type, of) <=>
              \/ Has(stream[c], type, of)
              \/ snap[c].pc # "out" /\ e.type = type /\ e.of = of
<1>1. stream'[c] = IF snap[c].pc # "out" THEN Append(stream[c], e) ELSE stream[c]
  BY DEF EmitToAll, Subscribed
<1>2. stream[c] \in Seq(Events)
  BY DEF TypeOK
<1>3. \A type, of : Has(Append(stream[c], e), type, of) <=>
        Has(stream[c], type, of) \/ (e.type = type /\ e.of = of)
  BY <1>2, HasAppend
<1> QED BY <1>1, <1>3

(* The invariant gives both properties. *)
LEMMA DisplayedImplies == TypeOK /\ Displayed => NoMissedRequest /\ NoStaleCardInTurn
<1> SUFFICES ASSUME TypeOK, Displayed, NEW c \in Clients, NEW r \in Requests, UpToDate(c)
             PROVE  /\ at[r] = "wait" /\ verdict[r] = Nobody => card[c][r] # "none"
                    /\ at[r] = "done" /\ turn = "running" => card[c][r] \in {"none", "resolved"}
  BY DEF NoMissedRequest, NoStaleCardInTurn
<1>1. Shown(c, r) /\ Attached(c) /\ ~Asks(c, r) /\ ~Closes(c, r)
  BY HasNothing DEF Displayed, UpToDate, Asks, Closes
<1>2. snap[c].pc = "in" /\ snap[c].ids = {} /\ snap[c].found = {}
  BY <1>1 DEF UpToDate, Attached
<1>3. card[c][r] \in {"none", "pending", "submitting", "resolved"}
  BY DEF TypeOK
<1> QED BY <1>1, <1>2, <1>3 DEF Shown, Known, Coming

(* A step that touches one request and sends nothing leaves the others. *)
LEMMA DisplayedOne ==
  ASSUME Displayed, NEW r \in Requests, UNCHANGED <<stream, snap, card, turn>>,
         \A p \in Requests \ {r} :
           at'[p] = at[p] /\ verdict'[p] = verdict[p] /\ (p \in pending' <=> p \in pending),
         Opened(r)', \A c \in Clients : Shown(c, r)'
  PROVE  Displayed'
<1>1. \A p \in Requests : Opened(p)'
  BY DEF Displayed, Opened
<1>2. \A c \in Clients : Attached(c)'
  BY DEF Displayed, Attached
<1>3. ASSUME NEW c \in Clients, NEW p \in Requests \ {r} PROVE Shown(c, p)'
  <2>1. Shown(c, p)
    BY DEF Displayed
  <2> QED BY <2>1 DEF Shown, Known, Coming, Asks, Closes
<1> QED BY <1>1, <1>2, <1>3 DEF Displayed

(* Nor does a step that only settles requests. *)
LEMMA DisplayedSettle ==
  ASSUME Displayed, UNCHANGED <<stream, snap, card, turn, at, pending>>,
         \A p \in Requests : verdict'[p] = Nobody => verdict[p] = Nobody
  PROVE  Displayed'
BY DEF Displayed, Opened, Attached, Shown, Known, Coming, Asks, Closes

(* A request is announced to every client that is attached; the others     *)
(* will find it in the table.                                              *)
LEMMA DisplayedAnnounce ==
  ASSUME TypeOK, Displayed, NEW r \in Requests, Announce(r)
  PROVE  Displayed'
<1> DEFINE e == [type |-> "request", of |-> r]
<1>1. /\ UNCHANGED <<snap, card, turn, pending, verdict>> /\ EmitToAll(e)
      /\ at[r] = "emit" /\ at'[r] = "wait"
      /\ \A p \in Requests \ {r} : at'[p] = at[p]
  BY DEF Announce, Move, TypeOK, tableVars
<1>2. e \in Events /\ e.type = "request" /\ e.of = r
  BY DEF Events
<1> HIDE DEF e
<1>3. ASSUME NEW c \in Clients
      PROVE  /\ snap[c].pc = "out" => stream'[c] = stream[c]
             /\ \A type, of : Has(stream'[c], type, of) <=>
                  \/ Has(stream[c], type, of)
                  \/ snap[c].pc # "out" /\ type = "request" /\ of = r
  BY <1>1, <1>2, HasEmit
<1>4. \A p \in Requests : Opened(p)'
  BY <1>1 DEF Displayed, Opened
<1>5. \A c \in Clients : Attached(c)'
  BY <1>1, <1>3 DEF Displayed, Attached
<1>6. ASSUME NEW c \in Clients, NEW p \in Requests PROVE Shown(c, p)'
  <2>1. Shown(c, p) /\ Attached(c)
    BY DEF Displayed
  <2>2. /\ Closes(c, p)' <=> Closes(c, p)
        /\ Asks(c, p)' <=> Asks(c, p) \/ (p = r /\ snap[c].pc # "out")
    BY <1>3 DEF Closes, Asks
  <2>3. CASE p # r
    BY <1>1, <2>1, <2>2, <2>3 DEF Shown, Known, Coming
  <2>4. CASE p = r
    BY <1>1, <2>1, <2>2, <2>4 DEF Shown, Known, Coming, Before
  <2> QED BY <2>3, <2>4
<1> QED BY <1>4, <1>5, <1>6 DEF Displayed

(* Everybody who may have heard of a request hears that it is closed. *)
LEMMA DisplayedClose ==
  ASSUME TypeOK, Displayed, NEW r \in Requests, Close(r)
  PROVE  Displayed'
<1> DEFINE e == [type |-> "closed", of |-> r]
<1>1. /\ UNCHANGED <<snap, card, turn, pending, verdict>> /\ EmitToAll(e)
      /\ at[r] = "close" /\ at'[r] = "done"
      /\ \A p \in Requests \ {r} : at'[p] = at[p]
  BY DEF Close, Move, TypeOK, tableVars
<1>2. e \in Events /\ e.type = "closed" /\ e.of = r
  BY DEF Events
<1> HIDE DEF e
<1>3. ASSUME NEW c \in Clients
      PROVE  /\ snap[c].pc = "out" => stream'[c] = stream[c]
             /\ \A type, of : Has(stream'[c], type, of) <=>
                  \/ Has(stream[c], type, of)
                  \/ snap[c].pc # "out" /\ type = "closed" /\ of = r
  BY <1>1, <1>2, HasEmit
<1>4. \A p \in Requests : Opened(p)'
  BY <1>1 DEF Displayed, Opened
<1>5. \A c \in Clients : Attached(c)'
  BY <1>1, <1>3 DEF Displayed, Attached
<1>6. ASSUME NEW c \in Clients, NEW p \in Requests PROVE Shown(c, p)'
  <2>1. Shown(c, p) /\ Attached(c)
    BY DEF Displayed
  <2>2. /\ Asks(c, p)' <=> Asks(c, p)
        /\ Closes(c, p)' <=> Closes(c, p) \/ (p = r /\ snap[c].pc # "out")
    BY <1>3 DEF Closes, Asks
  <2>3. CASE p # r
    BY <1>1, <2>1, <2>2, <2>3 DEF Shown, Known, Coming
  <2>4. CASE p = r
    <3>1. snap[c].pc = "out" => ~Known(c, r)
      BY <2>1, HasNothing DEF Attached, Known, Asks
    <3> QED BY <1>1, <2>1, <2>2, <2>4, <3>1 DEF Shown, Known, Coming, Before
  <2> QED BY <2>3, <2>4
<1> QED BY <1>4, <1>5, <1>6 DEF Displayed

(* The steps of a tool call. *)
LEMMA DisplayedTool ==
  ASSUME TypeOK, Displayed, NEW r \in Requests, Tool(r)
  PROVE  Displayed'
<1> USE DEF Move, stopVars, modeVars, tableVars, answerVars, clientVars
<1>1. /\ at \in [Requests -> Places] /\ pending \subseteq Requests
      /\ verdict \in [Requests -> Clients \union Reasons \union {Nobody}]
  BY DEF TypeOK, Places
<1>2. Opened(r) /\ \A c \in Clients : Shown(c, r)
  BY DEF Displayed
<1>3. ASSUME NEW from \in Before, NEW to \in {"check", "hook", "done"},
             at[r] = from, at' = [at EXCEPT ![r] = to],
             to = "done" \/ turn = "running",
             UNCHANGED <<stream, snap, card, turn, pending, verdict>>
      PROVE  Displayed'
  <2>1. Opened(r)'
    BY <1>1, <1>2, <1>3 DEF Opened, Before
  <2>2. \A c \in Clients : Shown(c, r)'
    BY <1>1, <1>2, <1>3 DEF Shown, Known, Coming, Asks, Closes, Before
  <2> QED BY <1>1, <1>3, <2>1, <2>2, DisplayedOne
<1>4. CASE CheckAllow(r) \/ CheckMode(r) \/ HookDecides(r)
  <2>1. PICK from \in Before, to \in {"check", "hook", "done"} :
          at[r] = from /\ at' = [at EXCEPT ![r] = to] /\ (to = "done" \/ turn = "running")
    BY <1>2, <1>4 DEF CheckAllow, CheckMode, HookDecides, Before, Opened
  <2>2. UNCHANGED <<stream, snap, card, turn, pending, verdict>>
    BY <1>4 DEF CheckAllow, CheckMode, HookDecides
  <2> QED BY <1>3, <2>1, <2>2
<1>5. CASE Register(r)
  <2>1. /\ at[r] \in Before /\ at' = [at EXCEPT ![r] = "emit"]
        /\ turn = "running" /\ pending' = pending \union {r}
        /\ UNCHANGED <<stream, snap, card, turn, verdict>>
    BY <1>2, <1>5 DEF Register, Before, Opened
  <2>2. Opened(r)'
    BY <1>1, <2>1 DEF Opened
  <2>3. \A c \in Clients : Shown(c, r)'
    BY <1>1, <1>2, <2>1 DEF Shown, Known, Coming, Asks, Closes, Before
  <2> QED BY <1>1, <2>1, <2>2, <2>3, DisplayedOne
<1>6. CASE WaitAnswered(r) \/ WaitAborted(r) \/ WaitTimedOut(r)
  <2>1. /\ at[r] = "wait" /\ at' = [at EXCEPT ![r] = "erase"]
        /\ \A p \in Requests \ {r} : verdict'[p] = verdict[p]
        /\ UNCHANGED <<stream, snap, card, turn, pending>>
    BY <1>1, <1>6 DEF WaitAnswered, WaitAborted, WaitTimedOut, GiveUp
  <2>2. Opened(r)'
    BY <1>1, <1>2, <2>1 DEF Opened
  <2>3. \A c \in Clients : Shown(c, r)'
    BY <1>1, <1>2, <2>1 DEF Shown, Known, Coming, Asks, Closes, Before
  <2> QED BY <1>1, <2>1, <2>2, <2>3, DisplayedOne
<1>7. CASE Erase(r)
  <2>1. /\ at[r] = "erase" /\ at' = [at EXCEPT ![r] = "close"]
        /\ pending' = pending \ {r}
        /\ UNCHANGED <<stream, snap, card, turn, verdict>>
    BY <1>7 DEF Erase
  <2>2. Opened(r)'
    BY <1>1, <1>2, <2>1 DEF Opened
  <2>3. \A c \in Clients : Shown(c, r)'
    BY <1>1, <1>2, <2>1 DEF Shown, Known, Coming, Asks, Closes, Before
  <2> QED BY <1>1, <2>1, <2>2, <2>3, DisplayedOne
<1> QED
  BY <1>4, <1>5, <1>6, <1>7, DisplayedAnnounce, DisplayedClose DEF Tool

(* The turn ends when every request is over. *)
LEMMA DisplayedEndTurn ==
  ASSUME TypeOK, Displayed, EndTurn
  PROVE  Displayed'
<1> DEFINE e == [type |-> "over", of |-> Nobody]
<1>1. /\ UNCHANGED <<at, snap, card, pending, verdict>> /\ EmitToAll(e)
      /\ turn' = "over" /\ \A r \in Requests : at[r] \in {"new", "done"}
  BY DEF EndTurn, Started, stopVars, toolVars, tableVars
<1>2. e \in Events /\ e.type = "over"
  BY DEF Events
<1> HIDE DEF e
<1>3. ASSUME NEW c \in Clients
      PROVE  /\ snap[c].pc = "out" => stream'[c] = stream[c]
             /\ \A type, of : type # "over" =>
                  (Has(stream'[c], type, of) <=> Has(stream[c], type, of))
  BY <1>1, <1>2, HasEmit
<1>4. \A p \in Requests : Opened(p)'
  BY <1>1 DEF Displayed, Opened
<1>5. \A c \in Clients : Attached(c)'
  BY <1>1, <1>3 DEF Displayed, Attached
<1>6. ASSUME NEW c \in Clients, NEW p \in Requests PROVE Shown(c, p)'
  <2>1. Shown(c, p)
    BY DEF Displayed
  <2>2. (Asks(c, p)' <=> Asks(c, p)) /\ (Closes(c, p)' <=> Closes(c, p))
    BY <1>3 DEF Closes, Asks
  <2> QED BY <1>1, <2>1, <2>2 DEF Shown, Known, Coming
<1> QED BY <1>4, <1>5, <1>6 DEF Displayed

(* A step of one client leaves what the others show. *)
LEMMA DisplayedClient ==
  ASSUME Displayed, NEW d \in Clients, UNCHANGED <<at, pending, verdict, turn>>,
         \A c \in Clients \ {d} :
           /\ stream'[c] = stream[c] /\ snap'[c] = snap[c]
           /\ \A r \in Requests : card'[c][r] = card[c][r],
         Attached(d)', \A r \in Requests : Shown(d, r)'
  PROVE  Displayed'
<1>1. \A r \in Requests : Opened(r)'
  BY DEF Displayed, Opened
<1>2. \A c \in Clients : Attached(c)'
  BY DEF Displayed, Attached
<1>3. ASSUME NEW c \in Clients \ {d}, NEW r \in Requests PROVE Shown(c, r)'
  <2>1. Shown(c, r)
    BY DEF Displayed
  <2> QED BY <2>1 DEF Shown, Known, Coming, Asks, Closes
<1> QED BY <1>1, <1>2, <1>3 DEF Displayed

(* A card appears for what was asked; a tombstone stays as it is. *)
LEMMA ShowEntry ==
  ASSUME TypeOK, NEW d \in Clients, NEW of \in Requests \union {Nobody}, Show(d, of)
  PROVE  /\ \A r \in Requests : card'[d][r] =
              IF of = r /\ card[d][r] = "none" THEN "pending" ELSE card[d][r]
         /\ \A c \in Clients \ {d}, r \in Requests : card'[c][r] = card[c][r]
<1>1. card \in [Clients -> [Requests -> {"none", "pending", "submitting", "resolved"}]]
  BY DEF TypeOK
<1> QED BY <1>1 DEF Show

(* The card follows the messages: an event that asks adds a card unless it *)
(* is there, one that closes leaves the tombstone, the end of the turn     *)
(* removes the tombstones.                                                 *)
LEMMA DisplayedDeliver ==
  ASSUME TypeOK, Displayed, NEW d \in Clients, Deliver(d)
  PROVE  Displayed'
<1> DEFINE event == Head(stream[d])
<1>1. /\ stream[d] \in Seq(Events) /\ stream[d] # <<>>
      /\ card \in [Clients -> [Requests -> {"none", "pending", "submitting", "resolved"}]]
      /\ snap[d].pc # "out"
  BY DEF Deliver, TypeOK, Displayed, Attached
<1>2. PICK type \in {"request", "closed", "over"}, of \in Requests \union {Nobody} :
        event.type = type /\ event.of = of
  <2>1. event \in Events
    BY <1>1
  <2> HIDE DEF event
  <2> QED BY <2>1 DEF Events
<1>3. /\ UNCHANGED <<at, pending, verdict, turn, snap>>
      /\ stream' = [stream EXCEPT ![d] = Tail(@)]
  BY DEF Deliver, stopVars, modeVars, toolVars, tableVars, answerVars
<1>4. /\ stream'[d] = Tail(stream[d])
      /\ \A c \in Clients \ {d} : stream'[c] = stream[c]
  BY <1>3 DEF TypeOK
<1>5. \A t, o : Has(stream[d], t, o) <=> (type = t /\ of = o) \/ Has(stream'[d], t, o)
  BY <1>1, <1>2, <1>4, HasTail
<1>6. \/ type = "request" /\ Show(d, of)
      \/ type = "closed" /\ card' = [card EXCEPT ![d][of] = "resolved"]
      \/ /\ type = "over"
         /\ card' = [card EXCEPT ![d] = [r \in Requests |->
                        IF @[r] = "resolved" THEN "none" ELSE @[r]]]
  BY <1>2 DEF Deliver
<1> HIDE DEF event
<1>7. /\ \A r \in Requests : card'[d][r] =
           IF type = "request" /\ of = r /\ card[d][r] = "none" THEN "pending"
           ELSE IF type = "closed" /\ of = r THEN "resolved"
           ELSE IF type = "over" /\ card[d][r] = "resolved" THEN "none"
           ELSE card[d][r]
      /\ \A c \in Clients \ {d}, r \in Requests : card'[c][r] = card[c][r]
  <2>1. CASE type = "request"
    BY <1>6, <2>1, ShowEntry
  <2>2. CASE type = "closed"
    BY <1>1, <1>6, <2>2
  <2>3. CASE type = "over"
    BY <1>1, <1>6, <2>3
  <2> QED BY <2>1, <2>2, <2>3
<1>8. Attached(d)'
  BY <1>1, <1>3, <1>5 DEF Displayed, Attached
<1>9. ASSUME NEW r \in Requests PROVE Shown(d, r)'
  <2>1. Shown(d, r) /\ Attached(d) /\ Opened(r)
    BY DEF Displayed
  <2>2. /\ Asks(d, r) <=> Asks(d, r)' \/ (type = "request" /\ of = r)
        /\ Closes(d, r) <=> Closes(d, r)' \/ (type = "closed" /\ of = r)
    BY <1>5 DEF Asks, Closes
  <2>3. type = "over" => turn = "over"
    BY <1>5, <2>1 DEF Attached
  <2>4. card[d][r] \in {"none", "pending", "submitting", "resolved"}
    BY <1>1
  <2>5. CASE type = "request"
    BY <1>3, <1>7, <2>1, <2>2, <2>4, <2>5 DEF Shown, Known, Coming
  <2>6. CASE type = "closed"
    <3>1. CASE of = r
      <4>1. at'[r] = "done" /\ card'[d][r] = "resolved"
        BY <1>3, <1>7, <2>1, <2>2, <2>6, <3>1 DEF Shown
      <4> QED BY <4>1 DEF Shown, Before
    <3>2. CASE of # r
      <4>1. /\ card'[d][r] = card[d][r] /\ (Asks(d, r)' <=> Asks(d, r))
            /\ (Closes(d, r)' <=> Closes(d, r))
        BY <1>7, <2>2, <2>6, <3>2
      <4> QED BY <1>3, <2>1, <4>1 DEF Shown, Known, Coming
    <3> QED BY <3>1, <3>2
  <2>7. CASE type = "over"
    BY <1>3, <1>7, <2>1, <2>2, <2>3, <2>4, <2>7 DEF Shown, Known, Coming, Opened, Before
  <2> QED BY <2>5, <2>6, <2>7
<1> QED BY <1>3, <1>4, <1>7, <1>8, <1>9, DisplayedClient

(* Answering a card keeps it on the screen. *)
LEMMA DisplayedRespond ==
  ASSUME TypeOK, Displayed, NEW d \in Clients, NEW q \in Requests, Respond(d, q)
  PROVE  Displayed'
<1>1. /\ UNCHANGED <<at, pending, verdict, turn, snap, stream>>
      /\ card[d][q] = "pending"
      /\ \A r \in Requests : card'[d][r] =
           IF r = q /\ q \in Permissions THEN "submitting" ELSE card[d][r]
      /\ \A c \in Clients \ {d}, r \in Requests : card'[c][r] = card[c][r]
  BY DEF Respond, TypeOK, stopVars, toolVars, tableVars
<1>2. Attached(d)'
  BY <1>1 DEF Displayed, Attached
<1>3. ASSUME NEW r \in Requests PROVE Shown(d, r)'
  <2>1. Shown(d, r)
    BY DEF Displayed
  <2> QED BY <1>1, <2>1 DEF Shown, Known, Coming, Asks, Closes
<1> QED BY <1>1, <1>2, <1>3, DisplayedClient

(* The connection handler: between subscribing and the end of the snapshot *)
(* every open request is either copied or announced.                       *)
LEMMA DisplayedHandler ==
  ASSUME TypeOK, Displayed, NEW d \in Clients, Handler(d)
  PROVE  Displayed'
<1>1. /\ snap \in [Clients -> [pc : {"out", "copy", "look", "in"},
                               table : {"none", "permission", "question"},
                               ids : SUBSET Requests, found : SUBSET Requests]]
      /\ Permissions \intersect Questions = {}
  BY ConstantsAssumption DEF TypeOK
<1>2. UNCHANGED <<at, pending, verdict, turn, stream>>
  BY DEF Handler, Connect, SnapshotCopy, SnapshotLook, SnapshotSend, SnapshotEnd,
         stopVars, toolVars, tableVars
<1>3. Attached(d) /\ \A r \in Requests : Shown(d, r) /\ Opened(r)
  BY DEF Displayed
<1>4. ASSUME NEW pc, NEW table, NEW ids, NEW found,
             snap' = [snap EXCEPT ![d] = Standing(pc, table, ids, found)]
      PROVE  /\ snap'[d].pc = pc /\ snap'[d].table = table
             /\ snap'[d].ids = ids /\ snap'[d].found = found
             /\ \A c \in Clients \ {d} : snap'[c] = snap[c]
  BY <1>1, <1>4 DEF Standing
<1> USE DEF Asks, Closes
<1>5. CASE Connect(d)
  <2>1. /\ snap[d].pc = "out" /\ UNCHANGED card
        /\ snap'[d].pc = "copy" /\ snap'[d].table = "permission"
        /\ snap'[d].ids = {} /\ snap'[d].found = {}
        /\ \A c \in Clients \ {d} : snap'[c] = snap[c]
    BY <1>4, <1>5 DEF Connect
  <2>2. Attached(d)' /\ \A r \in Requests : Shown(d, r)'
    BY <1>2, <1>3, <2>1 DEF Attached, Shown, Known, Coming
  <2> QED BY <1>2, <2>1, <2>2, DisplayedClient
<1>6. CASE SnapshotCopy(d)
  <2>1. /\ snap[d].pc = "copy" /\ UNCHANGED card
        /\ snap'[d].pc = "look" /\ snap'[d].table = snap[d].table
        /\ snap'[d].ids = pending \intersect Table(snap[d].table)
        /\ snap'[d].found = {}
        /\ \A c \in Clients \ {d} : snap'[c] = snap[c]
    BY <1>4, <1>6 DEF SnapshotCopy
  <2>2. Attached(d)'
    BY <1>2, <1>3, <2>1 DEF Attached
  <2>3. ASSUME NEW r \in Requests PROVE Shown(d, r)'
    <3>1. Shown(d, r) /\ Opened(r) /\ snap[d].ids = {} /\ snap[d].found = {}
      BY <1>3, <2>1 DEF Attached
    <3>2. r \in snap'[d].ids => at[r] \in {"emit", "wait", "erase"}
      BY <2>1, <3>1 DEF Opened
    <3>3. at[r] = "wait" /\ (snap[d].table = "permission" \/ r \in Questions) =>
            \/ r \in snap'[d].ids
            \/ snap[d].table = "permission" /\ r \in Questions
      BY <2>1, <3>1 DEF Opened, Table, Requests
    <3> QED BY <1>2, <2>1, <3>1, <3>2, <3>3 DEF Shown, Known, Coming, Before
  <2> QED BY <1>2, <2>1, <2>2, <2>3, DisplayedClient
<1>7. CASE SnapshotEnd(d)
  <2>1. /\ snap[d].pc = "look" /\ snap[d].ids = {} /\ snap[d].found = {} /\ UNCHANGED card
        /\ IF snap[d].table = "permission"
           THEN snap'[d].pc = "copy" /\ snap'[d].table = "question"
           ELSE snap'[d].pc = "in"
        /\ snap'[d].ids = {} /\ snap'[d].found = {}
        /\ \A c \in Clients \ {d} : snap'[c] = snap[c]
    <3>0. /\ snap[d].pc = "look" /\ snap[d].ids = {} /\ snap[d].found = {}
          /\ UNCHANGED card
      BY <1>7 DEF SnapshotEnd
    <3>1. CASE snap[d].table = "permission"
      <4>1. snap' = [snap EXCEPT ![d] = Standing("copy", "question", {}, {})]
        BY <1>7, <3>1 DEF SnapshotEnd
      <4>2. /\ snap'[d].pc = "copy" /\ snap'[d].table = "question"
            /\ snap'[d].ids = {} /\ snap'[d].found = {}
            /\ \A c \in Clients \ {d} : snap'[c] = snap[c]
        BY ONLY <1>4, <4>1
      <4> QED BY ONLY <3>0, <3>1, <4>2
    <3>2. CASE snap[d].table # "permission"
      <4>1. snap' = [snap EXCEPT ![d] = Standing("in", "none", {}, {})]
        BY <1>7, <3>2 DEF SnapshotEnd, In
      <4>2. /\ snap'[d].pc = "in" /\ snap'[d].ids = {} /\ snap'[d].found = {}
            /\ \A c \in Clients \ {d} : snap'[c] = snap[c]
        BY ONLY <1>4, <4>1
      <4> QED BY ONLY <3>0, <3>2, <4>2
    <3> QED BY <3>1, <3>2
  <2>2. Attached(d)' /\ \A r \in Requests : Shown(d, r)'
    BY <1>2, <1>3, <2>1 DEF Attached, Shown, Known, Coming
  <2> QED BY <1>2, <2>1, <2>2, DisplayedClient
<1>8. ASSUME NEW q \in Requests, SnapshotLook(d, q) PROVE Displayed'
  <2>1. /\ snap[d].pc = "look" /\ UNCHANGED card /\ q \in snap[d].ids
        /\ snap'[d].pc = "look" /\ snap'[d].table = snap[d].table
        /\ snap'[d].ids = snap[d].ids \ {q}
        /\ snap'[d].found =
             IF verdict[q] = Nobody THEN snap[d].found \union {q} ELSE snap[d].found
        /\ \A c \in Clients \ {d} : snap'[c] = snap[c]
    <3>1. PICK found :
            /\ found = IF verdict[q] = Nobody THEN snap[d].found \union {q}
                       ELSE snap[d].found
            /\ snap' = [snap EXCEPT ![d] =
                          Standing("look", snap[d].table, snap[d].ids \ {q}, found)]
      BY <1>8 DEF SnapshotLook
    <3>2. /\ snap'[d].pc = "look" /\ snap'[d].table = snap[d].table
          /\ snap'[d].ids = snap[d].ids \ {q} /\ snap'[d].found = found
          /\ \A c \in Clients \ {d} : snap'[c] = snap[c]
      <4>1. PICK table, ids : table = snap[d].table /\ ids = snap[d].ids \ {q}
        OBVIOUS
      <4>2. snap' = [snap EXCEPT ![d] = Standing("look", table, ids, found)]
        BY <3>1, <4>1
      <4>3. /\ snap'[d].pc = "look" /\ snap'[d].table = table
            /\ snap'[d].ids = ids /\ snap'[d].found = found
            /\ \A c \in Clients \ {d} : snap'[c] = snap[c]
        BY ONLY <1>4, <4>2
      <4> QED BY ONLY <4>1, <4>3
    <3> QED BY <1>8, <3>1, <3>2 DEF SnapshotLook
  <2>2. Attached(d)'
    BY <1>2, <1>3, <2>1 DEF Attached
  <2>3. ASSUME NEW r \in Requests PROVE Shown(d, r)'
    BY <1>2, <1>3, <2>1 DEF Shown, Known, Coming
  <2> QED BY <1>2, <2>1, <2>2, <2>3, DisplayedClient
<1>9. ASSUME NEW q \in Requests, SnapshotSend(d, q) PROVE Displayed'
  <2>1. /\ snap[d].pc = "look" /\ q \in snap[d].found /\ Show(d, q)
        /\ snap'[d].pc = "look" /\ snap'[d].table = snap[d].table
        /\ snap'[d].ids = {} /\ snap[d].ids = {}
        /\ snap'[d].found = snap[d].found \ {q}
        /\ \A c \in Clients \ {d} : snap'[c] = snap[c]
    <3>1. PICK table, found : table = snap[d].table /\ found = snap[d].found \ {q}
      OBVIOUS
    <3>2. /\ snap' = [snap EXCEPT ![d] = Standing("look", table, {}, found)]
          /\ snap[d].pc = "look" /\ q \in snap[d].found /\ Show(d, q)
          /\ snap[d].ids = {}
      BY <1>9, <3>1 DEF SnapshotSend
    <3>3. /\ snap'[d].pc = "look" /\ snap'[d].table = table
          /\ snap'[d].ids = {} /\ snap'[d].found = found
          /\ \A c \in Clients \ {d} : snap'[c] = snap[c]
      BY ONLY <1>4, <3>2
    <3> QED BY ONLY <3>1, <3>2, <3>3
  <2>2. /\ \A r \in Requests : card'[d][r] =
             IF q = r /\ card[d][r] = "none" THEN "pending" ELSE card[d][r]
        /\ \A c \in Clients \ {d}, r \in Requests : card'[c][r] = card[c][r]
    BY <2>1, ShowEntry
  <2>3. Attached(d)'
    BY <1>2, <1>3, <2>1 DEF Attached
  <2>4. ASSUME NEW r \in Requests PROVE Shown(d, r)'
    BY <1>2, <1>3, <2>1, <2>2 DEF Shown, Known, Coming
  <2> QED BY <1>2, <2>1, <2>2, <2>3, <2>4, DisplayedClient
<1> QED
  BY <1>5, <1>6, <1>7, <1>8, <1>9 DEF Handler

(* No step breaks the invariant. *)
LEMMA DisplayedStep == TypeOK /\ Displayed /\ [Next]_vars => Displayed'
<1> SUFFICES ASSUME TypeOK, Displayed, [Next]_vars PROVE Displayed'
  OBVIOUS
<1> USE DEF stopVars, modeVars, toolVars, tableVars, answerVars, clientVars
<1>1. CASE UNCHANGED vars
  BY <1>1, DisplayedSettle DEF vars
<1>2. ASSUME NEW r \in Requests, ResolveVisit(r) PROVE Displayed'
  <2>1. \A p \in Requests : verdict'[p] = Nobody => verdict[p] = Nobody
    BY <1>2, NamesAssumption DEF ResolveVisit, TypeOK
  <2> QED BY <1>2, <2>1, DisplayedSettle DEF ResolveVisit
<1>3. CASE Abort \/ ClearStale \/ SetMode \/ ResolveCopy
  BY <1>3, DisplayedSettle DEF Abort, ClearStale, SetMode, ResolveCopy
<1>4. ASSUME NEW c \in Clients, Answer(c) PROVE Displayed'
  <2>1. \A p \in Requests : verdict'[p] = Nobody => verdict[p] = Nobody
    BY <1>4, ConstantsAssumption DEF Answer, TypeOK
  <2> QED BY <1>4, <2>1, DisplayedSettle DEF Answer
<1> QED
  BY <1>1, <1>2, <1>3, <1>4, DisplayedTool, DisplayedEndTurn, DisplayedDeliver,
     DisplayedHandler, DisplayedRespond DEF Next

(* Nothing is asked, sent or shown at first. *)
LEMMA DisplayedInit == Init => Displayed
<1> SUFFICES ASSUME Init PROVE Displayed
  OBVIOUS
<1>1. \A c \in Clients : snap[c] \in {In, Out} /\ stream[c] = <<>>
  BY DEF Init
<1>2. \A c \in Clients : snap[c].ids = {} /\ snap[c].found = {}
  BY <1>1 DEF In, Out, Standing
<1>3. \A c \in Clients, r \in Requests : ~Asks(c, r) /\ ~Closes(c, r)
  BY <1>1, HasNothing DEF Asks, Closes
<1>4. \A c \in Clients : Attached(c)
  BY <1>1, <1>2, HasNothing DEF Attached, Init
<1>5. \A c \in Clients, r \in Requests : Shown(c, r)
  BY <1>2, <1>3 DEF Shown, Known, Init
<1>6. \A r \in Requests : Opened(r)
  BY DEF Opened, Init
<1> QED BY <1>4, <1>5, <1>6 DEF Displayed

(* A client that connects at any moment gets every open request, by its    *)
(* event or by the snapshot, whatever is registered, announced, answered   *)
(* or closed meanwhile (routes_ws.cpp: subscribe, then the tables).        *)
THEOREM NoMissedCorrect == Spec => []NoMissedRequest
<1>1. TypeOK /\ Displayed => NoMissedRequest
  BY DisplayedImplies
<1> QED BY <1>1, DisplayedInit, DisplayedStep, TypeCorrect, PTL DEF Spec

(* No client keeps the card of a request that is over while the turn runs, *)
(* even if the snapshot brings it after the request was closed: the        *)
(* tombstone is already there.                                             *)
THEOREM NoStaleCorrect == Spec => []NoStaleCardInTurn
<1>1. TypeOK /\ Displayed => NoStaleCardInTurn
  BY DisplayedImplies
<1> QED BY <1>1, DisplayedInit, DisplayedStep, TypeCorrect, PTL DEF Spec
=============================================================================
