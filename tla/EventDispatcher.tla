--------------------------- MODULE EventDispatcher ---------------------------
(***************************************************************************)
(* The event broadcast of one session (src/session/event_dispatcher.cpp).  *)
(* Emitting threads number an event and queue it on every subscription     *)
(* under mu_; the thread that claims a subscription (delivering) calls its *)
(* listener outside the lock.  A subscribing thread first replays buffered *)
(* history, then flushes what was queued meanwhile, then opens the         *)
(* subscription to the emitters (catching_up = false).                     *)
(*                                                                         *)
(* One action is one section under mu_, or one listener call: between      *)
(* taking an event (hand) and the end of the call, any thread may run.     *)
(* An event is its sequence number; its payload is never looked at.        *)
(***************************************************************************)
EXTENDS Integers, Sequences, FiniteSets, SequencesExt

CONSTANTS
  Emitters,                \* threads that call emit()
  Clients,                 \* subscription ids handed to clients
  ObserverIds,             \* subscription ids handed to set_observer()
  Keys,                    \* non-empty coalesce keys
  NoKey,                   \* the empty coalesce key
  NoSub,                   \* no subscription (id 0)
  Capacity,                \* buffer_capacity_
  MaxSeq                   \* bound: at most this many events are emitted

Subs == Clients \union ObserverIds

ASSUME ConstantsAssumption ==
  /\ NoKey \notin Keys
  /\ NoSub \notin Subs
  /\ Clients \intersect ObserverIds = {}
  /\ Capacity \in Nat \ {0}
  /\ MaxSeq \in Nat

VARIABLES
  log,                     \* history: the options of each event ever emitted
  evicted,                 \* history: the highest seq the capacity pushed out
  buffer,                  \* buffer_: seqs kept for replay, oldest first
  coalesced,               \* coalesced_seq_by_key_ (0: no entry)
  registered,              \* the keys of subscriptions_
  catchingUp,              \* Subscription::catching_up
  delivering,              \* Subscription::delivering
  pending,                 \* Subscription::pending
  targets,                 \* emit(): drain_targets this thread has yet to finish
  current,                 \* the target inside drain_subscription, or NoSub
  hand,                    \* the event whose listener call is running, or 0
  phase,                   \* where subscribe() of this id stands
  replay,                  \* subscribe(): to_replay not delivered yet
  catchHand,               \* subscribe(): event whose listener call is running
  observerId,              \* observer_subscription_id_
  installer,               \* where set_observer() stands
  delivered                \* history: what each listener has been called with

bufferVars == <<log, evicted, buffer, coalesced>>
emitterVars == <<targets, current, hand>>
subscribeVars == <<phase, replay, catchHand>>
observerVars == <<observerId, installer>>
vars == <<bufferVars, registered, catchingUp, delivering, pending, emitterVars,
          subscribeVars, observerVars, delivered>>

seq == Len(log)            \* seq_counter_

Options ==
  [buffered : {FALSE}, key : {NoKey}] \union
  [buffered : {TRUE}, key : Keys \union {NoKey}]

Phases == {"new", "replay", "flush", "open"}

Init ==
  /\ log = <<>>
  /\ evicted = 0
  /\ buffer = <<>>
  /\ coalesced = [k \in Keys |-> 0]
  /\ registered = {}
  /\ catchingUp = [s \in Subs |-> FALSE]
  /\ delivering = [s \in Subs |-> FALSE]
  /\ pending = [s \in Subs |-> <<>>]
  /\ targets = [e \in Emitters |-> {}]
  /\ current = [e \in Emitters |-> NoSub]
  /\ hand = [e \in Emitters |-> 0]
  /\ phase = [s \in Subs |-> "new"]
  /\ replay = [s \in Subs |-> <<>>]
  /\ catchHand = [s \in Subs |-> 0]
  /\ observerId = NoSub
  /\ installer = [pc |-> "idle", id |-> NoSub, next |-> NoSub]
  /\ delivered = [s \in Subs |-> <<>>]
-----------------------------------------------------------------------------
(* Plausible mistakes in the code below.  No action uses them: each one,   *)
(* put in the place of the definition it is named after, must break a      *)
(* property.                                                               *)

CoalesceKeepsOld(key) == buffer              \* does not erase the older event

ClaimableTwice == {s \in registered : ~catchingUp[s]}  \* ignores delivering

EmitToOpenOnly(e) ==                         \* skips the catching-up ones
  /\ targets[e] = {}
  /\ seq < MaxSeq
  /\ log' = Append(log, [buffered |-> FALSE, key |-> NoKey])
  /\ pending' = [s \in Subs |-> IF s \in registered /\ ~catchingUp[s]
                                THEN Append(pending[s], seq + 1)
                                ELSE pending[s]]
  /\ LET claimed == {s \in registered : ~catchingUp[s] /\ ~delivering[s]}
     IN  /\ delivering' = [s \in Subs |-> delivering[s] \/ s \in claimed]
         /\ targets' = [targets EXCEPT ![e] = claimed]
  /\ UNCHANGED <<evicted, buffer, coalesced, registered, catchingUp, current,
                 hand, subscribeVars, observerVars, delivered>>

DrainStopEarly(e, s) ==                      \* one event, then stops
  /\ s \in targets[e] /\ current[e] \in {NoSub, s} /\ hand[e] = 0
  /\ delivering' = [delivering EXCEPT ![s] = FALSE]
  /\ targets' = [targets EXCEPT ![e] = @ \ {s}]
  /\ current' = [current EXCEPT ![e] = NoSub]
  /\ UNCHANGED <<bufferVars, registered, catchingUp, pending, hand,
                 subscribeVars, observerVars, delivered>>

RegisterOpen(s, since) ==                    \* forgets catching_up
  /\ phase[s] = "new"
  /\ registered' = registered \union {s}
  /\ replay' = [replay EXCEPT ![s] = IF since = 0 THEN <<>> ELSE
                  SelectSeq(buffer, LAMBDA n : n > since)]
  /\ phase' = [phase EXCEPT ![s] = "replay"]
  /\ UNCHANGED <<bufferVars, catchingUp, delivering, pending, emitterVars,
                 catchHand, delivered>>

-----------------------------------------------------------------------------
(* push_to_buffer.  The older event of the same key gives up its place,    *)
(* then the oldest events leave until the capacity is respected.           *)

Superseded(key) ==
  {i \in DOMAIN buffer : key # NoKey /\ buffer[i] = coalesced[key]}

Coalesce(key) ==
  IF Superseded(key) = {} THEN buffer
  ELSE RemoveAt(buffer, CHOOSE i \in Superseded(key) : TRUE)

PushToBuffer(n, key) ==
  LET grown == Append(Coalesce(key), n)
      marked == IF key = NoKey THEN coalesced
                ELSE [coalesced EXCEPT ![key] = n]
  IN  IF Len(grown) <= Capacity
      THEN /\ buffer' = grown
           /\ coalesced' = marked
           /\ UNCHANGED evicted
      ELSE /\ buffer' = Tail(grown)
           /\ evicted' = Head(grown)
           /\ coalesced' = [k \in Keys |->
                              IF marked[k] = Head(grown) THEN 0 ELSE marked[k]]

(* emit(), its section under mu_: number, buffer, queue on every           *)
(* subscription, and claim the ones nobody is delivering to.               *)
Claimable == {s \in registered : ~catchingUp[s] /\ ~delivering[s]}

Emit(e) ==
  /\ targets[e] = {}
  /\ seq < MaxSeq
  /\ \E opt \in Options :
       /\ log' = Append(log, opt)
       /\ IF opt.buffered THEN PushToBuffer(seq + 1, opt.key)
          ELSE UNCHANGED <<evicted, buffer, coalesced>>
  /\ pending' = [s \in Subs |-> IF s \in registered
                                THEN Append(pending[s], seq + 1)
                                ELSE pending[s]]
  /\ delivering' = [s \in Subs |-> delivering[s] \/ s \in Claimable]
  /\ targets' = [targets EXCEPT ![e] = Claimable]
  /\ UNCHANGED <<registered, catchingUp, current, hand, subscribeVars,
                 observerVars, delivered>>
-----------------------------------------------------------------------------
(* drain_subscription, run by the emitter for one target after another.    *)

Draining(e, s) ==
  /\ s \in targets[e]
  /\ current[e] \in {NoSub, s}
  /\ hand[e] = 0

Deliverable(s) == s \in registered /\ ~catchingUp[s] /\ pending[s] # <<>>

DrainPop(e, s) ==
  /\ Draining(e, s)
  /\ Deliverable(s)
  /\ hand' = [hand EXCEPT ![e] = Head(pending[s])]
  /\ pending' = [pending EXCEPT ![s] = Tail(@)]
  /\ current' = [current EXCEPT ![e] = s]
  /\ UNCHANGED <<bufferVars, registered, catchingUp, delivering, targets,
                 subscribeVars, observerVars, delivered>>

DrainCall(e) ==
  /\ hand[e] # 0
  /\ delivered' = [delivered EXCEPT ![current[e]] = Append(@, hand[e])]
  /\ hand' = [hand EXCEPT ![e] = 0]
  /\ UNCHANGED <<bufferVars, registered, catchingUp, delivering, pending,
                 targets, current, subscribeVars, observerVars>>

DrainStop(e, s) ==
  /\ Draining(e, s)
  /\ ~Deliverable(s)
  /\ delivering' = [delivering EXCEPT ![s] = FALSE]
  /\ targets' = [targets EXCEPT ![e] = @ \ {s}]
  /\ current' = [current EXCEPT ![e] = NoSub]
  /\ UNCHANGED <<bufferVars, registered, catchingUp, pending, hand,
                 subscribeVars, observerVars, delivered>>
-----------------------------------------------------------------------------
(* subscribe().  since is the last seq the client saw, 0 for "no replay".   *)
(* The loop over buffer_ keeps the events above since: those from the first *)
(* index that holds one (BufferIncreasing).                                 *)

Register(s, since) ==
  /\ phase[s] = "new"
  /\ \E first \in 1..Len(buffer) + 1 :
       /\ \A i \in DOMAIN buffer : i >= first <=> buffer[i] > since
       /\ replay' = [replay EXCEPT ![s] =
                       IF since = 0 THEN <<>>
                       ELSE SubSeq(buffer, first, Len(buffer))]
  /\ registered' = registered \union {s}
  /\ catchingUp' = [catchingUp EXCEPT ![s] = TRUE]
  /\ phase' = [phase EXCEPT ![s] = "replay"]
  /\ UNCHANGED <<bufferVars, delivering, pending, emitterVars, catchHand,
                 delivered>>

Subscribe(s) ==
  /\ s \in Clients
  /\ \E since \in 0..seq : Register(s, since)
  /\ UNCHANGED observerVars

ReplayNext(s) ==
  /\ phase[s] = "replay" /\ catchHand[s] = 0
  /\ replay[s] # <<>>
  /\ catchHand' = [catchHand EXCEPT ![s] = Head(replay[s])]
  /\ replay' = [replay EXCEPT ![s] = Tail(@)]
  /\ UNCHANGED <<bufferVars, registered, catchingUp, delivering, pending,
                 emitterVars, phase, observerVars, delivered>>

ReplayEnd(s) ==
  /\ phase[s] = "replay" /\ catchHand[s] = 0
  /\ replay[s] = <<>>
  /\ phase' = [phase EXCEPT ![s] = "flush"]
  /\ UNCHANGED <<bufferVars, registered, catchingUp, delivering, pending,
                 emitterVars, replay, catchHand, observerVars, delivered>>

FlushPop(s) ==
  /\ phase[s] = "flush" /\ catchHand[s] = 0
  /\ s \in registered /\ pending[s] # <<>>
  /\ catchHand' = [catchHand EXCEPT ![s] = Head(pending[s])]
  /\ pending' = [pending EXCEPT ![s] = Tail(@)]
  /\ UNCHANGED <<bufferVars, registered, catchingUp, delivering, emitterVars,
                 phase, replay, observerVars, delivered>>

(* Nothing left under the lock: hand over to the emitters, or stop because  *)
(* the subscription was removed meanwhile.  subscribe() returns the id.     *)
Open(s) ==
  /\ phase[s] = "flush" /\ catchHand[s] = 0
  /\ s \in registered => pending[s] = <<>>
  /\ catchingUp' = IF s \in registered
                   THEN [catchingUp EXCEPT ![s] = FALSE] ELSE catchingUp
  /\ phase' = [phase EXCEPT ![s] = "open"]
  /\ UNCHANGED <<bufferVars, registered, delivering, pending, emitterVars,
                 replay, catchHand, observerVars, delivered>>

CatchUpCall(s) ==
  /\ catchHand[s] # 0
  /\ delivered' = [delivered EXCEPT ![s] = Append(@, catchHand[s])]
  /\ catchHand' = [catchHand EXCEPT ![s] = 0]
  /\ UNCHANGED <<bufferVars, registered, catchingUp, delivering, pending,
                 emitterVars, phase, replay, observerVars>>

Erase(s) ==
  /\ registered' = registered \ {s}
  /\ observerId' = IF observerId = s THEN NoSub ELSE observerId
  /\ UNCHANGED <<bufferVars, catchingUp, delivering, pending, emitterVars,
                 subscribeVars, delivered>>

Unsubscribe(s) ==
  /\ s \in Clients \intersect registered
  /\ Erase(s)
  /\ UNCHANGED installer
-----------------------------------------------------------------------------
(* set_observer(): forget the installed observer, unsubscribe it, subscribe *)
(* the new one (next; NoSub: an empty callback), record its id.  Only       *)
(* AgentLoop::set_session_manager calls it, one call at a time.             *)

ObserverTake(next) ==
  /\ installer.pc = "idle"
  /\ next \in ObserverIds => phase[next] = "new"
  /\ installer' = [pc |-> "erase", id |-> observerId, next |-> next]
  /\ observerId' = NoSub
  /\ UNCHANGED <<bufferVars, registered, catchingUp, delivering, pending,
                 emitterVars, subscribeVars, delivered>>

ObserverErase ==
  /\ installer.pc = "erase"
  /\ IF installer.id # NoSub
     THEN Erase(installer.id)
     ELSE UNCHANGED <<bufferVars, registered, catchingUp, delivering, pending,
                      emitterVars, subscribeVars, observerId, delivered>>
  /\ installer' = [installer EXCEPT
                     !.pc = IF installer.next = NoSub THEN "idle" ELSE "subscribe"]

ObserverSubscribe ==
  /\ installer.pc = "subscribe"
  /\ Register(installer.next, 0)
  /\ installer' = [installer EXCEPT !.pc = "store"]
  /\ UNCHANGED observerId

ObserverStore ==
  /\ installer.pc = "store"
  /\ phase[installer.next] = "open"
  /\ observerId' = installer.next
  /\ installer' = [installer EXCEPT !.pc = "idle"]
  /\ UNCHANGED <<bufferVars, registered, catchingUp, delivering, pending,
                 emitterVars, subscribeVars, delivered>>
-----------------------------------------------------------------------------
EmitterStep(e) == DrainCall(e) \/ \E s \in Subs : DrainPop(e, s) \/ DrainStop(e, s)

SubscriberStep(s) ==
  ReplayNext(s) \/ ReplayEnd(s) \/ FlushPop(s) \/ Open(s) \/ CatchUpCall(s)

ObserverStep ==
  \/ \E next \in ObserverIds \union {NoSub} : ObserverTake(next)
  \/ ObserverErase \/ ObserverSubscribe \/ ObserverStore

Next ==
  \/ \E e \in Emitters : Emit(e) \/ EmitterStep(e)
  \/ \E s \in Subs : Subscribe(s) \/ SubscriberStep(s) \/ Unsubscribe(s)
  \/ ObserverStep

Spec == Init /\ [][Next]_vars

(* A thread that is inside emit() or subscribe() keeps running: the         *)
(* listeners it calls return.  Nobody is obliged to emit or to subscribe.   *)
Fairness ==
  /\ \A e \in Emitters : WF_vars(EmitterStep(e))
  /\ \A s \in Subs : WF_vars(SubscriberStep(s))

FairSpec == Spec /\ Fairness
-----------------------------------------------------------------------------
TypeOK ==
  /\ log \in Seq(Options) /\ Len(log) <= MaxSeq
  /\ evicted \in Nat
  /\ buffer \in Seq(Nat)
  /\ coalesced \in [Keys -> Nat]
  /\ registered \subseteq Subs
  /\ catchingUp \in [Subs -> BOOLEAN]
  /\ delivering \in [Subs -> BOOLEAN]
  /\ pending \in [Subs -> Seq(Nat)]
  /\ targets \in [Emitters -> SUBSET Subs]
  /\ current \in [Emitters -> Subs \union {NoSub}]
  /\ hand \in [Emitters -> Nat]
  /\ phase \in [Subs -> Phases]
  /\ replay \in [Subs -> Seq(Nat)]
  /\ catchHand \in [Subs -> Nat]
  /\ observerId \in ObserverIds \union {NoSub}
  /\ installer \in [pc : {"idle", "erase", "subscribe", "store"},
                    id : ObserverIds \union {NoSub},
                    next : ObserverIds \union {NoSub}]
  /\ installer.pc \in {"subscribe", "store"} => installer.next \in ObserverIds
  /\ delivered \in [Subs -> Seq(Nat)]

(* The threads that are inside a call of the listener of s. *)
CallersOf(s) ==
  {e \in Emitters : current[e] = s /\ hand[e] # 0} \union
  (IF catchHand[s] # 0 THEN {s} ELSE {})

(* A listener is never called by two threads at once: a subscription has at *)
(* most one drainer (event_dispatcher.hpp:17).                              *)
OneCaller == \A s \in Subs : \A t, u \in CallersOf(s) : t = u

(* No lost wakeup: while an open subscription has queued events, some       *)
(* thread still has to come back to them.                                   *)
PendingIsOwned ==
  \A s \in registered : pending[s] # <<>> =>
    \/ phase[s] \in {"replay", "flush"}
    \/ \E e \in Emitters : s \in targets[e]

(* A listener sees each event at most once and in the order of seq, the     *)
(* replayed history before the live events (event_dispatcher.hpp:20-25).    *)
DeliveredInOrder ==
  \A s \in Subs : \A i, j \in DOMAIN delivered[s] :
    i < j => delivered[s][i] < delivered[s][j]

(* The replay buffer respects its capacity and stays ordered by seq, which  *)
(* subscribe() relies on to resume a client.                                *)
BufferIncreasing ==
  /\ Len(buffer) <= Capacity
  /\ \A i, j \in DOMAIN buffer : i < j => buffer[i] < buffer[j]

(* A client that resumes above what the capacity has pushed out misses      *)
(* nothing durable: the buffer holds exactly the buffered events that are   *)
(* above evicted and not replaced by a later one of the same key.           *)
Replaced(n) == log[n].key # NoKey /\ \E m \in n + 1..seq : log[m].key = log[n].key
BufferComplete ==
  {buffer[i] : i \in DOMAIN buffer} =
    {n \in evicted + 1..seq : log[n].buffered /\ ~Replaced(n)}

-----------------------------------------------------------------------------
(* What is owed to s: the event in a running call, the history still to be  *)
(* replayed, then the queue, unless the subscription was removed.           *)
InCall(s) ==
  LET callers == {e \in Emitters : current[e] = s /\ hand[e] # 0}
  IN  IF catchHand[s] # 0 THEN <<catchHand[s]>>
      ELSE IF callers = {} THEN <<>>
      ELSE <<hand[CHOOSE e \in callers : TRUE]>>

Owed(s) ==
  InCall(s) \o replay[s] \o (IF s \in registered THEN pending[s] ELSE <<>>)

(* Once emission pauses (MaxSeq bounds it), every client gets everything it *)
(* is owed: no queued or replayed event waits for ever.                     *)
PendingDelivered == \A s \in Subs : Owed(s) # <<>> ~> Owed(s) = <<>>

Abstract == INSTANCE OrderedDelivery WITH
  emitted <- seq,
  fresh <- {s \in Subs : phase[s] = "new"},
  members <- registered,
  todo <- [s \in Subs |-> Owed(s)]

(* Every step of the dispatcher is a step of OrderedDelivery or changes     *)
(* nothing a client can see: exactly the owed events, once each, in order.  *)
ImplementsOrderedDelivery == Abstract!Spec
=============================================================================
