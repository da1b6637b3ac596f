----------------------- MODULE EventDispatcherProofs -----------------------
(***************************************************************************)
(* Machine-checked proofs about EventDispatcher, for any number of         *)
(* emitting threads and subscriptions, any capacity and any MaxSeq.        *)
(***************************************************************************)
EXTENDS EventDispatcher, SequenceTheorems, TLAPS

USE DEF seq, Subs

(* Removing one element of a sequence leaves a sequence of the same kind. *)
LEMMA RemoveAtType ==
  ASSUME NEW S, NEW q \in Seq(S), NEW i \in 1..Len(q)
  PROVE  /\ RemoveAt(q, i) \in Seq(S)
         /\ Len(RemoveAt(q, i)) = Len(q) - 1
         /\ \A j \in 1..Len(q) - 1 :
              RemoveAt(q, i)[j] = IF j < i THEN q[j] ELSE q[j + 1]
<1>0. Len(q) \in Nat /\ i \in Int
  OBVIOUS
<1> DEFINE a == SubSeq(q, 1, i - 1)
           b == SubSeq(q, i + 1, Len(q))
<1>1. /\ a \in Seq(S) /\ Len(a) = i - 1
      /\ \A j \in 1..i - 1 : a[j] = q[j]
  BY SubSeqProperties
<1>2. /\ b \in Seq(S) /\ Len(b) = Len(q) - i
      /\ \A j \in 1..Len(q) - i : b[j] = q[i + j]
  BY SubSeqProperties
<1>3. /\ a \o b \in Seq(S) /\ Len(a \o b) = Len(q) - 1
      /\ \A j \in 1..Len(q) - 1 :
           (a \o b)[j] = IF j <= i - 1 THEN a[j] ELSE b[j - (i - 1)]
  <2> HIDE DEF a, b
  <2>1. /\ a \o b \in Seq(S)
        /\ Len(a \o b) = Len(a) + Len(b)
        /\ \A j \in 1..Len(a) + Len(b) :
             (a \o b)[j] = IF j <= Len(a) THEN a[j] ELSE b[j - Len(a)]
    BY <1>1, <1>2, ConcatProperties
  <2>2. Len(a) = i - 1 /\ Len(a) + Len(b) = Len(q) - 1
    BY <1>0, <1>1, <1>2
  <2> QED
    BY <2>1, <2>2
<1>4. \A j \in 1..Len(q) - 1 :
        (a \o b)[j] = IF j < i THEN q[j] ELSE q[j + 1]
  <2> SUFFICES ASSUME NEW j \in 1..Len(q) - 1
      PROVE  (a \o b)[j] = IF j < i THEN q[j] ELSE q[j + 1]
    OBVIOUS
  <2> HIDE DEF a, b
  <2>0. j \in Int /\ i \in Int
    BY <1>0
  <2>1. CASE j < i
    BY <1>1, <1>3, <2>1
  <2>2. CASE ~(j < i)
    <3>0. j >= i
      BY <2>0, <2>2
    <3>1. j - (i - 1) \in 1..Len(q) - i /\ i + (j - (i - 1)) = j + 1
      BY <2>0, <3>0
    <3>2. (a \o b)[j] = b[j - (i - 1)]
      BY <1>3, <2>0, <3>0
    <3> QED
      BY <1>2, <2>2, <3>1, <3>2
  <2> QED
    BY <2>1, <2>2
<1> QED
  BY <1>3, <1>4 DEF RemoveAt

(* What stays in the buffer after the superseded event left is still a     *)
(* sequence of event numbers.                                              *)
LEMMA CoalesceType ==
  ASSUME TypeOK, NEW key \in Keys \union {NoKey}
  PROVE  Coalesce(key) \in Seq(Nat)
<1>1. CASE Superseded(key) = {}
  BY <1>1 DEF Coalesce, TypeOK
<1>2. CASE Superseded(key) # {}
  <2>1. (CHOOSE i \in Superseded(key) : TRUE) \in 1..Len(buffer)
    <3>1. Superseded(key) \subseteq 1..Len(buffer)
      <4>1. buffer \in Seq(Nat)
        BY DEF TypeOK
      <4> QED
        BY <4>1 DEF Superseded
    <3> QED
      BY <1>2, <3>1
  <2>2. buffer \in Seq(Nat)
    BY DEF TypeOK
  <2> QED
    BY <1>2, <2>1, <2>2, RemoveAtType DEF Coalesce
<1> QED
  BY <1>1, <1>2

(* The variables of the dispatcher keep their types: TypeOK is inductive.  *)
LEMMA TypeOKInit == Init => TypeOK
  BY ConstantsAssumption DEF Init, TypeOK, Phases

(* emit() writes only well-typed values.                                   *)
LEMMA TypeOKEmit ==
  ASSUME TypeOK, NEW e \in Emitters, Emit(e)
  PROVE  TypeOK'
<1>1. PICK opt \in Options :
        /\ log' = Append(log, opt)
        /\ IF opt.buffered THEN PushToBuffer(seq + 1, opt.key)
           ELSE UNCHANGED <<evicted, buffer, coalesced>>
  BY DEF Emit
<1>2. log' \in Seq(Options) /\ Len(log') <= MaxSeq
  BY <1>1, ConstantsAssumption DEF Emit, TypeOK
<1>3. evicted' \in Nat /\ buffer' \in Seq(Nat) /\ coalesced' \in [Keys -> Nat]
  <2>1. CASE ~opt.buffered
    BY <1>1, <2>1 DEF TypeOK
  <2>2. CASE opt.buffered
    <3>1. opt.key \in Keys \union {NoKey}
      BY DEF Options
    <3>2. Coalesce(opt.key) \in Seq(Nat)
      BY <3>1, CoalesceType
    <3>3. seq + 1 \in Nat
      BY DEF TypeOK
    <3> DEFINE grown == Append(Coalesce(opt.key), seq + 1)
    <3>4. /\ grown \in Seq(Nat) /\ Head(grown) \in Nat /\ Tail(grown) \in Seq(Nat)
      <4>1. grown \in Seq(Nat) /\ grown # <<>>
        BY <3>2, <3>3, AppendProperties
      <4> QED
        BY <4>1, HeadTailProperties
    <3> DEFINE marked == IF opt.key = NoKey THEN coalesced
                         ELSE [coalesced EXCEPT ![opt.key] = seq + 1]
    <3>5. marked \in [Keys -> Nat]
      BY <3>1, <3>3 DEF TypeOK
    <3>6. IF Len(grown) <= Capacity
          THEN buffer' = grown /\ coalesced' = marked /\ UNCHANGED evicted
          ELSE /\ buffer' = Tail(grown)
               /\ evicted' = Head(grown)
               /\ coalesced' = [k \in Keys |-> IF marked[k] = Head(grown) THEN 0
                                             ELSE marked[k]]
      BY <1>1, <2>2 DEF PushToBuffer
    <3> HIDE DEF grown, marked
    <3>7. CASE Len(grown) <= Capacity
      BY <3>4, <3>5, <3>6, <3>7 DEF TypeOK
    <3>8. CASE ~(Len(grown) <= Capacity)
      <4>1. /\ buffer' = Tail(grown) /\ evicted' = Head(grown)
            /\ coalesced' = [k \in Keys |-> IF marked[k] = Head(grown) THEN 0
                                           ELSE marked[k]]
        BY <3>6, <3>8
      <4>2. \A k \in Keys : (IF marked[k] = Head(grown) THEN 0 ELSE marked[k]) \in Nat
        BY <3>5
      <4> QED
        BY <3>4, <4>1, <4>2
    <3> QED
      BY <3>7, <3>8
  <2> QED
    BY <2>1, <2>2
<1>4. pending' \in [Subs -> Seq(Nat)]
  <2>1. \A s \in Subs : pending[s] \in Seq(Nat) /\ seq + 1 \in Nat
    BY DEF TypeOK
  <2>2. \A s \in Subs : Append(pending[s], seq + 1) \in Seq(Nat)
    BY <2>1, AppendProperties
  <2> QED
    BY <2>1, <2>2 DEF Emit
<1>5. delivering' \in [Subs -> BOOLEAN] /\ targets' \in [Emitters -> SUBSET Subs]
  BY DEF Emit, TypeOK, Claimable
<1> QED
  BY <1>2, <1>3, <1>4, <1>5
     DEF Emit, TypeOK, subscribeVars, observerVars

(* So does every step of a thread that drains.                             *)
LEMMA TypeOKEmitterStep ==
  ASSUME TypeOK, NEW e \in Emitters, EmitterStep(e)
  PROVE  TypeOK'
<1> USE ConstantsAssumption DEF bufferVars, subscribeVars, observerVars
<1>1. CASE DrainCall(e)
  <2>1. current[e] \in Subs => delivered'[current[e]] \in Seq(Nat)
    BY <1>1 DEF DrainCall, TypeOK
  <2> QED
    BY <1>1, <2>1 DEF DrainCall, TypeOK
<1>2. ASSUME NEW s \in Subs, DrainPop(e, s) PROVE TypeOK'
  <2>1. Head(pending[s]) \in Nat /\ Tail(pending[s]) \in Seq(Nat)
    BY <1>2, HeadTailProperties DEF DrainPop, Deliverable, TypeOK
  <2> QED
    BY <1>2, <2>1 DEF DrainPop, Draining, TypeOK
<1>3. ASSUME NEW s \in Subs, DrainStop(e, s) PROVE TypeOK'
  BY <1>3 DEF DrainStop, TypeOK
<1> QED
  BY <1>1, <1>2, <1>3 DEF EmitterStep

(* So does the registration of a subscriber.                               *)
LEMMA TypeOKRegister ==
  ASSUME TypeOK, NEW s \in Subs, NEW since \in Nat, Register(s, since)
  PROVE  /\ registered' \subseteq Subs
         /\ catchingUp' \in [Subs -> BOOLEAN]
         /\ phase' \in [Subs -> Phases]
         /\ replay' \in [Subs -> Seq(Nat)]
<1>1. PICK first \in 1..Len(buffer) + 1 :
        replay' = [replay EXCEPT ![s] =
                     IF since = 0 THEN <<>> ELSE SubSeq(buffer, first, Len(buffer))]
  BY DEF Register
<1>2. SubSeq(buffer, first, Len(buffer)) \in Seq(Nat)
  <2>1. buffer \in Seq(Nat) /\ Len(buffer) \in Nat
    BY DEF TypeOK
  <2>2. \A i \in first..Len(buffer) : i \in 1..Len(buffer)
    BY <2>1
  <2> QED
    BY <2>1, <2>2, SubSeqProperties
<1>3. replay' \in [Subs -> Seq(Nat)]
  <2> DEFINE rest == SubSeq(buffer, first, Len(buffer))
  <2>1. (IF since = 0 THEN <<>> ELSE rest) \in Seq(Nat)
    BY <1>2
  <2>2. replay' = [replay EXCEPT ![s] = IF since = 0 THEN <<>> ELSE rest]
    BY <1>1
  <2> HIDE DEF rest
  <2> QED
    BY <2>1, <2>2 DEF TypeOK
<1> QED
  BY <1>3 DEF Register, TypeOK, Phases

(* So do the steps of a subscribing thread.                                *)
LEMMA TypeOKSubscriberStep ==
  ASSUME TypeOK, NEW s \in Subs, SubscriberStep(s)
  PROVE  TypeOK'
<1> USE DEF bufferVars, emitterVars, observerVars
<1>1. CASE ReplayNext(s)
  BY <1>1, HeadTailProperties DEF ReplayNext, TypeOK
<1>2. CASE ReplayEnd(s)
  BY <1>2 DEF ReplayEnd, TypeOK, Phases
<1>3. CASE FlushPop(s)
  BY <1>3, HeadTailProperties DEF FlushPop, TypeOK
<1>4. CASE Open(s)
  BY <1>4 DEF Open, TypeOK, Phases
<1>5. CASE CatchUpCall(s)
  <2>1. Append(delivered[s], catchHand[s]) \in Seq(Nat)
    BY AppendProperties DEF TypeOK
  <2> QED
    BY <1>5, <2>1 DEF CatchUpCall, TypeOK
<1> QED
  BY <1>1, <1>2, <1>3, <1>4, <1>5 DEF SubscriberStep

(* So do subscribe() and unsubscribe() from their first step.              *)
LEMMA TypeOKSubscribeUnsubscribe ==
  ASSUME TypeOK, NEW s \in Subs, Subscribe(s) \/ Unsubscribe(s)
  PROVE  TypeOK'
<1> USE DEF bufferVars, emitterVars, subscribeVars, observerVars
<1>1. CASE Subscribe(s)
  <2>1. PICK since \in Nat : Register(s, since)
    BY <1>1 DEF Subscribe, TypeOK
  <2> QED
    BY <1>1, <2>1, TypeOKRegister DEF Subscribe, Register, TypeOK
<1>2. CASE Unsubscribe(s)
  BY <1>2 DEF Unsubscribe, Erase, TypeOK
<1> QED
  BY <1>1, <1>2

(* So do the sections of set_observer().                                   *)
LEMMA TypeOKObserverStep ==
  ASSUME TypeOK, ObserverStep
  PROVE  TypeOK'
<1> USE DEF bufferVars, emitterVars, subscribeVars, observerVars
<1>1. ASSUME NEW next \in ObserverIds \union {NoSub}, ObserverTake(next)
      PROVE  TypeOK'
  BY <1>1 DEF ObserverTake, TypeOK
<1>2. CASE ObserverErase
  BY <1>2 DEF ObserverErase, Erase, TypeOK
<1>3. CASE ObserverSubscribe
  <2>1. installer.next \in Subs
    BY <1>3 DEF ObserverSubscribe, TypeOK
  <2> QED
    BY <1>3, <2>1, TypeOKRegister DEF ObserverSubscribe, Register, TypeOK
<1>4. CASE ObserverStore
  BY <1>4 DEF ObserverStore, TypeOK
<1> QED
  BY <1>1, <1>2, <1>3, <1>4 DEF ObserverStep

(* Nothing changes in a stuttering step.                                   *)
LEMMA TypeOKStutter == TypeOK /\ UNCHANGED vars => TypeOK'
  BY DEF TypeOK, vars, bufferVars, emitterVars, subscribeVars, observerVars

(* TypeOK is preserved by every step.                                      *)
LEMMA TypeOKStep == TypeOK /\ [Next]_vars => TypeOK'
  BY TypeOKEmit, TypeOKEmitterStep, TypeOKSubscriberStep,
     TypeOKSubscribeUnsubscribe, TypeOKObserverStep, TypeOKStutter DEF Next

(* The dispatcher's variables always have the types of the C++ fields and  *)
(* locals they model (event_dispatcher.hpp:90-109).                        *)
THEOREM TypeCorrect == Spec => []TypeOK
  BY TypeOKInit, TypeOKStep, PTL DEF Spec
-----------------------------------------------------------------------------
(* Who may touch a subscription.  A claimed subscription (delivering) is in *)
(* the drain list of exactly one emitter and is open; before it opens only  *)
(* its subscribing thread calls its listener.                               *)

UniqueHolder ==
  \A e, f \in Emitters, s \in Subs : s \in targets[e] /\ s \in targets[f] => e = f

HeldIsOpen ==
  \A e \in Emitters, s \in Subs :
    s \in targets[e] => delivering[s] /\ phase[s] = "open"

ClaimedIsHeld ==
  \A s \in Subs : delivering[s] => \E e \in Emitters : s \in targets[e]

CallIsHeld ==
  \A e \in Emitters :
    /\ current[e] # NoSub => current[e] \in targets[e]
    /\ hand[e] # 0 => current[e] # NoSub

RegisteredPhase ==
  \A s \in registered :
    /\ phase[s] # "new"
    /\ catchingUp[s] <=> phase[s] \in {"replay", "flush"}

CatchHandPhase ==
  \A s \in Subs : catchHand[s] # 0 => phase[s] \in {"replay", "flush"}

Ownership ==
  /\ UniqueHolder /\ HeldIsOpen /\ ClaimedIsHeld /\ CallIsHeld
  /\ RegisteredPhase /\ CatchHandPhase /\ PendingIsOwned

(* Nobody holds a listener at first.                                       *)
LEMMA OwnershipInit == Init => Ownership
  BY ConstantsAssumption DEF Init, Ownership, UniqueHolder, HeldIsOpen,
     ClaimedIsHeld, CallIsHeld, RegisteredPhase, CatchHandPhase, PendingIsOwned

(* emit() claims a listener only if nobody holds it.                       *)
LEMMA OwnershipEmit ==
  ASSUME TypeOK, Ownership, NEW e \in Emitters, Emit(e)
  PROVE  Ownership'
<1>1. \A s \in Claimable : s \in Subs /\ phase[s] = "open"
  BY DEF Claimable, Phases, TypeOK, Ownership, RegisteredPhase
<1>2. \A s \in Claimable, f \in Emitters : s \notin targets[f]
  BY <1>1 DEF Claimable, Ownership, HeldIsOpen
<1>3. /\ targets[e] = {}
      /\ targets' = [targets EXCEPT ![e] = Claimable]
      /\ UNCHANGED <<registered, catchingUp, current, hand, phase, catchHand>>
  BY DEF Emit, subscribeVars
<1>4. \A s \in Subs : delivering'[s] <=> delivering[s] \/ s \in Claimable
  BY DEF Emit
<1>5. \A f \in Emitters : targets'[f] = IF f = e THEN Claimable ELSE targets[f]
  BY <1>3 DEF TypeOK
<1>6. UniqueHolder'
  BY <1>2, <1>5 DEF Ownership, UniqueHolder
<1>7. HeldIsOpen'
  BY <1>1, <1>3, <1>4, <1>5 DEF Ownership, HeldIsOpen
<1>8. ClaimedIsHeld'
  <2> SUFFICES ASSUME NEW s \in Subs, delivering'[s]
      PROVE  \E f \in Emitters : s \in targets'[f]
    BY DEF ClaimedIsHeld
  <2>1. CASE s \in Claimable
    BY <1>5, <2>1
  <2>2. CASE s \notin Claimable
    <3>1. PICK f \in Emitters : s \in targets[f]
      BY <1>4, <2>2 DEF Ownership, ClaimedIsHeld
    <3> QED
      BY <1>3, <1>5, <3>1
  <2> QED
    BY <2>1, <2>2
<1>9. CallIsHeld'
  BY <1>3, <1>5 DEF Ownership, CallIsHeld
<1>10. RegisteredPhase' /\ CatchHandPhase'
  BY <1>3 DEF Ownership, RegisteredPhase, CatchHandPhase
<1>11. PendingIsOwned'
  <2> SUFFICES ASSUME NEW s \in registered', phase'[s] \notin {"replay", "flush"}
      PROVE  \E f \in Emitters : s \in targets'[f]
    BY DEF PendingIsOwned
  <2>1. s \in Subs /\ s \in registered /\ ~catchingUp[s]
    BY <1>3 DEF TypeOK, Ownership, RegisteredPhase
  <2>2. delivering'[s]
    BY <1>4, <2>1 DEF Claimable
  <2> QED
    BY <1>8, <2>1, <2>2 DEF ClaimedIsHeld
<1> QED
  BY <1>6, <1>7, <1>8, <1>9, <1>10, <1>11 DEF Ownership

(* Calling a listener changes no claim.                                    *)
LEMMA OwnershipDrainCall ==
  ASSUME TypeOK, Ownership, NEW e \in Emitters, DrainCall(e)
  PROVE  Ownership'
<1>1. UNCHANGED <<targets, delivering, phase, current, registered, catchingUp,
                  catchHand, pending>>
  BY DEF DrainCall, subscribeVars
<1>2. \A f \in Emitters : hand'[f] # 0 => hand[f] # 0
  BY DEF DrainCall, TypeOK
<1> QED
  BY <1>1, <1>2 DEF Ownership, UniqueHolder, HeldIsOpen, ClaimedIsHeld,
     CallIsHeld, RegisteredPhase, CatchHandPhase, PendingIsOwned

(* The drainer goes on holding what it pops from.                          *)
LEMMA OwnershipDrainPop ==
  ASSUME TypeOK, Ownership, NEW e \in Emitters, NEW s \in Subs, DrainPop(e, s)
  PROVE  Ownership'
<1>1. UNCHANGED <<targets, delivering, phase, registered, catchingUp, catchHand>>
  BY DEF DrainPop, subscribeVars
<1>2. s \in targets[e] /\ s # NoSub
  BY ConstantsAssumption DEF DrainPop, Draining
<1>3. CallIsHeld'
  BY <1>1, <1>2 DEF DrainPop, Ownership, CallIsHeld, TypeOK
<1>4. \A r \in Subs : r # s => pending'[r] = pending[r]
  BY DEF DrainPop, TypeOK
<1>5. PendingIsOwned'
  BY <1>1, <1>2, <1>4 DEF Ownership, PendingIsOwned, TypeOK
<1> QED
  BY <1>1, <1>3, <1>5 DEF Ownership, UniqueHolder, HeldIsOpen, ClaimedIsHeld,
     RegisteredPhase, CatchHandPhase

(* The drainer hands back an empty queue, in one section.                  *)
LEMMA OwnershipDrainStop ==
  ASSUME TypeOK, Ownership, NEW e \in Emitters, NEW s \in Subs, DrainStop(e, s)
  PROVE  Ownership'
<1>1. UNCHANGED <<pending, phase, registered, catchingUp, catchHand, hand>>
  BY DEF DrainStop, subscribeVars
<1>2. s \in targets[e] /\ hand[e] = 0 /\ s # NoSub
  BY ConstantsAssumption DEF DrainStop, Draining
<1>3. \A f \in Emitters : targets'[f] = IF f = e THEN targets[e] \ {s} ELSE targets[f]
  BY DEF DrainStop, TypeOK
<1>4. \A r \in Subs : delivering'[r] = IF r = s THEN FALSE ELSE delivering[r]
  BY DEF DrainStop, TypeOK
<1>5. \A f \in Emitters : f # e => s \notin targets[f]
  BY <1>2 DEF Ownership, UniqueHolder
<1>6. UniqueHolder'
  BY <1>3 DEF Ownership, UniqueHolder
<1>7. HeldIsOpen'
  BY <1>1, <1>3, <1>4, <1>5 DEF Ownership, HeldIsOpen
<1>8. ClaimedIsHeld'
  BY <1>3, <1>4 DEF Ownership, ClaimedIsHeld
<1>9. CallIsHeld'
  <2>1. \A f \in Emitters : current'[f] = IF f = e THEN NoSub ELSE current[f]
    BY DEF DrainStop, TypeOK
  <2> QED
    BY <1>1, <1>2, <1>3, <2>1 DEF Ownership, CallIsHeld
<1>10. PendingIsOwned'
  <2> SUFFICES ASSUME NEW r \in registered, pending[r] # <<>>,
                      phase[r] \notin {"replay", "flush"}
      PROVE  \E f \in Emitters : r \in targets'[f]
    BY <1>1 DEF PendingIsOwned
  <2>1. r # s
    BY DEF DrainStop, Deliverable, Ownership, RegisteredPhase
  <2>2. PICK f \in Emitters : r \in targets[f]
    BY DEF Ownership, PendingIsOwned
  <2> QED
    BY <1>3, <2>1, <2>2
<1> QED
  BY <1>1, <1>6, <1>7, <1>8, <1>9, <1>10
     DEF Ownership, RegisteredPhase, CatchHandPhase

(* The three steps of a draining thread together.                          *)
LEMMA OwnershipEmitterStep ==
  ASSUME TypeOK, Ownership, NEW e \in Emitters, EmitterStep(e)
  PROVE  Ownership'
  BY OwnershipDrainCall, OwnershipDrainPop, OwnershipDrainStop DEF EmitterStep

(* A new subscription is held by the thread that registers it.             *)
LEMMA OwnershipRegister ==
  ASSUME TypeOK, Ownership, NEW s \in Subs, NEW since \in Nat, Register(s, since)
  PROVE  Ownership'
<1>1. UNCHANGED <<delivering, pending, targets, current, hand, catchHand>>
  BY DEF Register, emitterVars
<1>2. /\ phase[s] = "new" /\ registered' = registered \union {s}
      /\ catchingUp'[s] /\ phase'[s] = "replay"
      /\ \A r \in Subs : r # s => catchingUp'[r] = catchingUp[r] /\ phase'[r] = phase[r]
  BY DEF Register, TypeOK
<1>3. UniqueHolder' /\ ClaimedIsHeld' /\ CallIsHeld'
  BY <1>1 DEF Ownership, UniqueHolder, ClaimedIsHeld, CallIsHeld
<1>4. HeldIsOpen'
  BY <1>1, <1>2 DEF Ownership, HeldIsOpen
<1>5. RegisteredPhase'
  BY <1>2 DEF Ownership, RegisteredPhase, TypeOK
<1>6. CatchHandPhase'
  BY <1>1, <1>2 DEF Ownership, CatchHandPhase
<1>7. PendingIsOwned'
  BY <1>1, <1>2 DEF Ownership, PendingIsOwned, TypeOK
<1> QED
  BY <1>3, <1>4, <1>5, <1>6, <1>7 DEF Ownership

(* Erasing a subscription removes no claim of another.                     *)
LEMMA OwnershipErase ==
  ASSUME TypeOK, Ownership, NEW s, Erase(s)
  PROVE  Ownership'
  BY DEF Erase, Ownership, UniqueHolder, HeldIsOpen, ClaimedIsHeld, CallIsHeld,
         RegisteredPhase, CatchHandPhase, PendingIsOwned, emitterVars, subscribeVars

(* The steps of a subscribing thread between registration and hand-over. *)
LEMMA OwnershipSubscriberStep ==
  ASSUME TypeOK, Ownership, NEW s \in Subs, SubscriberStep(s)
  PROVE  Ownership'
<1>1. CASE Open(s)
  <2>1. UNCHANGED <<registered, delivering, pending, targets, current, hand,
                    catchHand>>
    BY <1>1 DEF Open, emitterVars
  <2>2. /\ phase[s] = "flush" /\ catchHand[s] = 0 /\ phase'[s] = "open"
        /\ s \in registered => pending[s] = <<>> /\ ~catchingUp'[s]
        /\ \A r \in Subs : r # s => catchingUp'[r] = catchingUp[r] /\ phase'[r] = phase[r]
    BY <1>1 DEF Open, TypeOK
  <2>3. UniqueHolder' /\ ClaimedIsHeld' /\ CallIsHeld'
    BY <2>1 DEF Ownership, UniqueHolder, ClaimedIsHeld, CallIsHeld
  <2>4. HeldIsOpen'
    BY <2>1, <2>2 DEF Ownership, HeldIsOpen
  <2>5. RegisteredPhase'
    BY <2>1, <2>2 DEF Ownership, RegisteredPhase, TypeOK
  <2>6. CatchHandPhase'
    BY <2>1, <2>2 DEF Ownership, CatchHandPhase
  <2>7. PendingIsOwned'
    BY <2>1, <2>2 DEF Ownership, PendingIsOwned, TypeOK
  <2> QED
    BY <2>3, <2>4, <2>5, <2>6, <2>7 DEF Ownership
<1>2. CASE ReplayNext(s) \/ ReplayEnd(s) \/ FlushPop(s) \/ CatchUpCall(s)
  <2>1. UNCHANGED <<registered, catchingUp, delivering, targets, current, hand>>
    BY <1>2 DEF ReplayNext, ReplayEnd, FlushPop, CatchUpCall, emitterVars
  <2>2. /\ \A r \in Subs : r # s => /\ phase'[r] = phase[r]
                                   /\ catchHand'[r] = catchHand[r]
                                   /\ pending'[r] = pending[r]
        /\ catchHand'[s] # 0 => phase'[s] \in {"replay", "flush"}
    BY <1>2 DEF ReplayNext, ReplayEnd, FlushPop, CatchUpCall, TypeOK, Ownership,
                CatchHandPhase
  <2>3. /\ phase[s] \in {"replay", "flush"} /\ phase'[s] \in {"replay", "flush"}
    BY <1>2 DEF ReplayNext, ReplayEnd, FlushPop, CatchUpCall, TypeOK, Ownership,
                CatchHandPhase
  <2>4. UniqueHolder' /\ ClaimedIsHeld' /\ CallIsHeld'
    BY <2>1 DEF Ownership, UniqueHolder, ClaimedIsHeld, CallIsHeld
  <2>5. HeldIsOpen'
    BY <2>1, <2>2, <2>3 DEF Ownership, HeldIsOpen
  <2>6. RegisteredPhase'
    BY <2>1, <2>2, <2>3 DEF Ownership, RegisteredPhase, TypeOK
  <2>7. CatchHandPhase'
    BY <2>2 DEF Ownership, CatchHandPhase
  <2>8. PendingIsOwned'
    BY <2>1, <2>2, <2>3 DEF Ownership, PendingIsOwned, TypeOK
  <2> QED
    BY <2>4, <2>5, <2>6, <2>7, <2>8 DEF Ownership
<1> QED
  BY <1>1, <1>2 DEF SubscriberStep

(* Ownership reads only these variables.                                   *)
LEMMA OwnershipUnchanged ==
  ASSUME Ownership, UNCHANGED <<registered, catchingUp, delivering, pending,
                                emitterVars, subscribeVars>>
  PROVE  Ownership'
  BY DEF Ownership, UniqueHolder, HeldIsOpen, ClaimedIsHeld, CallIsHeld,
         RegisteredPhase, CatchHandPhase, PendingIsOwned, emitterVars, subscribeVars

(* set_observer() registers and erases like a client.                      *)
LEMMA OwnershipObserverStep ==
  ASSUME TypeOK, Ownership, ObserverStep
  PROVE  Ownership'
<1>1. ASSUME NEW next \in ObserverIds \union {NoSub}, ObserverTake(next)
      PROVE  Ownership'
  BY <1>1, OwnershipUnchanged DEF ObserverTake
<1>2. CASE ObserverErase
  BY <1>2, OwnershipErase, OwnershipUnchanged DEF ObserverErase
<1>3. CASE ObserverSubscribe
  <2>1. installer.next \in Subs
    BY <1>3 DEF ObserverSubscribe, TypeOK
  <2> QED
    BY <1>3, <2>1, OwnershipRegister DEF ObserverSubscribe
<1>4. CASE ObserverStore
  BY <1>4, OwnershipUnchanged DEF ObserverStore
<1> QED
  BY <1>1, <1>2, <1>3, <1>4 DEF ObserverStep

(* Ownership is preserved by every step.                                   *)
LEMMA OwnershipStep == TypeOK /\ Ownership /\ [Next]_vars => Ownership'
<1> SUFFICES ASSUME TypeOK, Ownership, [Next]_vars PROVE Ownership'
  OBVIOUS
<1>1. ASSUME NEW s \in Subs, Subscribe(s) PROVE Ownership'
  <2>1. PICK since \in Nat : Register(s, since)
    BY <1>1 DEF Subscribe, TypeOK
  <2> QED
    BY <2>1, OwnershipRegister
<1>2. ASSUME NEW s \in Subs, Unsubscribe(s) PROVE Ownership'
  BY <1>2, OwnershipErase DEF Unsubscribe
<1>3. CASE UNCHANGED vars
  BY <1>3, OwnershipUnchanged DEF vars
<1> QED
  BY <1>1, <1>2, <1>3, OwnershipEmit, OwnershipEmitterStep,
     OwnershipSubscriberStep, OwnershipObserverStep DEF Next

(* One holder means one caller.                                            *)
LEMMA OwnershipImpliesOneCaller == TypeOK /\ Ownership => OneCaller
<1> SUFFICES ASSUME TypeOK, Ownership, NEW s \in Subs,
                    NEW t \in CallersOf(s), NEW u \in CallersOf(s)
    PROVE  t = u
  BY DEF OneCaller
<1>1. \A e \in Emitters : current[e] = s /\ hand[e] # 0 =>
        s \in targets[e] /\ phase[s] = "open"
  BY DEF Ownership, CallIsHeld, HeldIsOpen
<1>2. CASE catchHand[s] # 0
  <2>1. \A e \in Emitters : ~(current[e] = s /\ hand[e] # 0)
    BY <1>1, <1>2 DEF Ownership, CatchHandPhase
  <2> QED
    BY <2>1 DEF CallersOf
<1>3. CASE catchHand[s] = 0
  BY <1>1, <1>3 DEF CallersOf, Ownership, UniqueHolder
<1> QED
  BY <1>2, <1>3

(* No two threads are ever inside the same listener, and queued events of  *)
(* an open subscription always have a thread that will deliver them        *)
(* (event_dispatcher.hpp:17 and the claim in emit()).                      *)
THEOREM OwnershipCorrect == Spec => [](OneCaller /\ PendingIsOwned)
<1>1. Init => TypeOK /\ Ownership
  BY TypeOKInit, OwnershipInit
<1>2. TypeOK /\ Ownership /\ [Next]_vars => (TypeOK /\ Ownership)'
  BY TypeOKStep, OwnershipStep
<1>3. TypeOK /\ Ownership => OneCaller /\ PendingIsOwned
  BY OwnershipImpliesOneCaller DEF Ownership
<1> QED
  BY <1>1, <1>2, <1>3, PTL DEF Spec
-----------------------------------------------------------------------------
(* The order of events.  Everything on its way to a listener is a chain:    *)
(* what it received < the event in a running call < the history still to be *)
(* replayed < its queue, all at most seq.                                   *)

Sorted(q) == \A i, j \in 1..Len(q) : i < j => q[i] < q[j]
Within(q, lo, hi) == \A i \in 1..Len(q) : lo < q[i] /\ q[i] <= hi
Before(q, r) == \A i \in 1..Len(q), j \in 1..Len(r) : q[i] < r[j]

BufferOrder == Sorted(buffer) /\ Within(buffer, 0, seq) /\ Len(buffer) <= Capacity

(* d: received, r: to replay, p: queued, ph: phase, top: the last seq. *)
Chain(d, r, p, ph, top) ==
  /\ Sorted(d) /\ Within(d, 0, top)
  /\ Sorted(r) /\ Within(r, 0, top)
  /\ Sorted(p) /\ Within(p, 0, top)
  /\ Before(d, r) /\ Before(d, p) /\ Before(r, p)
  /\ ph = "new" => d = <<>> /\ p = <<>>
  /\ ph # "replay" => r = <<>>

(* n: the event in a running call. *)
InFlight(d, r, p, n, top) ==
  /\ 0 < n /\ n <= top
  /\ Within(d, 0, n - 1) /\ Within(r, n, top) /\ Within(p, n, top)

ChainOrder ==
  \A s \in Subs : Chain(delivered[s], replay[s], pending[s], phase[s], seq)

InFlightOf(s, n) == InFlight(delivered[s], replay[s], pending[s], n, seq)

CatchHandOrder == \A s \in Subs : catchHand[s] # 0 => InFlightOf(s, catchHand[s])

HandOrder ==
  \A e \in Emitters, s \in Subs :
    hand[e] # 0 /\ current[e] = s => InFlightOf(s, hand[e])

Order == BufferOrder /\ ChainOrder /\ CatchHandOrder /\ HandOrder

(* A greater number at its end leaves a sequence sorted.                   *)
LEMMA AppendSorted ==
  ASSUME NEW q \in Seq(Nat), NEW n \in Nat, NEW m \in Nat, Sorted(q),
         Within(q, 0, m), m < n
  PROVE  /\ Append(q, n) \in Seq(Nat)
         /\ Sorted(Append(q, n))
         /\ Within(Append(q, n), 0, n)
<1>1. /\ Len(Append(q, n)) = Len(q) + 1 /\ Append(q, n) \in Seq(Nat)
      /\ \A i \in 1..Len(q) : Append(q, n)[i] = q[i]
      /\ Append(q, n)[Len(q) + 1] = n
  BY AppendProperties
<1>2. \A i \in 1..Len(q) : q[i] \in Nat
  OBVIOUS
<1> QED
  BY <1>1, <1>2 DEF Sorted, Within

(* Taking the head of a sorted sequence leaves the rest above it.          *)
LEMMA TailSorted ==
  ASSUME NEW q \in Seq(Nat), q # <<>>, Sorted(q), NEW m \in Nat, NEW l \in Nat,
         Within(q, l, m)
  PROVE  /\ Head(q) \in Nat /\ Tail(q) \in Seq(Nat)
         /\ l < Head(q) /\ Head(q) <= m
         /\ Sorted(Tail(q))
         /\ Within(Tail(q), Head(q), m)
         /\ Within(Tail(q), l, m)
         /\ \A i \in 1..Len(Tail(q)) : \E j \in 1..Len(q) : Tail(q)[i] = q[j]
         /\ \E j \in 1..Len(q) : Head(q) = q[j]
<1>1. /\ Head(q) = q[1] /\ 1 \in 1..Len(q)
      /\ Tail(q) \in Seq(Nat) /\ Len(Tail(q)) = Len(q) - 1
      /\ \A i \in 1..Len(Tail(q)) : Tail(q)[i] = q[i + 1]
  BY HeadTailProperties
<1>2. \A i \in 1..Len(q) : q[i] \in Nat
  OBVIOUS
<1>3. \A i \in 1..Len(Tail(q)) : i + 1 \in 1..Len(q)
  BY <1>1
<1> QED
  BY <1>1, <1>2, <1>3 DEF Sorted, Within

(* The superseded event leaves the order of the others alone.              *)
LEMMA CoalesceSorted ==
  ASSUME TypeOK, BufferOrder, NEW key \in Keys \union {NoKey}
  PROVE  /\ Coalesce(key) \in Seq(Nat) /\ Sorted(Coalesce(key))
         /\ Within(Coalesce(key), 0, seq)
         /\ Len(Coalesce(key)) <= Len(buffer)
<1> DEFINE kept == Coalesce(key)
<1>1. /\ buffer \in Seq(Nat) /\ seq \in Nat /\ Len(buffer) \in Nat
      /\ Capacity \in Nat \ {0}
      /\ \A i \in 1..Len(buffer) : buffer[i] \in Nat
  <2>1. buffer \in Seq(Nat) /\ log \in Seq(Options)
    BY DEF TypeOK
  <2> QED
    BY <2>1, ConstantsAssumption
<1>2. /\ kept \in Seq(Nat) /\ Sorted(kept) /\ Within(kept, 0, seq)
      /\ Len(kept) <= Len(buffer)
  <2>1. CASE Superseded(key) = {}
    BY <1>1, <2>1 DEF Coalesce, BufferOrder
  <2>2. CASE Superseded(key) # {}
    <3>1. PICK i \in 1..Len(buffer) : kept = RemoveAt(buffer, i)
      <4>1. Superseded(key) \subseteq 1..Len(buffer)
        BY <1>1 DEF Superseded
      <4>2. (CHOOSE i \in Superseded(key) : TRUE) \in 1..Len(buffer)
        BY <2>2, <4>1
      <4> QED
        BY <2>2, <4>2 DEF Coalesce
    <3> HIDE DEF kept
    <3>2. /\ kept \in Seq(Nat) /\ Len(kept) = Len(buffer) - 1
          /\ \A j \in 1..Len(buffer) - 1 :
               kept[j] = IF j < i THEN buffer[j] ELSE buffer[j + 1]
      BY <1>1, <3>1, RemoveAtType
    <3>3. \A j \in 1..Len(kept) : \E k \in {j, j + 1} :
            k \in 1..Len(buffer) /\ kept[j] = buffer[k] /\ (k = j + 1 <=> ~(j < i))
      <4>1. Len(buffer) \in Nat /\ 1..Len(kept) = 1..Len(buffer) - 1 /\ i \in Int
        BY <1>1, <3>2
      <4> TAKE j \in 1..Len(kept)
      <4>2. j \in Int /\ j \in 1..Len(buffer) /\ j + 1 \in 1..Len(buffer) /\ j # j + 1
        BY <4>1
      <4>3. kept[j] = IF j < i THEN buffer[j] ELSE buffer[j + 1]
        BY <3>2, <4>1
      <4>4. CASE j < i
        BY <4>2, <4>3, <4>4
      <4>5. CASE ~(j < i)
        BY <4>2, <4>3, <4>5
      <4> QED
        BY <4>4, <4>5
    <3>4. Within(kept, 0, seq)
      BY <3>3 DEF BufferOrder, Within
    <3>5. Sorted(kept)
      <4> SUFFICES ASSUME NEW j \in 1..Len(kept), NEW k \in 1..Len(kept), j < k
          PROVE  kept[j] < kept[k]
        BY DEF Sorted
      <4>1. PICK a \in 1..Len(buffer) :
              a \in {j, j + 1} /\ kept[j] = buffer[a] /\ (a = j + 1 <=> ~(j < i))
        BY <3>3
      <4>2. PICK b \in 1..Len(buffer) :
              b \in {k, k + 1} /\ kept[k] = buffer[b] /\ (b = k + 1 <=> ~(k < i))
        BY <3>3
      <4>3. j \in Int /\ k \in Int /\ i \in Int /\ a \in Int /\ b \in Int
        BY <1>1, <3>2
      <4>4. a < b
        <5>1. CASE j < i
          BY <4>1, <4>2, <4>3, <5>1
        <5>2. CASE ~(j < i)
          <6>1. ~(k < i)
            BY <4>3, <5>2
          <6> QED
            BY <4>1, <4>2, <4>3, <5>2, <6>1
        <5> QED
          BY <5>1, <5>2
      <4> QED
        BY <4>1, <4>2, <4>4 DEF BufferOrder, Sorted
    <3> QED
      BY <1>1, <3>2, <3>4, <3>5
  <2> QED
    BY <2>1, <2>2
<1> QED
  BY <1>2

(* push_to_buffer keeps buffer_ ordered and within its capacity. *)
LEMMA PushKeepsOrder ==
  ASSUME TypeOK, BufferOrder, NEW key \in Keys \union {NoKey},
         PushToBuffer(seq + 1, key)
  PROVE  /\ Sorted(buffer') /\ Within(buffer', 0, seq + 1)
         /\ Len(buffer') <= Capacity
<1> DEFINE kept == Coalesce(key)
           grown == Append(kept, seq + 1)
<1>1. /\ buffer \in Seq(Nat) /\ seq \in Nat /\ Len(buffer) \in Nat
      /\ Capacity \in Nat \ {0}
      /\ \A i \in 1..Len(buffer) : buffer[i] \in Nat
  <2>1. buffer \in Seq(Nat) /\ log \in Seq(Options)
    BY DEF TypeOK
  <2> QED
    BY <2>1, ConstantsAssumption
<1>2. /\ kept \in Seq(Nat) /\ Sorted(kept) /\ Within(kept, 0, seq)
      /\ Len(kept) <= Len(buffer)
  BY CoalesceSorted
<1>3. /\ grown \in Seq(Nat) /\ grown # <<>> /\ Sorted(grown)
      /\ Within(grown, 0, seq + 1) /\ Len(grown) <= Len(buffer) + 1
  <2> HIDE DEF kept
  <2>1. seq + 1 \in Nat /\ seq < seq + 1 /\ Len(kept) \in Nat
    BY <1>1, <1>2
  <2>2. grown \in Seq(Nat) /\ grown # <<>> /\ Len(grown) = Len(kept) + 1
    <3>1. kept \in Seq(Nat) /\ seq + 1 \in Nat
      BY <1>2, <2>1
    <3> QED
      BY <3>1, AppendProperties
  <2>3. Sorted(grown) /\ Within(grown, 0, seq + 1)
    BY <1>1, <1>2, <2>1, AppendSorted
  <2> QED
    BY <1>1, <1>2, <2>1, <2>2, <2>3
<1>4. /\ Sorted(Tail(grown)) /\ Within(Tail(grown), 0, seq + 1)
      /\ Len(Tail(grown)) = Len(grown) - 1
  <2> HIDE DEF grown
  <2> QED
    BY <1>1, <1>3, TailSorted, HeadTailProperties
<1>5. buffer' = IF Len(grown) <= Capacity THEN grown ELSE Tail(grown)
  BY DEF PushToBuffer
<1>6. Len(buffer) <= Capacity
  BY DEF BufferOrder
<1> HIDE DEF grown
<1>7. Len(grown) \in Nat
  BY <1>3
<1> QED
  BY <1>1, <1>3, <1>4, <1>5, <1>6, <1>7

(* How each step moves the chain of one subscription. *)
LEMMA ChainCall ==
  ASSUME NEW d \in Seq(Nat), NEW r \in Seq(Nat), NEW p \in Seq(Nat), NEW ph,
         NEW n \in Nat, NEW top \in Nat, ph # "new",
         Chain(d, r, p, ph, top), InFlight(d, r, p, n, top)
  PROVE  Chain(Append(d, n), r, p, ph, top)
<1>1. /\ Append(d, n) \in Seq(Nat) /\ Sorted(Append(d, n))
      /\ Within(Append(d, n), 0, n)
  <2>1. n - 1 \in Nat /\ n - 1 < n
    BY DEF InFlight
  <2> QED
    BY <2>1, AppendSorted DEF Chain, InFlight
<1>2. \A i \in 1..Len(Append(d, n)) :
        Append(d, n)[i] \in Nat /\ Append(d, n)[i] <= n
  BY <1>1 DEF Within
<1>3. n <= top
  BY DEF InFlight
<1>4. Within(Append(d, n), 0, top)
  BY <1>1, <1>2, <1>3 DEF Within
<1>5. ASSUME NEW q \in Seq(Nat), Within(q, n, top)
      PROVE  Before(Append(d, n), q)
  <2>1. \A i \in 1..Len(q) : q[i] \in Nat /\ n < q[i]
    BY <1>5 DEF Within
  <2> QED
    BY <1>2, <2>1 DEF Before
<1> QED
  BY <1>1, <1>4, <1>5 DEF Chain, InFlight

(* Handing the first queued event over lengthens what is delivered.        *)
LEMMA ChainPop ==
  ASSUME NEW d \in Seq(Nat), NEW p \in Seq(Nat), NEW ph, NEW top \in Nat,
         ph \notin {"new", "replay"}, p # <<>>, Chain(d, <<>>, p, ph, top)
  PROVE  /\ Chain(d, <<>>, Tail(p), ph, top)
         /\ InFlight(d, <<>>, Tail(p), Head(p), top)
<1>1. /\ Head(p) \in Nat /\ Tail(p) \in Seq(Nat)
      /\ 0 < Head(p) /\ Head(p) <= top
      /\ Sorted(Tail(p)) /\ Within(Tail(p), Head(p), top) /\ Within(Tail(p), 0, top)
      /\ \A i \in 1..Len(Tail(p)) : \E j \in 1..Len(p) : Tail(p)[i] = p[j]
      /\ \E j \in 1..Len(p) : Head(p) = p[j]
  BY TailSorted DEF Chain
<1>2. \A i \in 1..Len(d) : d[i] \in Nat
  OBVIOUS
<1>3. Before(d, Tail(p)) /\ Within(d, 0, Head(p) - 1)
  <2>1. Before(d, p) /\ Within(d, 0, top)
    BY DEF Chain
  <2>2. Before(d, Tail(p))
    BY <1>1, <2>1 DEF Before
  <2>3. \A i \in 1..Len(d) : d[i] < Head(p)
    BY <1>1, <2>1 DEF Before
  <2>4. Within(d, 0, Head(p) - 1)
    BY <1>1, <1>2, <2>1, <2>3 DEF Within
  <2> QED
    BY <2>2, <2>4
<1>4. /\ Before(<<>>, Tail(p)) /\ Before(d, <<>>) /\ Sorted(<<>>)
      /\ Within(<<>>, 0, top) /\ Within(<<>>, Head(p), top)
  BY DEF Before, Sorted, Within
<1> QED
  BY <1>1, <1>3, <1>4 DEF Chain, InFlight

(* So does handing over the first event of the replay.                     *)
LEMMA ChainReplay ==
  ASSUME NEW d \in Seq(Nat), NEW r \in Seq(Nat), NEW p \in Seq(Nat),
         NEW top \in Nat, r # <<>>, Chain(d, r, p, "replay", top)
  PROVE  /\ Chain(d, Tail(r), p, "replay", top)
         /\ InFlight(d, Tail(r), p, Head(r), top)
<1>1. /\ Head(r) \in Nat /\ Tail(r) \in Seq(Nat)
      /\ 0 < Head(r) /\ Head(r) <= top
      /\ Sorted(Tail(r)) /\ Within(Tail(r), Head(r), top) /\ Within(Tail(r), 0, top)
      /\ \A i \in 1..Len(Tail(r)) : \E j \in 1..Len(r) : Tail(r)[i] = r[j]
      /\ \E j \in 1..Len(r) : Head(r) = r[j]
  BY TailSorted DEF Chain
<1>2. /\ \A i \in 1..Len(d) : d[i] \in Nat
      /\ \A i \in 1..Len(p) : p[i] \in Nat
  OBVIOUS
<1>3. Before(d, Tail(r)) /\ Within(d, 0, Head(r) - 1)
  <2>1. Before(d, r) /\ Within(d, 0, top)
    BY DEF Chain
  <2>2. Before(d, Tail(r))
    BY <1>1, <2>1 DEF Before
  <2>3. \A i \in 1..Len(d) : d[i] < Head(r)
    BY <1>1, <2>1 DEF Before
  <2>4. Within(d, 0, Head(r) - 1)
    BY <1>1, <1>2, <2>1, <2>3 DEF Within
  <2> QED
    BY <2>2, <2>4
<1>4. Before(Tail(r), p) /\ Within(p, Head(r), top)
  <2>1. Before(r, p) /\ Within(p, 0, top)
    BY DEF Chain
  <2>2. Before(Tail(r), p)
    BY <1>1, <2>1 DEF Before
  <2>3. Within(p, Head(r), top)
    BY <1>1, <2>1 DEF Before, Within
  <2> QED
    BY <2>2, <2>3
<1> QED
  BY <1>1, <1>3, <1>4 DEF Chain, InFlight

(* A bound may grow.                                                       *)
LEMMA WithinGrows ==
  ASSUME NEW q \in Seq(Nat), NEW l \in Nat, NEW m \in Nat, Within(q, l, m)
  PROVE  Within(q, l, m + 1)
<1>1. \A i \in 1..Len(q) : q[i] \in Nat
  OBVIOUS
<1> QED
  BY <1>1 DEF Within

(* A new event number is above everything on its way.                      *)
LEMMA ChainEmit ==
  ASSUME NEW d \in Seq(Nat), NEW r \in Seq(Nat), NEW p \in Seq(Nat), NEW ph,
         NEW top \in Nat, Chain(d, r, p, ph, top)
  PROVE  /\ Chain(d, r, p, ph, top + 1)
         /\ ph # "new" => Chain(d, r, Append(p, top + 1), ph, top + 1)
<1>1. Chain(d, r, p, ph, top + 1)
  BY WithinGrows DEF Chain
<1>2. /\ Append(p, top + 1) \in Seq(Nat) /\ Sorted(Append(p, top + 1))
      /\ Within(Append(p, top + 1), 0, top + 1)
  BY AppendSorted DEF Chain
<1>3. /\ Len(Append(p, top + 1)) = Len(p) + 1 /\ Len(p) \in Nat
      /\ \A i \in 1..Len(p) : Append(p, top + 1)[i] = p[i]
      /\ Append(p, top + 1)[Len(p) + 1] = top + 1
  BY AppendProperties
<1>4. ASSUME NEW q \in Seq(Nat), Within(q, 0, top), Before(q, p)
      PROVE  Before(q, Append(p, top + 1))
  <2>1. \A i \in 1..Len(q) : q[i] \in Nat /\ q[i] < top + 1
    BY <1>4 DEF Within
  <2> QED
    BY <1>3, <1>4, <2>1 DEF Before
<1> QED
  BY <1>1, <1>2, <1>4 DEF Chain

(* Also above the one event being handed over.                             *)
LEMMA InFlightEmit ==
  ASSUME NEW d \in Seq(Nat), NEW r \in Seq(Nat), NEW p \in Seq(Nat),
         NEW n \in Nat, NEW top \in Nat, InFlight(d, r, p, n, top)
  PROVE  /\ InFlight(d, r, p, n, top + 1)
         /\ InFlight(d, r, Append(p, top + 1), n, top + 1)
<1>1. InFlight(d, r, p, n, top + 1)
  BY WithinGrows DEF InFlight
<1>2. /\ Len(Append(p, top + 1)) = Len(p) + 1 /\ Len(p) \in Nat
      /\ \A i \in 1..Len(p) : Append(p, top + 1)[i] = p[i]
      /\ Append(p, top + 1)[Len(p) + 1] = top + 1
  BY AppendProperties
<1>3. Within(Append(p, top + 1), n, top + 1)
  BY <1>1, <1>2 DEF InFlight, Within
<1> QED
  BY <1>1, <1>3 DEF InFlight

(* Everything is empty at first.                                           *)
LEMMA OrderInit == Init => Order
<1> SUFFICES ASSUME Init PROVE Order
  OBVIOUS
<1>1. Sorted(<<>>) /\ Before(<<>>, <<>>) /\ Within(<<>>, 0, 0)
  BY DEF Sorted, Before, Within
<1>2. BufferOrder
  BY <1>1, ConstantsAssumption DEF Init, BufferOrder
<1>3. ChainOrder
  BY <1>1 DEF Init, ChainOrder, Chain
<1> QED
  BY <1>2, <1>3 DEF Init, Order, CatchHandOrder, HandOrder

(* emit() queues a number above all earlier ones.                          *)
LEMMA OrderEmit ==
  ASSUME TypeOK, Ownership, Order, NEW e \in Emitters, Emit(e)
  PROVE  Order'
<1>1. /\ seq \in Nat /\ seq' = seq + 1
      /\ UNCHANGED <<registered, current, hand, phase, replay, catchHand, delivered>>
  BY DEF Emit, TypeOK, subscribeVars
<1>2. \A s \in Subs : pending'[s] = IF s \in registered
                                  THEN Append(pending[s], seq + 1) ELSE pending[s]
  BY DEF Emit
<1>3. \A s \in Subs : /\ delivered[s] \in Seq(Nat) /\ replay[s] \in Seq(Nat)
                     /\ pending[s] \in Seq(Nat) /\ catchHand[s] \in Nat
  BY DEF TypeOK
<1>4. BufferOrder'
  <2>1. PICK opt \in Options :
          IF opt.buffered THEN PushToBuffer(seq + 1, opt.key) ELSE UNCHANGED buffer
    BY DEF Emit
  <2>2. CASE opt.buffered
    <3>1. opt.key \in Keys \union {NoKey}
      BY DEF Options
    <3> QED
      BY <1>1, <2>1, <2>2, <3>1, PushKeepsOrder DEF Order, BufferOrder
  <2>3. CASE ~opt.buffered
    BY <1>1, <2>1, <2>3, WithinGrows DEF Order, BufferOrder, TypeOK
  <2> QED
    BY <2>2, <2>3
<1>5. ChainOrder'
  <2> SUFFICES ASSUME NEW s \in Subs
      PROVE  Chain(delivered[s], replay[s], pending'[s], phase[s], seq + 1)
    BY <1>1 DEF ChainOrder
  <2>1. Chain(delivered[s], replay[s], pending[s], phase[s], seq)
    BY DEF Order, ChainOrder
  <2>2. s \in registered => phase[s] # "new"
    BY DEF Ownership, RegisteredPhase
  <2> QED
    BY <1>1, <1>2, <1>3, <2>1, <2>2, ChainEmit
<1>6. ASSUME NEW s \in Subs, NEW n \in Nat, InFlightOf(s, n)
      PROVE  InFlight(delivered[s], replay[s], pending'[s], n, seq + 1)
  BY <1>1, <1>2, <1>3, <1>6, InFlightEmit DEF InFlightOf
<1>7. CatchHandOrder'
  BY <1>1, <1>3, <1>6 DEF Order, CatchHandOrder, InFlightOf
<1>8. HandOrder'
  <2> SUFFICES ASSUME NEW f \in Emitters, NEW s \in Subs, hand[f] # 0, current[f] = s
      PROVE  InFlight(delivered[s], replay[s], pending'[s], hand[f], seq + 1)
    BY <1>1 DEF HandOrder, InFlightOf
  <2>1. hand[f] \in Nat
    BY DEF TypeOK
  <2>2. InFlightOf(s, hand[f])
    BY DEF Order, HandOrder
  <2> QED
    BY <1>6, <2>1, <2>2
<1> QED
  BY <1>4, <1>5, <1>7, <1>8 DEF Order

(* A step that only moves the chain of s, and leaves at most one running    *)
(* call for it, keeps the order of every other subscription.                *)
LEMMA OrderOfOthers ==
  ASSUME TypeOK, Order, NEW s \in Subs, UNCHANGED <<log, buffer>>,
         \A r \in Subs \ {s} :
           /\ delivered'[r] = delivered[r] /\ replay'[r] = replay[r]
           /\ pending'[r] = pending[r] /\ phase'[r] = phase[r]
           /\ catchHand'[r] = catchHand[r]
           /\ \A f \in Emitters : current'[f] = r /\ hand'[f] # 0 =>
                current[f] = r /\ hand[f] = hand'[f],
         Chain(delivered'[s], replay'[s], pending'[s], phase'[s], seq),
         catchHand'[s] # 0 =>
           InFlight(delivered'[s], replay'[s], pending'[s], catchHand'[s], seq),
         \A f \in Emitters : current'[f] = s /\ hand'[f] # 0 =>
           InFlight(delivered'[s], replay'[s], pending'[s], hand'[f], seq)
  PROVE  Order'
<1>1. BufferOrder'
  BY DEF Order, BufferOrder
<1>2. ChainOrder'
  BY DEF Order, ChainOrder
<1>3. CatchHandOrder'
  BY DEF Order, CatchHandOrder, InFlightOf
<1>4. HandOrder'
  BY DEF Order, HandOrder, InFlightOf
<1> QED
  BY <1>1, <1>2, <1>3, <1>4 DEF Order

(* The thread that drains an open subscription is alone with it.           *)
LEMMA SoleCaller ==
  ASSUME TypeOK, Ownership, NEW s \in Subs, NEW e \in Emitters, s \in targets[e]
  PROVE  /\ phase[s] = "open" /\ catchHand[s] = 0
         /\ \A f \in Emitters : current[f] = s => f = e
<1>1. s # NoSub
  BY ConstantsAssumption
<1> QED
  BY <1>1 DEF Ownership, HeldIsOpen, CatchHandPhase, CallIsHeld, UniqueHolder

(* The listener receives the event popped for it.                          *)
LEMMA OrderDrainCall ==
  ASSUME TypeOK, Ownership, Order, NEW e \in Emitters, DrainCall(e)
  PROVE  Order'
<1> DEFINE s == current[e]
<1>1. s \in Subs /\ s \in targets[e]
  BY DEF DrainCall, Ownership, CallIsHeld, TypeOK
<1>2. /\ UNCHANGED <<log, buffer, pending, current, phase, replay, catchHand>>
      /\ hand[e] # 0 /\ hand[e] \in Nat
      /\ \A f \in Emitters : hand'[f] = IF f = e THEN 0 ELSE hand[f]
      /\ \A r \in Subs : delivered'[r] =
           IF r = s THEN Append(delivered[r], hand[e]) ELSE delivered[r]
  BY DEF DrainCall, TypeOK, bufferVars, subscribeVars
<1> HIDE DEF s
<1>3. current[e] = s
  BY DEF s
<1>4. /\ phase[s] = "open" /\ catchHand[s] = 0
      /\ \A f \in Emitters : current[f] = s => f = e
  BY <1>1, SoleCaller
<1>5. Chain(delivered'[s], replay'[s], pending'[s], phase'[s], seq)
  <2>1. /\ Chain(delivered[s], replay[s], pending[s], phase[s], seq)
        /\ InFlight(delivered[s], replay[s], pending[s], hand[e], seq)
    BY <1>1, <1>2, <1>3 DEF Order, ChainOrder, HandOrder, InFlightOf
  <2>2. /\ delivered[s] \in Seq(Nat) /\ replay[s] \in Seq(Nat)
        /\ pending[s] \in Seq(Nat) /\ seq \in Nat
    BY <1>1 DEF TypeOK
  <2>3. Chain(Append(delivered[s], hand[e]), replay[s], pending[s], phase[s], seq)
    BY <1>2, <1>4, <2>1, <2>2, ChainCall
  <2> QED
    BY <1>1, <1>2, <2>3
<1> QED
  BY <1>1, <1>2, <1>4, <1>5, OrderOfOthers

(* The event popped is the first of the queue.                             *)
LEMMA OrderDrainPop ==
  ASSUME TypeOK, Ownership, Order, NEW e \in Emitters, NEW s \in Subs, DrainPop(e, s)
  PROVE  Order'
<1>1. /\ UNCHANGED <<log, buffer, phase, replay, catchHand, delivered>>
      /\ s \in targets[e] /\ pending[s] # <<>>
      /\ \A f \in Emitters : /\ hand'[f] = IF f = e THEN Head(pending[s]) ELSE hand[f]
                            /\ current'[f] = IF f = e THEN s ELSE current[f]
      /\ \A r \in Subs : pending'[r] = IF r = s THEN Tail(pending[r]) ELSE pending[r]
  BY DEF DrainPop, Draining, Deliverable, TypeOK, bufferVars, subscribeVars
<1>2. /\ phase[s] = "open" /\ catchHand[s] = 0
      /\ \A f \in Emitters : current[f] = s => f = e
  BY <1>1, SoleCaller
<1>3. /\ delivered[s] \in Seq(Nat) /\ pending[s] \in Seq(Nat) /\ seq \in Nat
  BY DEF TypeOK
<1>4. replay[s] = <<>> /\ Chain(delivered[s], replay[s], pending[s], phase[s], seq)
  BY <1>2 DEF Order, ChainOrder, Chain
<1>5. /\ Chain(delivered[s], <<>>, Tail(pending[s]), phase[s], seq)
      /\ InFlight(delivered[s], <<>>, Tail(pending[s]), Head(pending[s]), seq)
  BY <1>1, <1>2, <1>3, <1>4, ChainPop
<1> QED
  BY <1>1, <1>2, <1>4, <1>5, OrderOfOthers

(* An empty queue leaves nothing on its way.                               *)
LEMMA OrderDrainStop ==
  ASSUME TypeOK, Ownership, Order, NEW e \in Emitters, NEW s \in Subs, DrainStop(e, s)
  PROVE  Order'
<1>1. /\ UNCHANGED <<log, buffer, phase, replay, catchHand, delivered, pending, hand>>
      /\ hand[e] = 0
      /\ \A f \in Emitters : current'[f] = IF f = e THEN NoSub ELSE current[f]
  BY DEF DrainStop, Draining, TypeOK, bufferVars, subscribeVars
<1> QED
  BY <1>1 DEF Order, BufferOrder, ChainOrder, CatchHandOrder, HandOrder, InFlightOf

(* A subscriber starts with the buffered events above its resume point.    *)
LEMMA OrderRegister ==
  ASSUME TypeOK, Ownership, Order, NEW s \in Subs, NEW since \in Nat,
         Register(s, since)
  PROVE  Order'
<1>1. /\ UNCHANGED <<log, buffer, delivered, pending, current, hand, catchHand>>
      /\ phase[s] = "new" /\ phase'[s] = "replay"
      /\ \A r \in Subs : r # s => replay'[r] = replay[r] /\ phase'[r] = phase[r]
  BY DEF Register, TypeOK, bufferVars, emitterVars
<1>2. /\ delivered[s] = <<>> /\ pending[s] = <<>> /\ catchHand[s] = 0
      /\ \A f \in Emitters : ~(current[f] = s /\ hand[f] # 0)
  BY <1>1 DEF Order, ChainOrder, Chain, Ownership, CatchHandPhase, HeldIsOpen, CallIsHeld
<1>3. Sorted(replay'[s]) /\ Within(replay'[s], 0, seq)
  <2>1. PICK first \in 1..Len(buffer) + 1 :
          replay'[s] = IF since = 0 THEN <<>> ELSE SubSeq(buffer, first, Len(buffer))
    BY DEF Register, TypeOK
  <2>2. CASE since = 0
    BY <2>1, <2>2 DEF Sorted, Within
  <2>3. CASE since # 0
    <3>1. buffer \in Seq(Nat) /\ Len(buffer) \in Nat
      BY DEF TypeOK
    <3>2. \A i \in first..Len(buffer) : i \in 1..Len(buffer) /\ buffer[i] \in Nat
      BY <3>1
    <3>3. /\ Len(replay'[s]) = IF first <= Len(buffer) THEN Len(buffer) - first + 1 ELSE 0
          /\ \A i \in 1..Len(buffer) - first + 1 : replay'[s][i] = buffer[first + i - 1]
      BY <2>1, <2>3, <3>1, <3>2, SubSeqProperties
    <3>4. \A i \in 1..Len(replay'[s]) :
            first + i - 1 \in 1..Len(buffer) /\ replay'[s][i] = buffer[first + i - 1]
      BY <3>1, <3>3
    <3>5. \A i, j \in 1..Len(replay'[s]) : i < j => first + i - 1 < first + j - 1
      BY <3>1, <3>3
    <3> QED
      BY <3>4, <3>5 DEF Order, BufferOrder, Sorted, Within
  <2> QED
    BY <2>2, <2>3
<1>4. Chain(delivered'[s], replay'[s], pending'[s], phase'[s], seq)
  BY <1>1, <1>2, <1>3 DEF Chain, Before, Sorted, Within
<1> QED
  BY <1>1, <1>2, <1>4, OrderOfOthers

(* It receives them, then what was queued meanwhile.                       *)
LEMMA OrderSubscriberStep ==
  ASSUME TypeOK, Ownership, Order, NEW s \in Subs, SubscriberStep(s)
  PROVE  Order'
<1>1. /\ delivered[s] \in Seq(Nat) /\ replay[s] \in Seq(Nat)
      /\ pending[s] \in Seq(Nat) /\ catchHand[s] \in Nat /\ seq \in Nat
      /\ Chain(delivered[s], replay[s], pending[s], phase[s], seq)
  BY DEF TypeOK, Order, ChainOrder
<1>2. \A f \in Emitters : phase[s] # "open" => ~(current[f] = s /\ hand[f] # 0)
  BY DEF Ownership, HeldIsOpen, CallIsHeld
<1>3. catchHand[s] # 0 => /\ phase[s] \in {"replay", "flush"}
                          /\ InFlight(delivered[s], replay[s], pending[s],
                                      catchHand[s], seq)
  BY DEF Ownership, CatchHandPhase, Order, CatchHandOrder, InFlightOf
<1> USE DEF bufferVars, emitterVars
<1>4. CASE ReplayNext(s)
  <2>1. /\ UNCHANGED <<log, buffer, delivered, pending, phase, current, hand>>
        /\ phase[s] = "replay" /\ replay[s] # <<>>
        /\ replay'[s] = Tail(replay[s]) /\ catchHand'[s] = Head(replay[s])
        /\ \A r \in Subs \ {s} : replay'[r] = replay[r] /\ catchHand'[r] = catchHand[r]
    BY <1>4 DEF ReplayNext, TypeOK
  <2>2. /\ Chain(delivered[s], Tail(replay[s]), pending[s], "replay", seq)
        /\ InFlight(delivered[s], Tail(replay[s]), pending[s], Head(replay[s]), seq)
    BY <1>1, <2>1, ChainReplay
  <2> QED
    BY <1>2, <2>1, <2>2, OrderOfOthers
<1>5. CASE ReplayEnd(s)
  <2>1. /\ UNCHANGED <<log, buffer, delivered, pending, replay, catchHand, current, hand>>
        /\ phase[s] = "replay" /\ phase'[s] = "flush"
        /\ replay[s] = <<>> /\ catchHand[s] = 0
        /\ \A r \in Subs \ {s} : phase'[r] = phase[r]
    BY <1>5 DEF ReplayEnd, TypeOK
  <2>2. Chain(delivered[s], replay[s], pending[s], "flush", seq)
    BY <1>1, <2>1 DEF Chain
  <2> QED
    BY <1>2, <2>1, <2>2, OrderOfOthers
<1>6. CASE FlushPop(s)
  <2>1. /\ UNCHANGED <<log, buffer, delivered, replay, phase, current, hand>>
        /\ phase[s] = "flush" /\ pending[s] # <<>>
        /\ pending'[s] = Tail(pending[s]) /\ catchHand'[s] = Head(pending[s])
        /\ \A r \in Subs \ {s} : pending'[r] = pending[r] /\ catchHand'[r] = catchHand[r]
    BY <1>6 DEF FlushPop, TypeOK
  <2>2. replay[s] = <<>>
    BY <1>1, <2>1 DEF Chain
  <2>3. /\ Chain(delivered[s], <<>>, Tail(pending[s]), phase[s], seq)
        /\ InFlight(delivered[s], <<>>, Tail(pending[s]), Head(pending[s]), seq)
    BY <1>1, <2>1, <2>2, ChainPop
  <2> QED
    BY <1>2, <2>1, <2>2, <2>3, OrderOfOthers
<1>7. CASE Open(s)
  <2>1. /\ UNCHANGED <<log, buffer, delivered, pending, replay, catchHand, current, hand>>
        /\ phase[s] = "flush" /\ phase'[s] = "open" /\ catchHand[s] = 0
        /\ \A r \in Subs \ {s} : phase'[r] = phase[r]
    BY <1>7 DEF Open, TypeOK
  <2>2. Chain(delivered[s], replay[s], pending[s], "open", seq)
    BY <1>1, <2>1 DEF Chain
  <2> QED
    BY <1>2, <2>1, <2>2, OrderOfOthers
<1>8. CASE CatchUpCall(s)
  <2>1. /\ UNCHANGED <<log, buffer, pending, replay, phase, current, hand>>
        /\ catchHand[s] # 0 /\ catchHand'[s] = 0
        /\ delivered'[s] = Append(delivered[s], catchHand[s])
        /\ \A r \in Subs \ {s} :
             delivered'[r] = delivered[r] /\ catchHand'[r] = catchHand[r]
    BY <1>8 DEF CatchUpCall, TypeOK
  <2>2. Chain(Append(delivered[s], catchHand[s]), replay[s], pending[s], phase[s], seq)
    BY <1>1, <1>3, <2>1, ChainCall
  <2> QED
    BY <1>2, <1>3, <2>1, <2>2, OrderOfOthers
<1> QED
  BY <1>4, <1>5, <1>6, <1>7, <1>8 DEF SubscriberStep

(* Order reads only these variables.                                       *)
LEMMA OrderUnchanged ==
  ASSUME Order, UNCHANGED <<bufferVars, pending, emitterVars, subscribeVars, delivered>>
  PROVE  Order'
  BY DEF Order, BufferOrder, ChainOrder, CatchHandOrder, HandOrder, InFlightOf,
         bufferVars, emitterVars, subscribeVars

(* Order is preserved by every step.                                       *)
LEMMA OrderStep == TypeOK /\ Ownership /\ Order /\ [Next]_vars => Order'
<1> SUFFICES ASSUME TypeOK, Ownership, Order, [Next]_vars PROVE Order'
  OBVIOUS
<1>1. ASSUME NEW e \in Emitters, Emit(e) \/ EmitterStep(e) PROVE Order'
  BY <1>1, OrderEmit, OrderDrainCall, OrderDrainPop, OrderDrainStop DEF EmitterStep
<1>2. ASSUME NEW s \in Subs, Subscribe(s) PROVE Order'
  <2>1. PICK since \in Nat : Register(s, since)
    BY <1>2 DEF Subscribe, TypeOK
  <2> QED
    BY <2>1, OrderRegister
<1>3. ASSUME NEW s \in Subs, Unsubscribe(s) PROVE Order'
  BY <1>3, OrderUnchanged DEF Unsubscribe, Erase
<1>4. CASE ObserverStep
  <2>1. CASE ObserverSubscribe
    <3>1. installer.next \in Subs
      BY <2>1 DEF ObserverSubscribe, TypeOK
    <3> QED
      BY <2>1, <3>1, OrderRegister DEF ObserverSubscribe
  <2>2. CASE ~ObserverSubscribe
    BY <1>4, <2>2, OrderUnchanged
       DEF ObserverStep, ObserverTake, ObserverErase, Erase, ObserverStore
  <2> QED
    BY <2>1, <2>2
<1>5. CASE UNCHANGED vars
  BY <1>5, OrderUnchanged DEF vars
<1> QED
  BY <1>1, <1>2, <1>3, <1>4, <1>5, OrderSubscriberStep DEF Next

(* Order contains what the two properties ask.                             *)
LEMMA OrderImplies == TypeOK /\ Order => DeliveredInOrder /\ BufferIncreasing
<1> SUFFICES ASSUME TypeOK, Order PROVE DeliveredInOrder /\ BufferIncreasing
  OBVIOUS
<1>1. /\ DOMAIN buffer = 1..Len(buffer)
      /\ \A s \in Subs : DOMAIN delivered[s] = 1..Len(delivered[s])
  BY DEF TypeOK
<1> QED
  BY <1>1 DEF Order, BufferOrder, ChainOrder, Chain, Sorted, DeliveredInOrder,
              BufferIncreasing

(* Every listener is called with strictly increasing sequence numbers, its *)
(* replayed history first, whatever the interleaving of emitters,          *)
(* subscriptions and removals (event_dispatcher.hpp:20-25).                *)
THEOREM DeliveryCorrect == Spec => []DeliveredInOrder
<1>1. Init => TypeOK /\ Ownership /\ Order
  BY TypeOKInit, OwnershipInit, OrderInit
<1>2. TypeOK /\ Ownership /\ Order /\ [Next]_vars => (TypeOK /\ Ownership /\ Order)'
  BY TypeOKStep, OwnershipStep, OrderStep
<1>3. TypeOK /\ Ownership /\ Order => DeliveredInOrder
  BY OrderImplies
<1> QED
  BY <1>1, <1>2, <1>3, PTL DEF Spec

(* The replay buffer never exceeds its capacity and stays ordered by seq,  *)
(* whichever coalesce keys the events carry (push_to_buffer).              *)
THEOREM BufferCorrect == Spec => []BufferIncreasing
<1>1. Init => TypeOK /\ Ownership /\ Order
  BY TypeOKInit, OwnershipInit, OrderInit
<1>2. TypeOK /\ Ownership /\ Order /\ [Next]_vars => (TypeOK /\ Ownership /\ Order)'
  BY TypeOKStep, OwnershipStep, OrderStep
<1>3. TypeOK /\ Ownership /\ Order => BufferIncreasing
  BY OrderImplies
<1> QED
  BY <1>1, <1>2, <1>3, PTL DEF Spec-----------------------------------------------------------------------------
(* Refinement of OrderedDelivery.  What is owed to a subscription is a      *)
(* sequence in three parts, the call in progress, the history still to be   *)
(* replayed and the queue; the lemmas on sequences say how its parts move.  *)

(* Three parts can be put together in either order. *)
LEMMA Associative ==
  \A s, t, u \in Seq(Nat) : (s \o t) \o u = s \o (t \o u)
<1> SUFFICES ASSUME NEW s \in Seq(Nat), NEW t \in Seq(Nat), NEW u \in Seq(Nat)
    PROVE  (s \o t) \o u = s \o (t \o u)
  OBVIOUS
<1> QED
  OBVIOUS

(* Owed starts with the call in progress. *)
LEMMA TakeFirst ==
  ASSUME NEW h \in Nat, NEW a \in Seq(Nat), NEW b \in Seq(Nat)
  PROVE  /\ (<<h>> \o a) \o b # <<>>
         /\ Head((<<h>> \o a) \o b) = h
         /\ Tail((<<h>> \o a) \o b) = (<<>> \o a) \o b
<1>1. a \o b \in Seq(Nat) /\ <<h>> \in Seq(Nat)
  BY ConcatProperties
<1>2. (<<h>> \o a) \o b = <<h>> \o (a \o b)
  BY ONLY <1>1, a \in Seq(Nat), b \in Seq(Nat), Associative
<1>3. (<<>> \o a) \o b = a \o b
  BY ConcatEmptySeq
<1>4. ASSUME NEW q \in Seq(Nat)
      PROVE  /\ <<h>> \o q # <<>> /\ Head(<<h>> \o q) = h
             /\ Tail(<<h>> \o q) = q
  OBVIOUS
<1> QED
  BY <1>1, <1>2, <1>3, <1>4

(* Taking the first element into the call in progress changes nothing. *)
LEMMA MoveFirst ==
  ASSUME NEW q \in Seq(Nat), q # <<>>
  PROVE  <<Head(q)>> \o Tail(q) = q
  OBVIOUS

(* The oldest event of the history, then of the queue, becomes the call. *)
LEMMA MoveOwed ==
  ASSUME NEW a \in Seq(Nat), NEW b \in Seq(Nat)
  PROVE  /\ a # <<>> => (<<Head(a)>> \o Tail(a)) \o b = (<<>> \o a) \o b
         /\ b # <<>> => (<<Head(b)>> \o <<>>) \o Tail(b) = (<<>> \o <<>>) \o b
<1>1. (<<>> \o a) \o b = a \o b /\ (<<>> \o <<>>) \o b = b
  BY ConcatEmptySeq
<1>2. a # <<>> => <<Head(a)>> \o Tail(a) = a
  BY MoveFirst
<1>3. b # <<>> => <<Head(b)>> \o <<>> = <<Head(b)>>
  BY HeadTailProperties, ConcatEmptySeq
<1>4. b # <<>> => <<Head(b)>> \o Tail(b) = b
  BY MoveFirst
<1> QED
  BY <1>1, <1>2, <1>3, <1>4

(* A new event is owed last. *)
LEMMA QueueMore ==
  ASSUME NEW c \in Seq(Nat), NEW a \in Seq(Nat), NEW b \in Seq(Nat), NEW n \in Nat
  PROVE  (c \o a) \o Append(b, n) = Append((c \o a) \o b, n)
<1> DEFINE q == c \o a
<1>1. q \in Seq(Nat)
  BY ConcatProperties
<1> HIDE DEF q
<1>2. q \o b \in Seq(Nat) /\ <<n>> \in Seq(Nat)
  BY <1>1, ConcatProperties
<1>3. Append(b, n) = b \o <<n>> /\ Append(q \o b, n) = (q \o b) \o <<n>>
  BY <1>2, AppendIsConcat
<1>4. (q \o b) \o <<n>> = q \o (b \o <<n>>)
  BY ONLY <1>1, <1>2, b \in Seq(Nat), Associative
<1> QED
  BY <1>3, <1>4 DEF q

(* Without its queue, what is owed is a prefix of what it was. *)
LEMMA DropQueue ==
  ASSUME NEW c \in Seq(Nat), NEW a \in Seq(Nat), NEW b \in Seq(Nat)
  PROVE  /\ Len(c \o a) \in 0..Len((c \o a) \o b)
         /\ (c \o a) \o <<>> = SubSeq((c \o a) \o b, 1, Len(c \o a))
<1> DEFINE q == c \o a
<1>1. q \in Seq(Nat) /\ Len(q) \in Nat
  BY ConcatProperties
<1> HIDE DEF q
<1>2. Len(q \o b) = Len(q) + Len(b) /\ Len(b) \in Nat /\ q \o b \in Seq(Nat)
  BY <1>1, ConcatProperties
<1>3. q \o <<>> = q
  BY <1>1, ConcatEmptySeq
<1>4. SubSeq(q \o b, 1, Len(q)) = q
  <2>1. CASE Len(q) = 0
    <3>1. q = <<>>
      BY <1>1, <2>1, EmptySeq
    <3> QED
      BY <2>1, <3>1, SubSeqEmpty
  <2>2. CASE Len(q) # 0
    <3>1. 1 \in 1..Len(q) /\ Len(q) \in 1..Len(q)
      BY <1>1, <2>2
    <3>2. SubSeq(q \o b, 1, Len(q)) = SubSeq(q, 1, Len(q))
      BY <1>1, <3>1, SubSeqOfConcat1
    <3> QED
      BY <1>1, <3>2, SubSeqFull
  <2> QED
    BY <2>1, <2>2
<1>5. Len(q) \in 0..Len(q \o b)
  BY <1>1, <1>2
<1> QED
  BY <1>3, <1>4, <1>5 DEF q

(* The running call for s, as a function of the variables it reads. *)
Calls(cur, hnd, ch, s) ==
  LET callers == {e \in Emitters : cur[e] = s /\ hnd[e] # 0}
  IN  IF ch[s] # 0 THEN <<ch[s]>>
      ELSE IF callers = {} THEN <<>>
      ELSE <<hnd[CHOOSE e \in callers : TRUE]>>

(* A subscribing thread, one emitter or nobody is calling the listener. *)
LEMMA CallsCases ==
  ASSUME NEW cur, NEW hnd, NEW ch, NEW s
  PROVE  /\ ch[s] # 0 => Calls(cur, hnd, ch, s) = <<ch[s]>>
         /\ ch[s] = 0 /\ (\A f \in Emitters : ~(cur[f] = s /\ hnd[f] # 0))
              => Calls(cur, hnd, ch, s) = <<>>
         /\ \A e \in Emitters :
              /\ ch[s] = 0 /\ cur[e] = s /\ hnd[e] # 0
              /\ \A f \in Emitters : cur[f] = s => f = e
              => Calls(cur, hnd, ch, s) = <<hnd[e]>>
<1> DEFINE callers == {e \in Emitters : cur[e] = s /\ hnd[e] # 0}
<1>1. ASSUME NEW e \in Emitters, ch[s] = 0, cur[e] = s, hnd[e] # 0,
             \A f \in Emitters : cur[f] = s => f = e
      PROVE  Calls(cur, hnd, ch, s) = <<hnd[e]>>
  <2>1. callers = {e}
    BY <1>1
  <2> HIDE DEF callers
  <2>2. (CHOOSE f \in callers : TRUE) = e /\ callers # {}
    BY <2>1
  <2>3. Calls(cur, hnd, ch, s) = <<hnd[CHOOSE f \in callers : TRUE]>>
    BY <1>1, <2>2 DEF Calls, callers
  <2> QED
    BY <2>2, <2>3
<1>2. ch[s] = 0 /\ (\A f \in Emitters : ~(cur[f] = s /\ hnd[f] # 0))
        => Calls(cur, hnd, ch, s) = <<>>
  BY DEF Calls
<1>3. ch[s] # 0 => Calls(cur, hnd, ch, s) = <<ch[s]>>
  BY DEF Calls
<1> QED
  BY <1>1, <1>2, <1>3

(* A step that touches no call of s leaves the call in progress alone. *)
LEMMA CallsSame ==
  ASSUME NEW cur, NEW hnd, NEW ch, NEW cur2, NEW hnd2, NEW ch2, NEW s,
         ch2[s] = ch[s],
         \A f \in Emitters :
           /\ cur2[f] = s /\ hnd2[f] # 0 <=> cur[f] = s /\ hnd[f] # 0
           /\ cur[f] = s /\ hnd[f] # 0 => hnd2[f] = hnd[f]
  PROVE  Calls(cur2, hnd2, ch2, s) = Calls(cur, hnd, ch, s)
<1> DEFINE callers == {e \in Emitters : cur[e] = s /\ hnd[e] # 0}
           callers2 == {e \in Emitters : cur2[e] = s /\ hnd2[e] # 0}
<1>1. callers2 = callers /\ \A f \in callers : hnd2[f] = hnd[f]
  OBVIOUS
<1>2. /\ Calls(cur, hnd, ch, s) =
           IF ch[s] # 0 THEN <<ch[s]>> ELSE IF callers = {} THEN <<>>
           ELSE <<hnd[CHOOSE e \in callers : TRUE]>>
      /\ Calls(cur2, hnd2, ch2, s) =
           IF ch[s] # 0 THEN <<ch[s]>> ELSE IF callers2 = {} THEN <<>>
           ELSE <<hnd2[CHOOSE e \in callers2 : TRUE]>>
  BY DEF Calls
<1> HIDE DEF callers, callers2
<1>3. callers # {} => (CHOOSE e \in callers : TRUE) \in callers
  OBVIOUS
<1> QED
  BY <1>1, <1>2, <1>3

Queue(s) == IF s \in registered THEN pending[s] ELSE <<>>

(* The three parts of what is owed are sequences of event numbers. *)
LEMMA OwedParts ==
  ASSUME TypeOK, NEW s \in Subs
  PROVE  /\ InCall(s) \in Seq(Nat) /\ replay[s] \in Seq(Nat) /\ Queue(s) \in Seq(Nat)
         /\ Owed(s) = (InCall(s) \o replay[s]) \o Queue(s)
<1> DEFINE callers == {e \in Emitters : current[e] = s /\ hand[e] # 0}
<1>1. /\ \A e \in Emitters : hand[e] \in Nat
      /\ catchHand[s] \in Nat /\ replay[s] \in Seq(Nat) /\ pending[s] \in Seq(Nat)
  BY DEF TypeOK
<1>2. callers # {} => hand[CHOOSE e \in callers : TRUE] \in Nat
  <2>1. \A e \in callers : hand[e] \in Nat
    BY <1>1
  <2> HIDE DEF callers
  <2> QED
    BY <2>1
<1>3. InCall(s) = IF catchHand[s] # 0 THEN <<catchHand[s]>>
                  ELSE IF callers = {} THEN <<>>
                  ELSE <<hand[CHOOSE e \in callers : TRUE]>>
  BY DEF InCall
<1> HIDE DEF callers
<1>4. InCall(s) \in Seq(Nat)
  BY <1>1, <1>2, <1>3
<1>5. Owed(s) = (InCall(s) \o replay[s]) \o Queue(s)
  BY DEF Owed, Queue
<1> QED
  BY <1>1, <1>4, <1>5 DEF Queue

(* A step that touches nothing of s owes it the same events. *)
LEMMA OwedSame ==
  ASSUME NEW s \in Subs,
         replay'[s] = replay[s], pending'[s] = pending[s], catchHand'[s] = catchHand[s],
         s \in registered' <=> s \in registered,
         \A f \in Emitters :
           /\ current'[f] = s /\ hand'[f] # 0 <=> current[f] = s /\ hand[f] # 0
           /\ current[f] = s /\ hand[f] # 0 => hand'[f] = hand[f]
  PROVE  Owed(s)' = Owed(s) /\ InCall(s)' = InCall(s)
<1>1. /\ InCall(s) = Calls(current, hand, catchHand, s)
      /\ InCall(s)' = Calls(current', hand', catchHand', s)
  BY DEF InCall, Calls
<1>2. InCall(s)' = InCall(s)
  BY <1>1, CallsSame
<1> QED
  BY <1>2 DEF Owed

(* A step that a client cannot see. *)
LEMMA Unseen ==
  ASSUME UNCHANGED <<log, registered, delivered>>,
         \A s \in Subs : phase'[s] = "new" <=> phase[s] = "new",
         \A s \in Subs : Owed(s)' = Owed(s)
  PROVE  UNCHANGED Abstract!vars
<1>1. [s \in Subs |-> Owed(s)]' = [s \in Subs |-> Owed(s)]
  OBVIOUS
<1>2. {s \in Subs : phase[s] = "new"}' = {s \in Subs : phase[s] = "new"}
  OBVIOUS
<1> QED
  BY <1>1, <1>2 DEF Abstract!vars

(* The subscriptions that nobody is calling owe nothing to a call. *)
LEMMA InCallCases ==
  ASSUME NEW s \in Subs
  PROVE  /\ catchHand[s] # 0 => InCall(s) = <<catchHand[s]>>
         /\ catchHand[s] = 0 /\ (\A f \in Emitters : ~(current[f] = s /\ hand[f] # 0))
              => InCall(s) = <<>>
         /\ \A e \in Emitters :
              /\ catchHand[s] = 0 /\ current[e] = s /\ hand[e] # 0
              /\ \A f \in Emitters : current[f] = s => f = e
              => InCall(s) = <<hand[e]>>
         /\ catchHand'[s] # 0 => InCall(s)' = <<catchHand'[s]>>
         /\ catchHand'[s] = 0 /\ (\A f \in Emitters : ~(current'[f] = s /\ hand'[f] # 0))
              => InCall(s)' = <<>>
         /\ \A e \in Emitters :
              /\ catchHand'[s] = 0 /\ current'[e] = s /\ hand'[e] # 0
              /\ \A f \in Emitters : current'[f] = s => f = e
              => InCall(s)' = <<hand'[e]>>
<1>1. /\ InCall(s) = Calls(current, hand, catchHand, s)
      /\ InCall(s)' = Calls(current', hand', catchHand', s)
  BY DEF InCall, Calls
<1> QED
  BY <1>1, CallsCases

(* emit() is an emission: every member is owed the new event last. *)
LEMMA RefineEmit ==
  ASSUME TypeOK, NEW e \in Emitters, Emit(e)
  PROVE  Abstract!Emit
<1>1. /\ seq' = seq + 1 /\ seq \in Nat
      /\ UNCHANGED <<registered, delivered, current, hand, phase, replay, catchHand>>
      /\ \A s \in Subs : pending'[s] = IF s \in registered
                                      THEN Append(pending[s], seq + 1) ELSE pending[s]
  BY DEF Emit, TypeOK, subscribeVars
<1>2. ASSUME NEW s \in Subs
      PROVE  Owed(s)' = IF s \in registered THEN Append(Owed(s), seq + 1) ELSE Owed(s)
  <2>1. InCall(s)' = InCall(s)
    <3>1. /\ InCall(s) = Calls(current, hand, catchHand, s)
          /\ InCall(s)' = Calls(current', hand', catchHand', s)
      BY DEF InCall, Calls
    <3> QED
      BY <1>1, <3>1
  <2>2. /\ Owed(s) = (InCall(s) \o replay[s])
                       \o (IF s \in registered THEN pending[s] ELSE <<>>)
        /\ Owed(s)' = (InCall(s) \o replay[s])
                        \o (IF s \in registered THEN pending'[s] ELSE <<>>)
    BY <1>1, <2>1 DEF Owed
  <2>3. CASE s \in registered
    <3>1. pending[s] \in Seq(Nat) /\ seq + 1 \in Nat
      BY <1>1 DEF TypeOK
    <3>2. InCall(s) \in Seq(Nat) /\ replay[s] \in Seq(Nat)
      BY OwedParts
    <3>3. (InCall(s) \o replay[s]) \o Append(pending[s], seq + 1)
            = Append((InCall(s) \o replay[s]) \o pending[s], seq + 1)
      BY <3>1, <3>2, QueueMore
    <3> QED
      BY <1>1, <2>2, <2>3, <3>3
  <2>4. CASE s \notin registered
    BY <2>2, <2>4
  <2> QED
    BY <2>3, <2>4
<1>3. [s \in Subs |-> Owed(s)]' =
        [s \in Subs |-> IF s \in registered THEN Append([r \in Subs |-> Owed(r)][s], seq')
                        ELSE [r \in Subs |-> Owed(r)][s]]
  BY <1>1, <1>2
<1> QED
  BY <1>1, <1>3 DEF Abstract!Emit

(* The end of a listener call delivers the first event owed to s.  All     *)
(* other subscriptions are untouched.                                      *)
LEMMA RefineCall ==
  ASSUME TypeOK, NEW s \in Subs, NEW h \in Nat,
         UNCHANGED <<log, registered, pending, phase, replay>>,
         InCall(s) = <<h>>, InCall(s)' = <<>>,
         delivered' = [delivered EXCEPT ![s] = Append(@, h)],
         \A r \in Subs \ {s} : Owed(r)' = Owed(r)
  PROVE  Abstract!Deliver(s)
<1> DEFINE owed == [r \in Subs |-> Owed(r)]
<1>1. replay[s] \in Seq(Nat) /\ Queue(s) \in Seq(Nat)
  BY OwedParts
<1>2. Owed(s) = (<<h>> \o replay[s]) \o Queue(s) /\ Queue(s)' = Queue(s)
  BY OwedParts DEF Queue
<1>3. Owed(s)' = (<<>> \o replay[s]) \o Queue(s)
  BY <1>2 DEF Owed, Queue
<1>4. Owed(s) # <<>> /\ Head(Owed(s)) = h /\ Owed(s)' = Tail(Owed(s))
  <2>1. /\ (<<h>> \o replay[s]) \o Queue(s) # <<>>
        /\ Head((<<h>> \o replay[s]) \o Queue(s)) = h
        /\ Tail((<<h>> \o replay[s]) \o Queue(s)) = (<<>> \o replay[s]) \o Queue(s)
    BY <1>1, TakeFirst
  <2> QED
    BY ONLY <1>2, <1>3, <2>1
<1>5. owed[s] # <<>> /\ Head(owed[s]) = h
  BY <1>4
<1>6. owed' = [owed EXCEPT ![s] = Tail(@)]
  BY <1>4
<1>7. delivered' = [delivered EXCEPT ![s] = Append(@, Head(owed[s]))]
  BY <1>5
<1>8. {r \in Subs : phase[r] = "new"}' = {r \in Subs : phase[r] = "new"}
  OBVIOUS
<1> HIDE DEF owed
<1> QED
  BY <1>5, <1>6, <1>7, <1>8 DEF Abstract!Deliver, owed

(* What an emitter does to a subscription it drains. *)
LEMMA RefineEmitterStep ==
  ASSUME TypeOK, Ownership, Order, NEW e \in Emitters, EmitterStep(e)
  PROVE  [Abstract!Next]_(Abstract!vars)
<1>1. CASE DrainCall(e)
  <2>1. PICK s \in Subs : s = current[e] /\ s \in targets[e]
    BY <1>1 DEF DrainCall, Ownership, CallIsHeld, TypeOK
  <2>2. hand[e] # 0 /\ hand[e] \in Nat
    BY <1>1 DEF DrainCall, TypeOK
  <2>3. /\ UNCHANGED <<log, registered, pending, current, phase, replay, catchHand>>
        /\ \A f \in Emitters : hand'[f] = IF f = e THEN 0 ELSE hand[f]
        /\ delivered' = [delivered EXCEPT ![s] = Append(@, hand[e])]
    BY <1>1, <2>1 DEF DrainCall, TypeOK, bufferVars, subscribeVars
  <2>4. /\ catchHand[s] = 0
        /\ \A f \in Emitters : current[f] = s => f = e
    BY <2>1, SoleCaller
  <2>5. InCall(s) = <<hand[e]>>
    BY <2>1, <2>2, <2>4, InCallCases
  <2>6. InCall(s)' = <<>>
    <3>1. \A f \in Emitters : ~(current'[f] = s /\ hand'[f] # 0)
      BY <2>3, <2>4
    <3>2. catchHand'[s] = 0
      BY <2>3, <2>4
    <3> QED
      BY <3>1, <3>2, InCallCases
  <2>7. \A r \in Subs \ {s} : Owed(r)' = Owed(r)
    BY <2>1, <2>3, OwedSame
  <2>8. Abstract!Deliver(s)
    BY <2>2, <2>3, <2>5, <2>6, <2>7, RefineCall
  <2> QED
    BY <2>8 DEF Abstract!Next
<1>2. ASSUME NEW s \in Subs, DrainPop(e, s)
      PROVE  UNCHANGED Abstract!vars
  <2>1. /\ UNCHANGED <<log, registered, phase, replay, catchHand, delivered>>
        /\ s \in targets[e] /\ s \in registered /\ pending[s] # <<>>
        /\ hand[e] = 0
        /\ \A f \in Emitters : /\ hand'[f] = IF f = e THEN Head(pending[s]) ELSE hand[f]
                              /\ current'[f] = IF f = e THEN s ELSE current[f]
        /\ \A r \in Subs : pending'[r] = IF r = s THEN Tail(pending[r]) ELSE pending[r]
    BY <1>2 DEF DrainPop, Draining, Deliverable, TypeOK, bufferVars, subscribeVars
  <2>2. /\ phase[s] = "open" /\ catchHand[s] = 0
        /\ \A f \in Emitters : current[f] = s => f = e
    BY <2>1, SoleCaller
  <2>3. pending[s] \in Seq(Nat) /\ Chain(delivered[s], replay[s], pending[s], phase[s], seq)
    BY DEF TypeOK, Order, ChainOrder
  <2>4. replay[s] = <<>> /\ Head(pending[s]) # 0
    <3>1. replay[s] = <<>> /\ Within(pending[s], 0, seq)
      BY <2>2, <2>3 DEF Chain
    <3> QED
      BY <2>1, <2>3, <3>1 DEF Within
  <2>5. InCall(s) = <<>> /\ InCall(s)' = <<Head(pending[s])>>
    <3>1. InCall(s) = <<>>
      BY <2>1, <2>2, InCallCases
    <3>2. InCall(s)' = <<hand'[e]>>
      BY <2>1, <2>2, <2>4, InCallCases
    <3> QED
      BY <2>1, <3>1, <3>2
  <2>6. Owed(s)' = Owed(s)
    <3>1. /\ Owed(s) = (<<>> \o <<>>) \o pending[s]
          /\ Owed(s)' = (<<Head(pending[s])>> \o <<>>) \o Tail(pending[s])
      BY <2>1, <2>4, <2>5 DEF Owed
    <3> QED
      BY <2>1, <2>3, <3>1, MoveOwed
  <2>7. \A r \in Subs \ {s} : Owed(r)' = Owed(r)
    <3> SUFFICES ASSUME NEW r \in Subs \ {s} PROVE Owed(r)' = Owed(r)
      OBVIOUS
    <3>1. \A f \in Emitters :
            /\ current'[f] = r /\ hand'[f] # 0 <=> current[f] = r /\ hand[f] # 0
            /\ current[f] = r /\ hand[f] # 0 => hand'[f] = hand[f]
      BY <2>1
    <3> QED
      BY <2>1, <3>1, OwedSame
  <2> QED
    BY <2>1, <2>6, <2>7, Unseen
<1>3. ASSUME NEW s \in Subs, DrainStop(e, s)
      PROVE  UNCHANGED Abstract!vars
  <2>1. /\ UNCHANGED <<log, registered, phase, replay, catchHand, delivered, pending, hand>>
        /\ hand[e] = 0
        /\ \A f \in Emitters : current'[f] = IF f = e THEN NoSub ELSE current[f]
    BY <1>3 DEF DrainStop, Draining, TypeOK, bufferVars, subscribeVars
  <2>2. \A r \in Subs : Owed(r)' = Owed(r)
    <3> SUFFICES ASSUME NEW r \in Subs PROVE Owed(r)' = Owed(r)
      OBVIOUS
    <3>1. \A f \in Emitters :
            /\ current'[f] = r /\ hand'[f] # 0 <=> current[f] = r /\ hand[f] # 0
            /\ current[f] = r /\ hand[f] # 0 => hand'[f] = hand[f]
      BY <2>1
    <3> QED
      BY <2>1, <3>1, OwedSame
  <2> QED
    BY <2>1, <2>2, Unseen
<1> QED
  BY <1>1, <1>2, <1>3 DEF EmitterStep

(* subscribe() joins with some past events, in their order: what it        *)
(* resumes from is owed to the client in full.                             *)
LEMMA RefineRegister ==
  ASSUME TypeOK, Ownership, Order, NEW s \in Subs, NEW since \in Nat,
         Register(s, since)
  PROVE  Abstract!Join(s)
<1> DEFINE owed == [r \in Subs |-> Owed(r)]
<1>1. /\ UNCHANGED <<log, delivered, pending, current, hand, catchHand>>
      /\ phase[s] = "new" /\ phase'[s] = "replay"
      /\ registered' = registered \union {s}
      /\ \A r \in Subs : r # s => replay'[r] = replay[r] /\ phase'[r] = phase[r]
  BY DEF Register, TypeOK, bufferVars, emitterVars
<1>2. /\ delivered[s] = <<>> /\ pending[s] = <<>> /\ catchHand[s] = 0
      /\ \A f \in Emitters : ~(current[f] = s /\ hand[f] # 0)
  BY <1>1 DEF Order, ChainOrder, Chain, Ownership, CatchHandPhase, HeldIsOpen, CallIsHeld
<1>3. replay'[s] \in Seq(Nat)
  BY TypeOKRegister
<1>4. Sorted(replay'[s]) /\ Within(replay'[s], 0, seq)
  <2>1. Order'
    BY OrderRegister
  <2> QED
    BY <1>1, <2>1 DEF Order, ChainOrder, Chain, Sorted, Within
<1>5. Owed(s)' = replay'[s]
  <2>1. InCall(s)' = <<>>
    BY <1>1, <1>2, InCallCases
  <2>2. Owed(s)' = (<<>> \o replay'[s]) \o <<>>
    BY <1>1, <1>2, <2>1 DEF Owed
  <2> QED
    BY <1>3, <2>2, ConcatEmptySeq
<1>6. \A r \in Subs \ {s} : Owed(r)' = Owed(r)
  BY <1>1, OwedSame
<1>7. owed' = [owed EXCEPT ![s] = owed'[s]]
  BY <1>6
<1>8. owed'[s] \in Seq(1..seq)
  <2>1. \A i \in 1..Len(replay'[s]) : replay'[s][i] \in 1..seq
    <3>1. seq \in Nat
      BY DEF TypeOK
    <3>2. \A i \in 1..Len(replay'[s]) : replay'[s][i] \in Nat
      BY <1>3
    <3>3. \A i \in 1..Len(replay'[s]) : 0 < replay'[s][i] /\ replay'[s][i] <= seq
      BY <1>4 DEF Within
    <3> QED
      BY <3>1, <3>2, <3>3
  <2>2. Range(replay'[s]) \subseteq 1..seq
    BY <1>3, <2>1, RangeEquality
  <2>3. replay'[s] \in Seq(1..seq)
    BY <1>3, <2>2, SeqOfRange, SeqMonotonic
  <2> QED
    BY <1>5, <2>3
<1>9. Abstract!Increasing(owed'[s])
  BY <1>4, <1>5 DEF Abstract!Increasing, Sorted
<1>10. /\ s \in {r \in Subs : phase[r] = "new"}
       /\ {r \in Subs : phase[r] = "new"}' = {r \in Subs : phase[r] = "new"} \ {s}
  BY <1>1
<1> HIDE DEF owed
<1> QED
  BY <1>1, <1>7, <1>8, <1>9, <1>10 DEF Abstract!Join, owed

(* A subscribing thread delivers what it replays and flushes; its other    *)
(* steps only move events that are still owed.                             *)
LEMMA RefineSubscriberStep ==
  ASSUME TypeOK, Ownership, Order, NEW s \in Subs, SubscriberStep(s)
  PROVE  [Abstract!Next]_(Abstract!vars)
<1>0. /\ replay[s] \in Seq(Nat) /\ pending[s] \in Seq(Nat) /\ catchHand[s] \in Nat
      /\ Chain(delivered[s], replay[s], pending[s], phase[s], seq)
  BY DEF TypeOK, Order, ChainOrder
<1>1. phase[s] # "open" => \A f \in Emitters : ~(current[f] = s /\ hand[f] # 0)
  BY DEF Ownership, HeldIsOpen, CallIsHeld
<1> USE DEF bufferVars, emitterVars
<1>2. CASE ReplayNext(s)
  <2>1. /\ UNCHANGED <<log, registered, delivered, pending, phase, current, hand>>
        /\ phase[s] = "replay" /\ replay[s] # <<>> /\ catchHand[s] = 0
        /\ replay'[s] = Tail(replay[s]) /\ catchHand'[s] = Head(replay[s])
        /\ \A r \in Subs \ {s} : replay'[r] = replay[r] /\ catchHand'[r] = catchHand[r]
    BY <1>2 DEF ReplayNext, TypeOK
  <2>2. Head(replay[s]) # 0
    BY <1>0, <2>1 DEF Chain, Within
  <2>3. InCall(s) = <<>> /\ InCall(s)' = <<Head(replay[s])>>
    BY <1>1, <2>1, <2>2, InCallCases
  <2>4. Owed(s)' = Owed(s)
    <3>1. /\ Owed(s) = (<<>> \o replay[s]) \o Queue(s)
          /\ Owed(s)' = (<<Head(replay[s])>> \o Tail(replay[s])) \o Queue(s)
      BY <2>1, <2>3 DEF Owed, Queue
    <3>2. Queue(s) \in Seq(Nat)
      BY OwedParts
    <3> QED
      BY <1>0, <2>1, <3>1, <3>2, MoveOwed
  <2>5. \A r \in Subs \ {s} : Owed(r)' = Owed(r)
    BY <2>1, OwedSame
  <2> QED
    BY <2>1, <2>4, <2>5, Unseen
<1>3. CASE ReplayEnd(s)
  <2>1. /\ UNCHANGED <<log, registered, delivered, pending, replay, catchHand,
                      current, hand>>
        /\ phase[s] = "replay" /\ phase'[s] = "flush"
        /\ \A r \in Subs \ {s} : phase'[r] = phase[r]
    BY <1>3 DEF ReplayEnd, TypeOK
  <2>2. \A r \in Subs : Owed(r)' = Owed(r)
    BY <2>1, OwedSame
  <2> QED
    BY <2>1, <2>2, Unseen
<1>4. CASE FlushPop(s)
  <2>1. /\ UNCHANGED <<log, registered, delivered, replay, phase, current, hand>>
        /\ phase[s] = "flush" /\ s \in registered /\ pending[s] # <<>>
        /\ catchHand[s] = 0
        /\ pending'[s] = Tail(pending[s]) /\ catchHand'[s] = Head(pending[s])
        /\ \A r \in Subs \ {s} : pending'[r] = pending[r] /\ catchHand'[r] = catchHand[r]
    BY <1>4 DEF FlushPop, TypeOK
  <2>2. replay[s] = <<>> /\ Head(pending[s]) # 0
    <3>1. replay[s] = <<>> /\ Within(pending[s], 0, seq)
      BY <1>0, <2>1 DEF Chain
    <3> QED
      BY <1>0, <2>1, <3>1 DEF Within
  <2>3. InCall(s) = <<>> /\ InCall(s)' = <<Head(pending[s])>>
    BY <1>1, <2>1, <2>2, InCallCases
  <2>4. Owed(s)' = Owed(s)
    <3>1. /\ Owed(s) = (<<>> \o <<>>) \o pending[s]
          /\ Owed(s)' = (<<Head(pending[s])>> \o <<>>) \o Tail(pending[s])
      BY <2>1, <2>2, <2>3 DEF Owed
    <3> QED
      BY <1>0, <2>1, <3>1, MoveOwed
  <2>5. \A r \in Subs \ {s} : Owed(r)' = Owed(r)
    BY <2>1, OwedSame
  <2> QED
    BY <2>1, <2>4, <2>5, Unseen
<1>5. CASE Open(s)
  <2>1. /\ UNCHANGED <<log, registered, delivered, pending, replay, catchHand,
                      current, hand>>
        /\ phase[s] = "flush" /\ phase'[s] = "open"
        /\ \A r \in Subs \ {s} : phase'[r] = phase[r]
    BY <1>5 DEF Open, TypeOK
  <2>2. \A r \in Subs : Owed(r)' = Owed(r)
    BY <2>1, OwedSame
  <2> QED
    BY <2>1, <2>2, Unseen
<1>6. CASE CatchUpCall(s)
  <2>1. /\ UNCHANGED <<log, registered, pending, replay, phase, current, hand>>
        /\ catchHand[s] # 0 /\ catchHand'[s] = 0
        /\ delivered' = [delivered EXCEPT ![s] = Append(@, catchHand[s])]
        /\ \A r \in Subs \ {s} : catchHand'[r] = catchHand[r]
    BY <1>6 DEF CatchUpCall, TypeOK
  <2>2. phase[s] # "open"
    BY <2>1 DEF Ownership, CatchHandPhase
  <2>3. InCall(s) = <<catchHand[s]>> /\ InCall(s)' = <<>>
    BY <1>1, <2>1, <2>2, InCallCases
  <2>4. \A r \in Subs \ {s} : Owed(r)' = Owed(r)
    BY <2>1, OwedSame
  <2>5. PICK h \in Nat : h = catchHand[s]
    BY <1>0
  <2>6. /\ InCall(s) = <<h>>
        /\ delivered' = [delivered EXCEPT ![s] = Append(@, h)]
    BY <2>1, <2>3, <2>5
  <2>7. Abstract!Deliver(s)
    BY <2>1, <2>3, <2>4, <2>6, RefineCall
  <2> QED
    BY <2>7 DEF Abstract!Next
<1> QED
  BY <1>2, <1>3, <1>4, <1>5, <1>6 DEF SubscriberStep

(* A subscription that is erased keeps what its listener is being called   *)
(* with and the history it was replaying, and loses its queue.             *)
LEMMA RefineErase ==
  ASSUME TypeOK, NEW s \in Subs, Erase(s)
  PROVE  [Abstract!Next]_(Abstract!vars)
<1>1. /\ UNCHANGED <<log, delivered, pending, current, hand, phase, replay, catchHand>>
      /\ registered' = registered \ {s}
  BY DEF Erase, bufferVars, emitterVars, subscribeVars
<1>2. \A r \in Subs \ {s} : Owed(r)' = Owed(r)
  BY <1>1, OwedSame
<1>3. CASE s \in registered
  <2> DEFINE owed == [r \in Subs |-> Owed(r)]
             n == Len(InCall(s) \o replay[s])
  <2>1. InCall(s)' = InCall(s)
    <3>1. /\ InCall(s) = Calls(current, hand, catchHand, s)
          /\ InCall(s)' = Calls(current', hand', catchHand', s)
      BY DEF InCall, Calls
    <3> QED
      BY <1>1, <3>1
  <2>2. /\ Owed(s) = (InCall(s) \o replay[s]) \o Queue(s)
        /\ Owed(s)' = (InCall(s) \o replay[s]) \o <<>>
    BY <1>1, <2>1, OwedParts DEF Owed
  <2>3. n \in 0..Len(Owed(s)) /\ Owed(s)' = SubSeq(Owed(s), 1, n)
    <3>1. /\ InCall(s) \in Seq(Nat) /\ replay[s] \in Seq(Nat)
          /\ Queue(s) \in Seq(Nat)
      BY OwedParts
    <3>2. /\ n \in 0..Len((InCall(s) \o replay[s]) \o Queue(s))
          /\ (InCall(s) \o replay[s]) \o <<>> =
               SubSeq((InCall(s) \o replay[s]) \o Queue(s), 1, n)
      BY <3>1, DropQueue
    <3> QED
      BY ONLY <2>2, <3>2
  <2> HIDE DEF n
  <2>4. owed' = [owed EXCEPT ![s] = SubSeq(@, 1, n)]
    BY <1>2, <2>3
  <2>5. n \in 0..Len(owed[s])
    BY <2>3
  <2>6. {r \in Subs : phase[r] = "new"}' = {r \in Subs : phase[r] = "new"}
    BY <1>1
  <2> HIDE DEF owed
  <2>7. Abstract!Leave(s)
    BY <1>1, <1>3, <2>4, <2>5, <2>6 DEF Abstract!Leave, owed
  <2> QED
    BY <2>7 DEF Abstract!Next
<1>4. CASE s \notin registered
  <2>1. registered' = registered
    BY <1>1, <1>4
  <2>2. Owed(s)' = Owed(s)
    BY <1>1, <2>1, OwedSame
  <2> QED
    BY <1>1, <1>2, <2>1, <2>2, Unseen
<1> QED
  BY <1>3, <1>4

(* Every step of the dispatcher is a step of OrderedDelivery or changes    *)
(* nothing a client can see.                                               *)
LEMMA RefineStep ==
  TypeOK /\ Ownership /\ Order /\ [Next]_vars => [Abstract!Next]_(Abstract!vars)
<1> SUFFICES ASSUME TypeOK, Ownership, Order, [Next]_vars
    PROVE  [Abstract!Next]_(Abstract!vars)
  OBVIOUS
<1>1. ASSUME NEW e \in Emitters, Emit(e) PROVE Abstract!Next
  BY <1>1, RefineEmit DEF Abstract!Next
<1>2. ASSUME NEW e \in Emitters, EmitterStep(e)
      PROVE  [Abstract!Next]_(Abstract!vars)
  BY <1>2, RefineEmitterStep
<1>3. ASSUME NEW s \in Subs, Subscribe(s)
      PROVE  Abstract!Next
  <2>1. PICK since \in Nat : Register(s, since)
    BY <1>3 DEF Subscribe, TypeOK
  <2>2. Abstract!Join(s)
    BY <2>1, RefineRegister
  <2> QED
    BY <2>2 DEF Abstract!Next
<1>4. ASSUME NEW s \in Subs, SubscriberStep(s)
      PROVE  [Abstract!Next]_(Abstract!vars)
  BY <1>4, RefineSubscriberStep
<1>5. ASSUME NEW s \in Subs, Unsubscribe(s)
      PROVE  [Abstract!Next]_(Abstract!vars)
  BY <1>5, RefineErase DEF Unsubscribe
<1>6. ASSUME ObserverStep
      PROVE  [Abstract!Next]_(Abstract!vars)
  <2>1. CASE ObserverSubscribe
    <3>1. PICK s \in Subs : s = installer.next
      BY <2>1 DEF ObserverSubscribe, TypeOK
    <3>2. Register(s, 0)
      BY <2>1, <3>1 DEF ObserverSubscribe
    <3>3. Abstract!Join(s)
      BY <3>2, RefineRegister
    <3> QED
      BY <3>3 DEF Abstract!Next
  <2>2. CASE ObserverErase /\ installer.id # NoSub
    <3>1. PICK s \in Subs : s = installer.id
      BY <2>2 DEF TypeOK
    <3>2. Erase(s)
      BY <2>2, <3>1 DEF ObserverErase
    <3> QED
      BY <3>2, RefineErase
  <2>3. CASE ~ObserverSubscribe /\ ~(ObserverErase /\ installer.id # NoSub)
    <3>1. UNCHANGED <<log, registered, delivered, phase, replay, pending, catchHand,
                      current, hand>>
      BY <1>6, <2>3 DEF ObserverStep, ObserverTake, ObserverErase, ObserverStore,
         bufferVars, emitterVars, subscribeVars
    <3>2. \A s \in Subs : Owed(s)' = Owed(s)
      BY <3>1, OwedSame
    <3> QED
      BY <3>1, <3>2, Unseen
  <2> QED
    BY <2>1, <2>2, <2>3
<1>7. CASE UNCHANGED vars
  <2>1. UNCHANGED <<log, registered, delivered, phase, replay, pending, catchHand,
                    current, hand>>
    BY <1>7 DEF vars, bufferVars, emitterVars, subscribeVars
  <2>2. \A s \in Subs : Owed(s)' = Owed(s)
    BY <2>1, OwedSame
  <2> QED
    BY <2>1, <2>2, Unseen
<1> QED
  BY <1>1, <1>2, <1>3, <1>4, <1>5, <1>6, <1>7 DEF Next

(* Nobody is owed anything at first. *)
LEMMA RefineInit == Init => Abstract!Init
<1> SUFFICES ASSUME Init PROVE Abstract!Init
  OBVIOUS
<1>1. \A s \in Subs : Owed(s) = <<>>
  <2> SUFFICES ASSUME NEW s \in Subs PROVE Owed(s) = <<>>
    OBVIOUS
  <2>1. InCall(s) = <<>> /\ replay[s] = <<>> /\ s \notin registered
    BY InCallCases DEF Init
  <2> QED
    BY <2>1, ConcatEmptySeq DEF Owed
<1>2. [s \in Subs |-> Owed(s)] = [s \in Subs |-> <<>>]
  BY <1>1
<1> QED
  BY <1>2 DEF Init, Abstract!Init

(* The dispatcher implements the broadcast of OrderedDelivery, for any     *)
(* number of threads and subscriptions: through every interleaving of      *)
(* emit(), subscribe(), unsubscribe() and set_observer(), each client gets *)
(* the events it is owed, once each, from the head of one queue.           *)
THEOREM RefinementCorrect == Spec => ImplementsOrderedDelivery
<1>1. Init => TypeOK /\ Ownership /\ Order
  BY TypeOKInit, OwnershipInit, OrderInit
<1>2. TypeOK /\ Ownership /\ Order /\ [Next]_vars => (TypeOK /\ Ownership /\ Order)'
  BY TypeOKStep, OwnershipStep, OrderStep
<1> QED
  BY <1>1, <1>2, RefineInit, RefineStep, PTL
     DEF Spec, ImplementsOrderedDelivery, Abstract!Spec
-----------------------------------------------------------------------------
(* What the buffer holds.  coalesced_seq_by_key_ points at the last event   *)
(* of each key as long as it is in the buffer, so an event is superseded    *)
(* exactly when a later one of its key has been buffered.                   *)

Elems(q) == {q[i] : i \in 1..Len(q)}

(* The durable events of the history lg above ev. *)
Live(lg, ev) ==
  {n \in ev + 1..Len(lg) :
     /\ lg[n].buffered
     /\ lg[n].key # NoKey => \A m \in n + 1..Len(lg) : lg[m].key # lg[n].key}

(* co points at the last event of k, or every event of k is evicted. *)
Mark(lg, ev, co, k) ==
  \/ co[k] = 0 /\ \A n \in 1..Len(lg) : lg[n].key = k => n <= ev
  \/ /\ co[k] \in ev + 1..Len(lg)
     /\ lg[co[k]].key = k
     /\ \A n \in 1..Len(lg) : lg[n].key = k => n <= co[k]

Complete ==
  /\ evicted <= seq
  /\ Elems(buffer) = Live(log, evicted)
  /\ \A k \in Keys : Mark(log, evicted, coalesced, k)

(* One more element, one element less. *)
LEMMA ElemsAppend ==
  ASSUME NEW q \in Seq(Nat), NEW n \in Nat
  PROVE  Elems(Append(q, n)) = Elems(q) \union {n}
<1>1. /\ Len(Append(q, n)) = Len(q) + 1 /\ Len(q) \in Nat
      /\ \A i \in 1..Len(q) : Append(q, n)[i] = q[i]
      /\ Append(q, n)[Len(q) + 1] = n
  BY AppendProperties
<1>2. \A i : i \in 1..Len(q) + 1 <=> i \in 1..Len(q) \/ i = Len(q) + 1
  BY <1>1
<1> QED
  BY <1>1, <1>2 DEF Elems

LEMMA ElemsTail ==
  ASSUME NEW q \in Seq(Nat), q # <<>>, Sorted(q)
  PROVE  /\ Head(q) \in Elems(q) /\ Tail(q) \in Seq(Nat)
         /\ Elems(Tail(q)) = {n \in Elems(q) : n > Head(q)}
         /\ \A n \in Elems(q) : n \in Nat /\ n >= Head(q)
<1>1. /\ Head(q) = q[1] /\ 1 \in 1..Len(q) /\ Len(q) \in Nat
      /\ Tail(q) \in Seq(Nat) /\ Len(Tail(q)) = Len(q) - 1
      /\ \A i \in 1..Len(Tail(q)) : Tail(q)[i] = q[i + 1]
  BY HeadTailProperties
<1>2. \A i \in 1..Len(q) : q[i] \in Nat /\ (i > 1 => q[1] < q[i])
  BY <1>1 DEF Sorted
<1>3. \A n \in Elems(q) : n \in Nat /\ n >= Head(q)
  BY <1>1, <1>2 DEF Elems
<1>4. Elems(Tail(q)) \subseteq {n \in Elems(q) : n > Head(q)}
  <2> SUFFICES ASSUME NEW i \in 1..Len(Tail(q))
      PROVE  Tail(q)[i] \in Elems(q) /\ Tail(q)[i] > Head(q)
    BY DEF Elems
  <2>1. i + 1 \in 1..Len(q) /\ i + 1 > 1 /\ Tail(q)[i] = q[i + 1]
    BY <1>1
  <2> QED
    BY <1>1, <1>2, <2>1 DEF Elems
<1>5. {n \in Elems(q) : n > Head(q)} \subseteq Elems(Tail(q))
  <2> SUFFICES ASSUME NEW i \in 1..Len(q), q[i] > Head(q)
      PROVE  q[i] \in Elems(Tail(q))
    BY DEF Elems
  <2>1. i # 1
    BY <1>1, <1>2
  <2>2. i - 1 \in 1..Len(Tail(q)) /\ (i - 1) + 1 = i
    BY <1>1, <2>1
  <2> QED
    BY <1>1, <2>2 DEF Elems
<1> QED
  BY <1>1, <1>3, <1>4, <1>5 DEF Elems

(* The superseded event is the one that leaves. *)
LEMMA ElemsCoalesce ==
  ASSUME TypeOK, BufferOrder, NEW key \in Keys \union {NoKey}
  PROVE  Elems(Coalesce(key)) =
           IF key = NoKey THEN Elems(buffer)
           ELSE {n \in Elems(buffer) : n # coalesced[key]}
<1>1. buffer \in Seq(Nat) /\ Len(buffer) \in Nat /\ DOMAIN buffer = 1..Len(buffer)
  BY DEF TypeOK
<1>2. CASE Superseded(key) = {}
  <2>1. key # NoKey => \A i \in 1..Len(buffer) : buffer[i] # coalesced[key]
    BY <1>1, <1>2 DEF Superseded
  <2> QED
    BY <1>2, <2>1 DEF Coalesce, Elems
<1>3. CASE Superseded(key) # {}
  <2>1. PICK i \in 1..Len(buffer) :
          /\ Coalesce(key) = RemoveAt(buffer, i)
          /\ key # NoKey /\ buffer[i] = coalesced[key]
    <3>1. (CHOOSE i \in Superseded(key) : TRUE) \in Superseded(key)
      BY <1>3
    <3> QED
      BY <1>1, <1>3, <3>1 DEF Superseded, Coalesce
  <2> DEFINE kept == RemoveAt(buffer, i)
  <2>2. /\ Len(kept) = Len(buffer) - 1
        /\ \A j \in 1..Len(buffer) - 1 :
             kept[j] = IF j < i THEN buffer[j] ELSE buffer[j + 1]
    BY <1>1, RemoveAtType
  <2> HIDE DEF kept
  <2>3. \A j \in 1..Len(buffer) : buffer[j] \in Nat /\ (j # i => buffer[j] # buffer[i])
    <3>1. \A j \in 1..Len(buffer) : buffer[j] \in Nat
      BY <1>1
    <3>2. \A j \in 1..Len(buffer) : j < i \/ i < j \/ j = i
      BY <1>1
    <3> QED
      BY <3>1, <3>2 DEF BufferOrder, Sorted
  <2>4. \A j \in 1..Len(kept) :
          \E a \in 1..Len(buffer) : a # i /\ kept[j] = buffer[a]
    <3> SUFFICES ASSUME NEW j \in 1..Len(kept)
        PROVE  \E a \in 1..Len(buffer) : a # i /\ kept[j] = buffer[a]
      OBVIOUS
    <3>1. j \in 1..Len(buffer) /\ j + 1 \in 1..Len(buffer) /\ j \in 1..Len(buffer) - 1
      BY <1>1, <2>2
    <3>2. CASE j < i
      BY <2>2, <3>1, <3>2
    <3>3. CASE ~(j < i)
      <4>1. j + 1 # i
        BY <3>1, <3>3
      <4> QED
        BY <2>2, <3>1, <3>3, <4>1
    <3> QED
      BY <3>2, <3>3
  <2>5. \A a \in 1..Len(buffer) :
          a # i => \E j \in 1..Len(kept) : kept[j] = buffer[a]
    <3> SUFFICES ASSUME NEW a \in 1..Len(buffer), a # i
        PROVE  \E j \in 1..Len(kept) : kept[j] = buffer[a]
      OBVIOUS
    <3>1. CASE a < i
      <4>1. a \in 1..Len(buffer) - 1
        BY <1>1, <3>1
      <4> QED
        BY <2>2, <3>1, <4>1
    <3>2. CASE ~(a < i)
      <4>1. a - 1 \in 1..Len(buffer) - 1 /\ ~(a - 1 < i) /\ (a - 1) + 1 = a
        BY <1>1, <3>2
      <4> QED
        BY <2>2, <4>1
    <3> QED
      BY <3>1, <3>2
  <2>6. Elems(kept) = {n \in Elems(buffer) : n # buffer[i]}
    <3>1. Elems(kept) \subseteq {n \in Elems(buffer) : n # buffer[i]}
      BY <2>3, <2>4 DEF Elems
    <3>2. ASSUME NEW n \in Elems(buffer), n # buffer[i] PROVE n \in Elems(kept)
      <4>1. PICK a \in 1..Len(buffer) : n = buffer[a]
        BY DEF Elems
      <4>2. PICK j \in 1..Len(kept) : kept[j] = buffer[a]
        BY <2>5, <3>2, <4>1
      <4> QED
        BY <4>1, <4>2 DEF Elems
    <3> QED
      BY <3>1, <3>2
  <2> QED
    BY <2>1, <2>6 DEF kept
<1> QED
  BY <1>2, <1>3

(* One more event supersedes the earlier ones of its key. *)
LEMMA LiveAppend ==
  ASSUME NEW lg \in Seq(Options), NEW opt \in Options, NEW ev \in Nat, ev <= Len(lg)
  PROVE  Live(Append(lg, opt), ev) =
           {n \in Live(lg, ev) : opt.key # NoKey => lg[n].key # opt.key}
             \union (IF opt.buffered THEN {Len(lg) + 1} ELSE {})
<1> DEFINE l2 == Append(lg, opt)
<1>1. /\ Len(l2) = Len(lg) + 1 /\ Len(lg) \in Nat
      /\ \A i \in 1..Len(lg) : l2[i] = lg[i]
      /\ l2[Len(lg) + 1] = opt
  BY AppendProperties
<1> HIDE DEF l2
<1>2. \A n : n \in ev + 1..Len(lg) => n \in 1..Len(lg) /\ n \in ev + 1..Len(l2)
  BY <1>1
<1>3. \A n : n \in ev + 1..Len(l2) <=> n \in ev + 1..Len(lg) \/ n = Len(lg) + 1
  BY <1>1
<1>4. Len(lg) + 1 \in Live(l2, ev) <=> opt.buffered
  <2>1. Len(lg) + 1 + 1..Len(l2) = {}
    BY <1>1
  <2> QED
    BY <1>1, <1>3, <2>1 DEF Live
<1>5. ASSUME NEW n \in ev + 1..Len(lg)
      PROVE  n \in Live(l2, ev) <=>
               n \in Live(lg, ev) /\ (opt.key # NoKey => lg[n].key # opt.key)
  <2>1. /\ l2[n] = lg[n]
        /\ \A m : m \in n + 1..Len(l2) <=> m \in n + 1..Len(lg) \/ m = Len(lg) + 1
        /\ \A m \in n + 1..Len(lg) : l2[m] = lg[m]
    BY <1>1, <1>2
  <2>2. (\A m \in n + 1..Len(l2) : l2[m].key # lg[n].key) <=>
          /\ \A m \in n + 1..Len(lg) : lg[m].key # lg[n].key
          /\ opt.key # lg[n].key
    BY <1>1, <2>1
  <2> QED
    BY <1>3, <2>1, <2>2 DEF Live
<1>6. /\ Live(l2, ev) \subseteq ev + 1..Len(l2)
      /\ Live(lg, ev) \subseteq ev + 1..Len(lg)
  BY DEF Live
<1> QED
  BY <1>3, <1>4, <1>5, <1>6 DEF l2

(* So the pointer of a key is the only live event of that key. *)
LEMMA LiveOfKey ==
  ASSUME NEW lg \in Seq(Options), NEW ev \in Nat, NEW co \in [Keys -> Nat],
         NEW k \in Keys, Mark(lg, ev, co, k)
  PROVE  \A n \in Live(lg, ev) : lg[n].key = k <=> n = co[k]
<1> SUFFICES ASSUME NEW n \in Live(lg, ev)
    PROVE  lg[n].key = k <=> n = co[k]
  OBVIOUS
<1>1. /\ n \in ev + 1..Len(lg) /\ n \in 1..Len(lg) /\ Len(lg) \in Nat
      /\ lg[n].key # NoKey => \A m \in n + 1..Len(lg) : lg[m].key # lg[n].key
  BY DEF Live
<1>2. n > ev /\ n # 0 /\ k # NoKey
  BY <1>1, ConstantsAssumption
<1>3. CASE co[k] = 0 /\ \A m \in 1..Len(lg) : lg[m].key = k => m <= ev
  BY <1>1, <1>2, <1>3
<1>4. CASE /\ co[k] \in ev + 1..Len(lg)
           /\ lg[co[k]].key = k
           /\ \A m \in 1..Len(lg) : lg[m].key = k => m <= co[k]
  <2>1. ASSUME lg[n].key = k PROVE n = co[k]
    <3>1. n <= co[k] /\ co[k] \notin n + 1..Len(lg)
      BY <1>1, <1>2, <1>4, <2>1
    <3> QED
      BY <1>1, <1>4, <3>1
  <2> QED
    BY <1>4, <2>1
<1> QED
  BY <1>3, <1>4 DEF Mark

(* An event that is not buffered takes nothing from the buffer. *)
LEMMA MarkAppend ==
  ASSUME NEW lg \in Seq(Options), NEW opt \in Options, NEW ev \in Nat, NEW co, NEW k,
         Mark(lg, ev, co, k), opt.key # k, co[k] \in Nat
  PROVE  Mark(Append(lg, opt), ev, co, k)
<1> DEFINE l2 == Append(lg, opt)
<1>1. /\ Len(l2) = Len(lg) + 1 /\ Len(lg) \in Nat
      /\ \A i \in 1..Len(lg) : l2[i] = lg[i]
      /\ l2[Len(lg) + 1] = opt
  BY AppendProperties
<1> HIDE DEF l2
<1>2. \A n \in 1..Len(l2) : n \in 1..Len(lg) \/ n = Len(lg) + 1
  BY <1>1
<1>3. \A n \in 1..Len(l2) : l2[n].key = k => n \in 1..Len(lg) /\ lg[n].key = k
  BY <1>1, <1>2
<1>4. co[k] \in ev + 1..Len(lg) => co[k] \in ev + 1..Len(l2) /\ co[k] \in 1..Len(lg)
  BY <1>1
<1>5. Mark(l2, ev, co, k)
  BY <1>1, <1>3, <1>4 DEF Mark
<1> QED
  BY <1>5 DEF l2

(* The oldest event leaves a full buffer, and its key is forgotten. *)
LEMMA Evict ==
  ASSUME NEW lg \in Seq(Options), NEW ev \in Nat, NEW co \in [Keys -> Nat],
         NEW h \in Live(lg, ev), \A n \in Live(lg, ev) : n >= h,
         \A k \in Keys : Mark(lg, ev, co, k)
  PROVE  /\ h \in ev + 1..Len(lg)
         /\ {n \in Live(lg, ev) : n > h} = Live(lg, h)
         /\ \A k \in Keys :
              Mark(lg, h, [j \in Keys |-> IF co[j] = h THEN 0 ELSE co[j]], k)
<1>1. h \in ev + 1..Len(lg) /\ Len(lg) \in Nat /\ h \in Nat
  BY DEF Live
<1>2. {n \in Live(lg, ev) : n > h} = Live(lg, h)
  <2>1. \A n : n \in ev + 1..Len(lg) /\ n > h <=> n \in h + 1..Len(lg)
    BY <1>1
  <2> QED
    BY <2>1 DEF Live
<1> DEFINE co2 == [j \in Keys |-> IF co[j] = h THEN 0 ELSE co[j]]
<1>3. ASSUME NEW k \in Keys PROVE Mark(lg, h, co2, k)
  <2>0. co2[k] = (IF co[k] = h THEN 0 ELSE co[k]) /\ co[k] \in Nat
    OBVIOUS
  <2> HIDE DEF co2
  <2>1. CASE co[k] = 0 /\ \A n \in 1..Len(lg) : lg[n].key = k => n <= ev
    BY <1>1, <2>0, <2>1 DEF Mark
  <2>2. CASE /\ co[k] \in ev + 1..Len(lg)
             /\ lg[co[k]].key = k
             /\ \A n \in 1..Len(lg) : lg[n].key = k => n <= co[k]
    <3>1. CASE co[k] = h
      BY <2>0, <2>2, <3>1 DEF Mark
    <3>2. CASE co[k] # h
      <4>1. co[k] \in 1..Len(lg) /\ lg[co[k]] \in Options /\ k # NoKey
        BY <1>1, <2>2, ConstantsAssumption
      <4>2. lg[co[k]].buffered
        BY <2>2, <4>1 DEF Options
      <4>3. \A m \in co[k] + 1..Len(lg) : lg[m].key # k
        BY <1>1, <2>0, <2>2
      <4>4. co[k] \in Live(lg, ev)
        BY <2>2, <4>2, <4>3 DEF Live
      <4>5. co[k] \in h + 1..Len(lg)
        BY <1>1, <2>0, <2>2, <3>2, <4>4
      <4> QED
        BY <2>0, <2>2, <3>2, <4>5 DEF Mark
    <3> QED
      BY <3>1, <3>2
  <2> QED
    BY <2>1, <2>2 DEF Mark
<1> QED
  BY <1>1, <1>2, <1>3

(* emit() buffers the event, supersedes, and evicts what overflows. *)
LEMMA CompleteEmit ==
  ASSUME TypeOK, BufferOrder, Complete, NEW e \in Emitters, Emit(e)
  PROVE  Complete'
<1>1. PICK opt \in Options :
        /\ log' = Append(log, opt)
        /\ IF opt.buffered THEN PushToBuffer(seq + 1, opt.key)
           ELSE UNCHANGED <<evicted, buffer, coalesced>>
  BY DEF Emit
<1>2. /\ log \in Seq(Options) /\ seq \in Nat /\ evicted \in Nat /\ evicted <= seq
      /\ coalesced \in [Keys -> Nat] /\ buffer \in Seq(Nat)
      /\ Capacity \in Nat \ {0}
  BY ConstantsAssumption DEF TypeOK, Complete
<1>3. /\ log' \in Seq(Options) /\ Len(log') = seq + 1
      /\ log'[seq + 1] = opt /\ \A n \in 1..seq : log'[n] = log[n]
  BY <1>1, <1>2, AppendProperties
<1>4. Live(log', evicted) =
        {n \in Live(log, evicted) : opt.key # NoKey => log[n].key # opt.key}
          \union (IF opt.buffered THEN {seq + 1} ELSE {})
  BY <1>1, <1>2, LiveAppend
<1>5. CASE ~opt.buffered
  <2>1. opt.key = NoKey
    BY <1>5 DEF Options
  <2>2. UNCHANGED <<evicted, buffer, coalesced>>
    BY <1>1, <1>5
  <2>3. Elems(buffer') = Live(log', evicted')
    BY <1>4, <1>5, <2>1, <2>2 DEF Complete
  <2>4. \A k \in Keys : Mark(log', evicted', coalesced', k)
    <3> SUFFICES ASSUME NEW k \in Keys PROVE Mark(log', evicted', coalesced', k)
      OBVIOUS
    <3>1. k # opt.key /\ coalesced[k] \in Nat /\ Mark(log, evicted, coalesced, k)
      BY <1>2, <2>1, ConstantsAssumption DEF Complete
    <3>2. Mark(Append(log, opt), evicted, coalesced, k)
      BY <1>2, <3>1, MarkAppend
    <3> QED
      BY <1>1, <2>2, <3>2
  <2> QED
    BY <1>2, <1>3, <2>2, <2>3, <2>4 DEF Complete
<1>6. CASE opt.buffered
  <2> DEFINE key == opt.key
             grown == Append(Coalesce(key), seq + 1)
             marked == IF key = NoKey THEN coalesced
                       ELSE [coalesced EXCEPT ![key] = seq + 1]
  <2>1. key \in Keys \union {NoKey}
    BY DEF Options
  <2>2. IF Len(grown) <= Capacity
        THEN buffer' = grown /\ coalesced' = marked /\ UNCHANGED evicted
        ELSE /\ buffer' = Tail(grown)
             /\ evicted' = Head(grown)
             /\ coalesced' = [k \in Keys |-> IF marked[k] = Head(grown) THEN 0
                                           ELSE marked[k]]
    BY <1>1, <1>6 DEF PushToBuffer
  <2>3. /\ grown \in Seq(Nat) /\ grown # <<>>
        /\ Elems(grown) = Elems(Coalesce(key)) \union {seq + 1}
    <3>1. Coalesce(key) \in Seq(Nat) /\ seq + 1 \in Nat
      BY <1>2, <2>1, CoalesceType
    <3> QED
      BY <3>1, AppendProperties, ElemsAppend
  <2>4. Elems(grown) = Live(log', evicted)
    <3>1. CASE key = NoKey
      BY <1>4, <1>6, <2>1, <2>3, <3>1, ElemsCoalesce DEF Complete
    <3>2. CASE key # NoKey
      <4>1. Mark(log, evicted, coalesced, key) /\ key \in Keys
        BY <2>1, <3>2 DEF Complete
      <4>2. \A n \in Live(log, evicted) : log[n].key = key <=> n = coalesced[key]
        BY <1>2, <4>1, LiveOfKey
      <4>3. Elems(Coalesce(key)) = {n \in Live(log, evicted) : n # coalesced[key]}
        BY <2>1, <3>2, ElemsCoalesce DEF Complete
      <4> QED
        BY <1>4, <1>6, <2>3, <3>2, <4>2, <4>3
    <3> QED
      BY <3>1, <3>2
  <2>5. marked \in [Keys -> Nat]
    BY <1>2, <2>1
  <2>6. \A k \in Keys : Mark(log', evicted, marked, k)
    <3> SUFFICES ASSUME NEW k \in Keys PROVE Mark(log', evicted, marked, k)
      OBVIOUS
    <3>0. k # NoKey
      BY ConstantsAssumption
    <3>1. CASE k = key
      <4>1. marked[k] = seq + 1
        BY <1>2, <3>0, <3>1
      <4>2. seq + 1 \in evicted + 1..seq + 1 /\ \A n \in 1..seq + 1 : n <= seq + 1
        BY <1>2
      <4> HIDE DEF marked
      <4> QED
        BY <1>3, <3>1, <4>1, <4>2 DEF Mark
    <3>2. CASE k # key
      <4>1. marked[k] = coalesced[k] /\ coalesced[k] \in Nat
        BY <1>2, <3>2
      <4> HIDE DEF marked
      <4>2. Mark(log, evicted, marked, k)
        BY <4>1 DEF Complete, Mark
      <4>3. Mark(Append(log, opt), evicted, marked, k)
        BY <1>2, <3>2, <4>1, <4>2, MarkAppend
      <4> QED
        BY <1>1, <4>3
    <3> QED
      BY <3>1, <3>2
  <2>7. Sorted(grown)
    <3>1. /\ Coalesce(key) \in Seq(Nat) /\ Sorted(Coalesce(key))
          /\ Within(Coalesce(key), 0, seq)
      BY <2>1, CoalesceSorted
    <3> QED
      BY <1>2, <3>1, AppendSorted
  <2> HIDE DEF grown, marked, key
  <2>8. CASE Len(grown) <= Capacity
    BY <1>2, <1>3, <2>2, <2>4, <2>6, <2>8 DEF Complete
  <2>9. CASE ~(Len(grown) <= Capacity)
    <3> DEFINE h == Head(grown)
               co2 == [k \in Keys |-> IF marked[k] = h THEN 0 ELSE marked[k]]
    <3>1. /\ h \in Live(log', evicted) /\ \A n \in Live(log', evicted) : n >= h
          /\ Elems(Tail(grown)) = {n \in Live(log', evicted) : n > h}
      BY <2>3, <2>4, <2>7, ElemsTail
    <3>2. buffer' = Tail(grown) /\ evicted' = h /\ coalesced' = co2
      BY <2>2, <2>9
    <3> HIDE DEF h
    <3>3. /\ h \in evicted + 1..seq + 1
          /\ {n \in Live(log', evicted) : n > h} = Live(log', h)
          /\ \A k \in Keys : Mark(log', h, co2, k)
      <4>1. /\ log' \in Seq(Options) /\ evicted \in Nat
            /\ marked \in [Keys -> Nat] /\ Len(log') = seq + 1
            /\ h \in Live(log', evicted) /\ \A n \in Live(log', evicted) : n >= h
            /\ \A k \in Keys : Mark(log', evicted, marked, k)
        BY <1>2, <1>3, <2>5, <2>6, <3>1
      <4>2. /\ h \in evicted + 1..Len(log')
            /\ {n \in Live(log', evicted) : n > h} = Live(log', h)
            /\ \A k \in Keys : Mark(log', h, co2, k)
        BY ONLY <4>1, Evict
      <4> QED
        BY <4>1, <4>2
    <3> HIDE DEF co2
    <3>4. h <= Len(log')
      BY <1>2, <1>3, <3>3
    <3> QED
      BY <3>1, <3>2, <3>3, <3>4 DEF Complete
  <2> QED
    BY <2>8, <2>9
<1> QED
  BY <1>5, <1>6

(* Nothing else touches the buffer. *)
LEMMA CompleteStep == TypeOK /\ Order /\ Complete /\ [Next]_vars => Complete'
<1> SUFFICES ASSUME TypeOK, Order, Complete, [Next]_vars PROVE Complete'
  OBVIOUS
<1>1. ASSUME NEW e \in Emitters, Emit(e) PROVE Complete'
  BY <1>1, CompleteEmit DEF Order
<1>2. ASSUME UNCHANGED bufferVars PROVE Complete'
  BY <1>2 DEF bufferVars, Complete
<1>3. ASSUME NEW e \in Emitters, EmitterStep(e) PROVE UNCHANGED bufferVars
  BY <1>3 DEF EmitterStep, DrainCall, DrainPop, DrainStop
<1>4. ASSUME NEW s \in Subs, Subscribe(s) \/ SubscriberStep(s) \/ Unsubscribe(s)
      PROVE  UNCHANGED bufferVars
  BY <1>4 DEF Subscribe, Register, SubscriberStep, ReplayNext, ReplayEnd, FlushPop,
              Open, CatchUpCall, Unsubscribe, Erase
<1>5. ASSUME ObserverStep PROVE UNCHANGED bufferVars
  BY <1>5 DEF ObserverStep, ObserverTake, ObserverErase, Erase, ObserverSubscribe,
              Register, ObserverStore
<1>6. CASE UNCHANGED vars
  BY <1>2, <1>6 DEF vars
<1> QED
  BY <1>1, <1>2, <1>3, <1>4, <1>5, <1>6 DEF Next

(* A client that resumes from a sequence number the capacity has not yet   *)
(* pushed out misses nothing durable: whatever the keys and the order of   *)
(* the events, the buffer holds exactly the buffered events above the last *)
(* evicted one that no later event of their key replaced (push_to_buffer). *)
THEOREM BufferCompleteCorrect == Spec => []BufferComplete
<1>1. Init => TypeOK /\ Ownership /\ Order
  BY TypeOKInit, OwnershipInit, OrderInit
<1>2. TypeOK /\ Ownership /\ Order /\ [Next]_vars => (TypeOK /\ Ownership /\ Order)'
  BY TypeOKStep, OwnershipStep, OrderStep
<1>3. Init => Complete
  BY DEF Init, Complete, Elems, Live, Mark
<1>4. TypeOK /\ Complete => BufferComplete
  <2> SUFFICES ASSUME TypeOK, Complete PROVE BufferComplete
    OBVIOUS
  <2>1. DOMAIN buffer = 1..Len(buffer)
    BY DEF TypeOK
  <2>2. Live(log, evicted) = {n \in evicted + 1..seq : log[n].buffered /\ ~Replaced(n)}
    BY DEF Live, Replaced
  <2> QED
    BY <2>1, <2>2 DEF Complete, Elems, BufferComplete
<1> QED
  BY <1>1, <1>2, <1>3, <1>4, CompleteStep, PTL DEF Spec
=============================================================================
