--------------------------- MODULE OrderedDelivery ---------------------------
(***************************************************************************)
(* What EventDispatcher promises its clients, without threads or locks:    *)
(* every member of the broadcast owns one queue of events still owed to it *)
(* (what it resumes from, then every event emitted since), and receives    *)
(* that queue one event at a time, from its head, and nothing else.  A     *)
(* member that leaves may still receive a prefix of what it was owed.      *)
(***************************************************************************)
EXTENDS Integers, Sequences

CONSTANT Subs              \* identities of subscriptions, used once each

VARIABLES
  emitted,                 \* how many events exist: they are 1..emitted
  fresh,                   \* the subscriptions that were never opened
  members,                 \* the subscriptions that are open
  todo,                    \* todo[s]: the events still owed to s, in order
  delivered                \* delivered[s]: the events s has received, in order

vars == <<emitted, fresh, members, todo, delivered>>

Increasing(q) == \A i, j \in 1..Len(q) : i < j => q[i] < q[j]

Init ==
  /\ emitted = 0
  /\ fresh = Subs
  /\ members = {}
  /\ todo = [s \in Subs |-> <<>>]
  /\ delivered = [s \in Subs |-> <<>>]

Emit ==
  /\ emitted' = emitted + 1
  /\ todo' = [s \in Subs |->
                IF s \in members THEN Append(todo[s], emitted') ELSE todo[s]]
  /\ UNCHANGED <<fresh, members, delivered>>

(* A subscription opens with some of the past events, in their order. *)
Join(s) ==
  /\ s \in fresh
  /\ fresh' = fresh \ {s}
  /\ members' = members \union {s}
  /\ todo' = [todo EXCEPT ![s] = todo'[s]]
  /\ todo'[s] \in Seq(1..emitted)
  /\ Increasing(todo'[s])
  /\ UNCHANGED <<emitted, delivered>>

Deliver(s) ==
  /\ todo[s] # <<>>
  /\ delivered' = [delivered EXCEPT ![s] = Append(@, Head(todo[s]))]
  /\ todo' = [todo EXCEPT ![s] = Tail(@)]
  /\ UNCHANGED <<emitted, fresh, members>>

Leave(s) ==
  /\ s \in members
  /\ members' = members \ {s}
  /\ \E n \in 0..Len(todo[s]) : todo' = [todo EXCEPT ![s] = SubSeq(@, 1, n)]
  /\ UNCHANGED <<emitted, fresh, delivered>>

Next ==
  \/ Emit
  \/ \E s \in Subs : Join(s) \/ Deliver(s) \/ Leave(s)

Spec == Init /\ [][Next]_vars
=============================================================================
