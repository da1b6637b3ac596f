------------------------- MODULE LoopSchedulerProofs -------------------------
(***************************************************************************)
(* Proofs about LoopScheduler: types, every occurrence in exactly one      *)
(* record, no run that catches up, and a history that follows its sessions *)
(* and does not open a settled run again.                                  *)
(***************************************************************************)
EXTENDS LoopScheduler, FiniteSetTheorems, WellFoundedInduction, TLAPS

(* Least and greatest elements, which next_occurrence_ms and the sweep of  *)
(* missed occurrences look for.                                            *)
LEMMA MinOfNats ==
  ASSUME NEW T \in SUBSET Nat, T # {}
  PROVE  Min(T) \in T /\ \A t \in T : Min(T) <= t
<1>1. \E x \in T : \A y \in T : ~(<<y, x>> \in OpToRel(<, Nat))
  BY NatLessThanWellFounded, WFMin
<1>2. ASSUME NEW x \in Nat, NEW y \in Nat PROVE <<y, x>> \notin OpToRel(<, Nat) => x <= y
  BY DEF OpToRel
<1>3. \E x \in T : \A y \in T : x <= y
  BY <1>1, <1>2
<1> QED BY <1>3 DEF Min

LEMMA MaxOfNats ==
  ASSUME NEW T \in SUBSET Nat, T # {}, NEW n \in Nat, \A t \in T : t <= n
  PROVE  Max(T) \in T /\ \A t \in T : t <= Max(T)
<1> DEFINE U == {m \in Nat : \A t \in T : t <= m}
           m == Min(U)
<1>1. m \in U /\ \A u \in U : m <= u
  BY MinOfNats
<1> HIDE DEF m
<1>2. m \in T
  <2>1. ASSUME m \notin T PROVE FALSE
    <3>1. \A t \in T : t <= m - 1
      BY <1>1, <2>1
    <3>2. PICK t \in T : t <= m - 1 /\ t \in Nat
      BY <3>1
    <3>3. m - 1 \in Nat
      BY <1>1, <3>2
    <3> QED BY <1>1, <3>1, <3>3
  <2> QED BY <2>1
<1>3. \E x \in T : \A y \in T : x >= y
  BY <1>1, <1>2
<1>4. Max(T) \in T /\ \A t \in T : Max(T) >= t
  BY <1>3 DEF Max
<1> QED BY <1>4

LEMMA Clock == MaxTime \in Nat /\ Never = MaxTime + 1 /\ Times = 1..MaxTime /\ Grace \in Nat
               /\ Occurs \in [Loops -> SUBSET Times]
BY ConstantsAssumption DEF Never, Times

(* next_occurrence_ms.                                                     *)
LEMMA NextIs ==
  ASSUME NEW l \in Loops, NEW t \in Int
  PROVE  /\ NextAfter(l, t) \in 1..Never
         /\ \/ NextAfter(l, t) = Never /\ \A o \in Occurs[l] : o <= t
            \/ NextAfter(l, t) \in Occurs[l]
         /\ NextAfter(l, t) # Never => NextAfter(l, t) > t
         /\ \A o \in Occurs[l] : t < o => NextAfter(l, t) <= o
<1> DEFINE later == {o \in Occurs[l] : o > t}
<1>0. Occurs[l] \subseteq 1..MaxTime /\ MaxTime \in Nat /\ Never = MaxTime + 1
  BY Clock
<1>1. CASE later = {}
  BY <1>0, <1>1 DEF NextAfter
<1>2. CASE later # {}
  <2>1. Min(later) \in later /\ \A o \in later : Min(later) <= o
    BY <1>0, <1>2, MinOfNats
  <2>2. NextAfter(l, t) = Min(later)
    BY <1>2 DEF NextAfter
  <2> HIDE DEF later
  <2>3. NextAfter(l, t) \in Occurs[l] /\ NextAfter(l, t) > t
    BY <2>1, <2>2 DEF later
  <2> QED BY <1>0, <2>1, <2>2, <2>3 DEF later
<1> QED BY <1>1, <1>2

-----------------------------------------------------------------------------
(* Types.                                                                  *)

Statuses == {"running", "waiting", "settled", "offline", "busy"}
RowType == [loop : Loops, at : Times, count : 1..MaxTime, status : Statuses,
            owner : Daemons \union {"nobody"}, started : 0..Never]
LoopType == [is : {"absent", "on", "off", "deleted"}, next : 1..Never]
SessionType == [owner : Daemons \union {"nobody"}, state : {"none", "busy", "waiting", "over"},
                write : {"none", "waiting", "settled"}]
SeenType == [at : 0..MaxTime, run : Runs \union {<<>>}, deadline : 1..Never]

Launching(d) == pc[d] \in {"launch", "disable", "send"}

Typed ==
  /\ TypeOK
  /\ runs \subseteq RowType
  /\ seen \in [Daemons -> SeenType]
  /\ \A d \in Daemons : seen[d].at <= now /\ (Launching(d) => seen[d].run \in Runs)
  /\ \A l \in Loops : loop[l].next = Never \/ loop[l].next \in Occurs[l]

(* A record whose status alone changes.                                    *)
Same(r, s) ==
  r.loop = s.loop /\ r.at = s.at /\ r.count = s.count /\ r.owner = s.owner /\ r.started = s.started

Key(r) == <<r.loop, r.at>>

LEMMA RowFields ==
  ASSUME NEW r \in RowType, NEW status \in Statuses
  PROVE  LET s == [r EXCEPT !.status = status]
         IN  s \in RowType /\ Same(r, s) /\ s.status = status
BY DEF RowType, Same

LEMMA RowIs ==
  ASSUME NEW l, NEW at, NEW count, NEW status, NEW owner, NEW started
  PROVE  LET r == Row(l, at, count, status, owner, started)
         IN  /\ r.loop = l /\ r.at = at /\ r.count = count /\ r.status = status
             /\ r.owner = owner /\ r.started = started
             /\ (/\ l \in Loops /\ at \in Times /\ count \in 1..MaxTime /\ status \in Statuses
                 /\ owner \in Daemons \union {"nobody"} /\ started \in 0..Never) => r \in RowType
BY DEF Row, RowType

RowOK(r) == r.at \in Occurs[r.loop] /\ loop[r.loop].is \in {"on", "off"}

LEMMA TypedIs ==
  Typed <=> /\ now \in 0..MaxTime /\ edits \in 0..MaxEdits
            /\ loop \in [Loops -> LoopType] /\ since \in [Loops -> 0..MaxTime]
            /\ runs \subseteq RowType /\ \A r \in runs : RowOK(r)
            /\ main \in [Daemons -> {"off", "up", "flag", "notified", "stopped", "gone"}]
            /\ pc \in [Daemons -> {"none", "sweep", "claim", "launch", "disable", "send",
                                   "look", "enter", "wait", "end"}]
            /\ seen \in [Daemons -> SeenType]
            /\ web \in [Daemons -> {"idle", "notify"}]
            /\ session \in [Runs -> SessionType]
            /\ \A d \in Daemons : seen[d].at <= now /\ (Launching(d) => seen[d].run \in Runs)
            /\ \A l \in Loops : loop[l].next = Never \/ loop[l].next \in Occurs[l]
BY DEF Typed, TypeOK, LoopType, RowType, Statuses, SeenType, SessionType, RowOK

LEMMA TypedIsNext ==
  Typed' <=> /\ now' \in 0..MaxTime /\ edits' \in 0..MaxEdits
             /\ loop' \in [Loops -> LoopType] /\ since' \in [Loops -> 0..MaxTime]
             /\ runs' \subseteq RowType /\ \A r \in runs' : RowOK(r)'
             /\ main' \in [Daemons -> {"off", "up", "flag", "notified", "stopped", "gone"}]
             /\ pc' \in [Daemons -> {"none", "sweep", "claim", "launch", "disable", "send",
                                     "look", "enter", "wait", "end"}]
             /\ seen' \in [Daemons -> SeenType]
             /\ web' \in [Daemons -> {"idle", "notify"}]
             /\ session' \in [Runs -> SessionType]
             /\ \A d \in Daemons : seen'[d].at <= now' /\ (Launching(d)' => seen'[d].run \in Runs)
             /\ \A l \in Loops : loop'[l].next = Never \/ loop'[l].next \in Occurs[l]
BY DEF Typed, TypeOK, LoopType, RowType, Statuses, SeenType, SessionType, RowOK

LEMMA UnseenType == Unseen \in SeenType /\ Unseen.at = 0
BY Clock DEF Unseen, SeenType

LEMMA InitTyped == Init => Typed
<1> SUFFICES ASSUME Init PROVE Typed
  OBVIOUS
<1>1. loop \in [Loops -> LoopType] /\ \A l \in Loops : loop[l].next = Never \/ loop[l].next \in Occurs[l]
  <2>1. \A l \in Loops : NextAfter(l, 0) \in 1..Never
                         /\ (NextAfter(l, 0) = Never \/ NextAfter(l, 0) \in Occurs[l])
    BY NextIs
  <2>2. Never \in 1..Never
    BY Clock
  <2> QED BY <2>1, <2>2 DEF Init, LoopType
<1> QED
  BY <1>1, UnseenType, TypedIs, Clock, ConstantsAssumption
  DEF Init, Launching, SessionType, NoSession

-----------------------------------------------------------------------------
(* What no step but those of the scheduler tables touches.                 *)
tableVars == <<loop, since, runs>>

LEMMA AgainType ==
  ASSUME Typed, NEW d \in Daemons, NEW from, Again(d, from), UNCHANGED <<now, edits, main, web, session>>,
         loop' \in [Loops -> LoopType], since' \in [Loops -> 0..MaxTime], runs' \subseteq RowType,
         \A r \in runs' : RowOK(r)',
         \A l \in Loops : loop'[l].next = Never \/ loop'[l].next \in Occurs[l]
  PROVE  Typed'
<1>1. pc' = [pc EXCEPT ![d] = "sweep"] /\ seen' = [seen EXCEPT ![d] = Unseen]
  BY DEF Again, Go
<1>2. \A e \in Daemons : seen'[e].at <= now /\ (Launching(e)' => seen'[e].run \in Runs)
  BY <1>1, UnseenType, TypedIs DEF Launching
<1> QED BY <1>1, <1>2, UnseenType, TypedIs, TypedIsNext

-----------------------------------------------------------------------------
(* The operations of the store, one by one.                                *)

(* The occurrences from a to b.                                            *)
Between(l, a, b) == {o \in Occurs[l] : a <= o /\ o <= b}

LEMMA BetweenIs ==
  ASSUME NEW l \in Loops, NEW a \in Nat, NEW b \in Int, a \in Occurs[l], a <= b, b <= MaxTime
  PROVE  /\ Max(Between(l, a, b)) \in Between(l, a, b)
         /\ \A o \in Between(l, a, b) : o <= Max(Between(l, a, b))
         /\ IsFiniteSet(Between(l, a, b))
         /\ Cardinality(Between(l, a, b)) \in 1..MaxTime
<1> DEFINE T == Between(l, a, b)
<1>0. a \in 1..MaxTime /\ MaxTime \in Nat /\ T \subseteq 1..MaxTime /\ a \in T
  BY Clock DEF Between
<1>1. Max(T) \in T /\ \A o \in T : o <= Max(T)
  <2>1. T \in SUBSET Nat /\ T # {} /\ \A t \in T : t <= MaxTime
    BY <1>0
  <2> HIDE DEF T
  <2> QED BY <1>0, <2>1, MaxOfNats
<1>2. IsFiniteSet(1..MaxTime) /\ Cardinality(1..MaxTime) = MaxTime
  BY <1>0, FS_Interval
<1>3. IsFiniteSet(T) /\ Cardinality(T) <= MaxTime
  BY <1>0, <1>2, FS_Subset
<1>4. Cardinality(T) \in Nat /\ Cardinality(T) # 0
  BY <1>0, <1>3, FS_CardinalityType, FS_EmptySet
<1> QED BY <1>1, <1>3, <1>4, <1>0

Late(cutoff) == {l \in Loops : loop[l].is = "on" /\ loop[l].next < cutoff}

(* A row that the sweep adds for l.                                        *)
Swept(l, cutoff, r) ==
  LET past == Between(l, loop[l].next, cutoff)
  IN  r.loop = l /\ r.at = Max(past) /\ r.count = Cardinality(past) /\ r.status = "offline"
      /\ r.owner = "nobody" /\ r.started = Never

LEMMA SweepIs ==
  ASSUME Typed, NEW cutoff \in Int, cutoff <= now, RecordMissed(cutoff)
  PROVE  /\ loop' \in [Loops -> LoopType]
         /\ \A l \in Loops : loop'[l].next = Never \/ loop'[l].next \in Occurs[l]
         /\ \A l \in Loops \ Late(cutoff) : loop'[l] = loop[l]
         /\ \A l \in Late(cutoff) : /\ loop'[l].is = "on" /\ loop'[l].next = NextAfter(l, cutoff)
                                    /\ loop[l].next \in Occurs[l] /\ cutoff < loop'[l].next
         /\ runs' \subseteq RowType /\ \A r \in runs' : RowOK(r)'
         /\ runs \subseteq runs'
         /\ \A r \in runs' \ runs : \E l \in Late(cutoff) : Swept(l, cutoff, r)
         /\ \A l \in Late(cutoff) : \E r \in runs' : Swept(l, cutoff, r)
<1>0. /\ now \in 0..MaxTime /\ loop \in [Loops -> LoopType] /\ runs \subseteq RowType
      /\ \A r \in runs : RowOK(r)
      /\ \A l \in Loops : loop[l].next = Never \/ loop[l].next \in Occurs[l]
      /\ MaxTime \in Nat /\ Never = MaxTime + 1
  BY TypedIs, Clock
<1> DEFINE row(l) == Missed(l, Max(Between(l, loop[l].next, cutoff)),
                            Cardinality(Between(l, loop[l].next, cutoff)), "offline")
<1>1. runs' = runs \union {row(l) : l \in Late(cutoff)}
  BY DEF RecordMissed, Late, Between
<1>2. loop' = [l \in Loops |-> IF l \in Late(cutoff) THEN [loop[l] EXCEPT !.next = NextAfter(l, cutoff)]
                                                     ELSE loop[l]]
  BY DEF RecordMissed, Late
<1>3. ASSUME NEW l \in Late(cutoff)
      PROVE  /\ l \in Loops /\ loop[l].next \in Occurs[l] /\ loop[l].next \in Nat /\ loop[l].next <= cutoff
             /\ cutoff <= MaxTime
             /\ NextAfter(l, cutoff) \in 1..Never /\ cutoff < NextAfter(l, cutoff)
             /\ (NextAfter(l, cutoff) = Never \/ NextAfter(l, cutoff) \in Occurs[l])
  <2>1. l \in Loops /\ loop[l].next < cutoff /\ cutoff <= MaxTime /\ loop[l].next \in 1..Never
    BY <1>0 DEF Late, LoopType
  <2> QED BY <1>0, <2>1, NextIs
<1>4. ASSUME NEW l \in Late(cutoff)
      PROVE  Swept(l, cutoff, row(l)) /\ row(l) \in RowType /\ row(l).at \in Occurs[l]
  <2> DEFINE past == Between(l, loop[l].next, cutoff)
  <2>1. Max(past) \in past /\ Cardinality(past) \in 1..MaxTime
    BY <1>3, BetweenIs
  <2>2. Max(past) \in Occurs[l] /\ Max(past) \in Times
    BY <1>3, <2>1, Clock DEF Between
  <2>3. Never \in 0..Never /\ "offline" \in Statuses
    BY Clock DEF Statuses
  <2> HIDE DEF past
  <2>4. /\ row(l).loop = l /\ row(l).at = Max(past) /\ row(l).count = Cardinality(past)
        /\ row(l).status = "offline" /\ row(l).owner = "nobody" /\ row(l).started = Never
        /\ row(l) \in RowType
    BY <1>3, <2>1, <2>2, <2>3, RowIs DEF Missed, past
  <2> QED BY <2>2, <2>4 DEF Swept, past
<1> HIDE DEF row
<1>5. /\ loop' \in [Loops -> LoopType]
      /\ \A l \in Loops \ Late(cutoff) : loop'[l] = loop[l]
      /\ \A l \in Late(cutoff) : loop'[l].is = "on" /\ loop'[l].next = NextAfter(l, cutoff)
  BY <1>0, <1>2, <1>3 DEF LoopType, Late
<1>6. \A l \in Loops : loop'[l].is = loop[l].is
  BY <1>5 DEF Late
<1>7. \A r \in runs' : RowOK(r)'
  <2>1. \A r \in runs : RowOK(r)'
    BY <1>0, <1>6 DEF RowOK, RowType
  <2>2. ASSUME NEW r, NEW l \in Late(cutoff), r = row(l) PROVE RowOK(r)'
    BY <1>4, <1>5, <2>2 DEF RowOK, Swept
  <2> QED BY <1>1, <2>1, <2>2
<1> QED BY <1>0, <1>1, <1>3, <1>4, <1>5, <1>7

LEMMA UpdateIs ==
  ASSUME Typed, NEW k, NEW status \in Statuses, UpdateRun(k, status), loop' = loop
  PROVE  /\ runs' \subseteq RowType /\ \A r \in runs' : RowOK(r)'
         /\ \A s \in runs' : \E r \in runs : Same(r, s) /\ Key(s) = Key(r)
                               /\ s.status = IF Key(r) = k THEN status ELSE r.status
         /\ \A r \in runs : \E s \in runs' : Same(r, s) /\ Key(s) = Key(r)
<1>0. runs \subseteq RowType /\ \A r \in runs : RowOK(r)
  BY TypedIs
<1> DEFINE f(r) == IF Key(r) = k THEN [r EXCEPT !.status = status] ELSE r
<1>1. runs' = {f(r) : r \in runs}
  BY DEF UpdateRun, Key
<1>2. ASSUME NEW r \in runs
      PROVE  /\ f(r) \in RowType /\ Same(r, f(r)) /\ Key(f(r)) = Key(r)
             /\ f(r).status = IF Key(r) = k THEN status ELSE r.status
             /\ RowOK(f(r))'
  <2>1. f(r) \in RowType /\ Same(r, f(r)) /\ f(r).status = IF Key(r) = k THEN status ELSE r.status
    BY <1>0, RowFields DEF Same
  <2> HIDE DEF f
  <2> QED BY <1>0, <2>1 DEF Same, RowOK, Key
<1> HIDE DEF f
<1> QED BY <1>1, <1>2

LEMMA RescheduleIs ==
  ASSUME Typed, NEW l \in Loops, NEW is \in {"on", "off"}, Reschedule(l, is)
  PROVE  /\ loop' \in [Loops -> LoopType]
         /\ \A m \in Loops : loop'[m].next = Never \/ loop'[m].next \in Occurs[m]
         /\ \A m \in Loops \ {l} : loop'[m] = loop[m] /\ since'[m] = since[m]
         /\ loop'[l].is = is /\ since'[l] = now /\ since' \in [Loops -> 0..MaxTime]
         /\ is = "on" => loop'[l].next = NextAfter(l, now) /\ now < loop'[l].next
<1>0. now \in 0..MaxTime /\ loop \in [Loops -> LoopType] /\ since \in [Loops -> 0..MaxTime]
      /\ MaxTime \in Nat /\ Never = MaxTime + 1
      /\ \A m \in Loops : loop[m].next = Never \/ loop[m].next \in Occurs[m]
  BY TypedIs, Clock
<1>1. NextAfter(l, now) \in 1..Never /\ now < NextAfter(l, now) /\ NextAfter(l, now) \in Occurs[l]
  BY <1>0, NextIs DEF Reschedule
<1> QED BY <1>0, <1>1 DEF Reschedule, LoopType

(* The first due LOOP is recorded, and goes on to its next occurrence.      *)
Claimed(l, d, r) ==
  /\ r.loop = l /\ r.at = loop[l].next /\ r.count = 1
  /\ \/ r.status = "busy" /\ r.owner = "nobody" /\ Again(d, "claim")
     \/ /\ r.status = "running" /\ r.owner = d /\ r.started = seen[d].at
        /\ Go(d, "claim", "launch")
        /\ seen' = [seen EXCEPT ![d] = [Unseen EXCEPT !.run = <<l, loop[l].next>>]]

LEMMA ClaimIs ==
  ASSUME Typed, NEW d \in Daemons, Claim(d), pc'[d] # "look"
  PROVE  \E l \in Loops, r \in RowType :
           /\ loop[l].is = "on" /\ loop[l].next \in Occurs[l] /\ loop[l].next <= seen[d].at
           /\ loop' = [loop EXCEPT ![l].next = NextAfter(l, loop[l].next)]
           /\ runs' = runs \union {r}
           /\ Claimed(l, d, r)
<1>0. /\ now \in 0..MaxTime /\ loop \in [Loops -> LoopType] /\ seen \in [Daemons -> SeenType]
      /\ seen[d].at <= now /\ MaxTime \in Nat /\ Never = MaxTime + 1 /\ Times = 1..MaxTime
      /\ \A l \in Loops : loop[l].next = Never \/ loop[l].next \in Occurs[l]
      /\ pc \in [Daemons -> {"none", "sweep", "claim", "launch", "disable", "send",
                             "look", "enter", "wait", "end"}]
  BY TypedIs, Clock
<1>1. PICK l \in Loops :
        /\ loop[l].is = "on" /\ loop[l].next <= seen[d].at
        /\ loop' = [loop EXCEPT ![l].next = NextAfter(l, loop[l].next)]
        /\ \/ runs' = runs \union {Missed(l, loop[l].next, 1, "busy")} /\ Again(d, "claim")
           \/ /\ runs' = runs \union {Row(l, loop[l].next, 1, "running", d, seen[d].at)}
              /\ Go(d, "claim", "launch")
              /\ seen' = [seen EXCEPT ![d] = [Unseen EXCEPT !.run = <<l, loop[l].next>>]]
  BY <1>0 DEF Claim, Go
<1>2. /\ loop[l].next \in Occurs[l] /\ loop[l].next \in Times /\ 1 \in 1..MaxTime
      /\ seen[d].at \in 0..MaxTime /\ seen[d].at \in 0..Never /\ Never \in 0..Never
  <2>1. loop[l].next \in 1..Never /\ seen[d].at \in 0..MaxTime
    BY <1>0 DEF LoopType, SeenType
  <2> QED BY <1>0, <1>1, <2>1
<1>3. CASE runs' = runs \union {Missed(l, loop[l].next, 1, "busy")} /\ Again(d, "claim")
  <2> DEFINE r == Missed(l, loop[l].next, 1, "busy")
  <2>1. "busy" \in Statuses
    BY DEF Statuses
  <2>2. /\ r \in RowType /\ r.loop = l /\ r.at = loop[l].next /\ r.count = 1 /\ r.status = "busy"
        /\ r.owner = "nobody"
    BY <1>2, <2>1, RowIs DEF Missed
  <2> QED BY <1>1, <1>2, <1>3, <2>2 DEF Claimed
<1>4. CASE /\ runs' = runs \union {Row(l, loop[l].next, 1, "running", d, seen[d].at)}
           /\ Go(d, "claim", "launch")
           /\ seen' = [seen EXCEPT ![d] = [Unseen EXCEPT !.run = <<l, loop[l].next>>]]
  <2> DEFINE r == Row(l, loop[l].next, 1, "running", d, seen[d].at)
  <2>1. "running" \in Statuses
    BY DEF Statuses
  <2>2. /\ r \in RowType /\ r.loop = l /\ r.at = loop[l].next /\ r.count = 1 /\ r.status = "running"
        /\ r.owner = d /\ r.started = seen[d].at
    BY <1>2, <2>1, RowIs
  <2> QED BY <1>1, <1>2, <1>4, <2>2 DEF Claimed
<1> QED BY <1>1, <1>3, <1>4

LEMMA ClaimTable ==
  ASSUME Typed, NEW l \in Loops, NEW r \in RowType,
         loop[l].is = "on", loop[l].next \in Occurs[l],
         loop' = [loop EXCEPT ![l].next = NextAfter(l, loop[l].next)],
         runs' = runs \union {r}, r.loop = l, r.at = loop[l].next
  PROVE  /\ loop' \in [Loops -> LoopType]
         /\ \A m \in Loops : loop'[m].next = Never \/ loop'[m].next \in Occurs[m]
         /\ \A m \in Loops \ {l} : loop'[m] = loop[m]
         /\ loop'[l].is = "on" /\ loop'[l].next = NextAfter(l, loop[l].next)
         /\ loop[l].next < loop'[l].next
         /\ runs' \subseteq RowType /\ \A s \in runs' : RowOK(s)'
<1>0. /\ loop \in [Loops -> LoopType] /\ runs \subseteq RowType /\ \A s \in runs : RowOK(s)
      /\ MaxTime \in Nat /\ Never = MaxTime + 1 /\ loop[l].next \in 1..MaxTime
      /\ \A m \in Loops : loop[m].next = Never \/ loop[m].next \in Occurs[m]
  BY TypedIs, Clock
<1> DEFINE n == NextAfter(l, loop[l].next)
<1>1. n \in 1..Never /\ (n = Never \/ n \in Occurs[l]) /\ loop[l].next < n
  BY <1>0, NextIs
<1> HIDE DEF n
<1>2. /\ loop' \in [Loops -> LoopType]
      /\ \A m \in Loops \ {l} : loop'[m] = loop[m]
      /\ loop'[l].is = "on" /\ loop'[l].next = n
  <2>1. loop' = [loop EXCEPT ![l] = [loop[l] EXCEPT !.next = n]] /\ loop[l] \in LoopType
    BY <1>0 DEF n
  <2>2. [loop[l] EXCEPT !.next = n] \in LoopType /\ [loop[l] EXCEPT !.next = n].is = "on"
        /\ [loop[l] EXCEPT !.next = n].next = n
    BY <1>1, <2>1 DEF LoopType
  <2>3. \A m \in Loops \ {l} : loop'[m] = loop[m]
    BY <1>0, <2>1
  <2>4. loop'[l] = [loop[l] EXCEPT !.next = n]
    BY <1>0, <2>1
  <2>5. loop[l].is = "on" /\ [loop[l] EXCEPT !.next = n].is = loop[l].is
    BY <2>1 DEF LoopType
  <2>6. loop' \in [Loops -> LoopType]
    BY <1>0, <2>1, <2>2
  <2> QED BY <2>2, <2>3, <2>4, <2>5, <2>6
<1>3. ASSUME NEW s \in runs' PROVE RowOK(s)'
  <2>1. CASE s \in runs
    <3>1. RowOK(s) /\ s.loop \in Loops
      BY <1>0, <2>1 DEF RowType
    <3> QED BY <1>2, <3>1 DEF RowOK
  <2>2. CASE s \notin runs
    BY <1>2, <2>2 DEF RowOK
  <2> QED BY <2>1, <2>2
<1> QED BY <1>0, <1>1, <1>2, <1>3 DEF n

-----------------------------------------------------------------------------
(* Every step keeps the types.                                              *)

LEMMA RequestTyped ==
  ASSUME Typed, NEW d \in Daemons, NEW l \in Loops, Create(d, l) \/ SetEnabled(d, l) \/ Delete(d, l)
  PROVE  Typed'
<1>0. /\ edits' \in 0..MaxEdits /\ web' \in [Daemons -> {"idle", "notify"}]
      /\ UNCHANGED <<now, main, threadVars, session>>
  <2>1. Request(d)
    BY DEF Create, SetEnabled, Delete
  <2>2. edits \in 0..MaxEdits /\ web \in [Daemons -> {"idle", "notify"}] /\ MaxEdits \in Nat
    BY TypedIs, ConstantsAssumption
  <2>3. edits' = edits + 1 /\ edits < MaxEdits /\ web' = [web EXCEPT ![d] = "notify"]
        /\ UNCHANGED <<now, main, threadVars, session>>
    BY <2>1 DEF Request
  <2> QED BY <2>2, <2>3
<1>1. ASSUME NEW is \in {"on", "off"}, Reschedule(l, is), runs' = runs,
             loop[l].is = "absent" \/ loop[l].is \in {"on", "off"}
      PROVE  Typed'
  <2>1. \A r \in runs : RowOK(r)'
    BY <1>1, RescheduleIs, TypedIs DEF RowOK, RowType
  <2> QED BY <1>0, <1>1, <2>1, RescheduleIs, TypedIs, TypedIsNext DEF threadVars, Launching
<1>2. CASE Delete(d, l)
  <2>1. /\ loop' \in [Loops -> LoopType] /\ since' = since
        /\ \A m \in Loops : loop'[m].next = Never \/ loop'[m].next \in Occurs[m]
        /\ \A m \in Loops \ {l} : loop'[m] = loop[m]
    BY <1>2, TypedIs, Clock DEF Delete, LoopType
  <2>2. runs' \subseteq RowType /\ \A r \in runs' : RowOK(r)'
    BY <1>2, <2>1, TypedIs DEF Delete, RowOK, RowType
  <2> QED BY <1>0, <2>1, <2>2, TypedIs, TypedIsNext DEF threadVars, Launching
<1> QED BY <1>1, <1>2 DEF Create, SetEnabled

LEMMA SweepTyped ==
  ASSUME Typed, NEW d \in Daemons, Start(d) \/ Sweep(d)
  PROVE  Typed'
<1>0. now \in 0..MaxTime /\ Grace \in Nat /\ now - Grace \in Int /\ now - Grace <= now
      /\ seen \in [Daemons -> SeenType]
  BY TypedIs, Clock
<1>1. CASE Start(d)
  <2>1. RecordMissed(now)
    BY <1>1 DEF Start
  <2> QED BY <1>0, <1>1, <2>1, SweepIs, TypedIs, TypedIsNext DEF Start, Go, Launching
<1>2. CASE Sweep(d) /\ Stopping(d)
  BY <1>2, TypedIs, TypedIsNext DEF Sweep, Go, Launching, RowOK
<1>3. CASE Sweep(d) /\ ~Stopping(d)
  <2>1. RecordMissed(now - Grace) /\ seen' = [seen EXCEPT ![d] = [Unseen EXCEPT !.at = now]]
        /\ Go(d, "sweep", "claim") /\ UNCHANGED <<now, edits, since, main, web, session>>
    BY <1>3 DEF Sweep
  <2>2. [Unseen EXCEPT !.at = now] \in SeenType /\ [Unseen EXCEPT !.at = now].at = now
    BY <1>0, UnseenType DEF SeenType
  <2> QED BY <1>0, <2>1, <2>2, SweepIs, TypedIs, TypedIsNext DEF Go, Launching
<1> QED BY <1>1, <1>2, <1>3

LEMMA ClaimTyped ==
  ASSUME Typed, NEW d \in Daemons, Claim(d)
  PROVE  Typed'
<1>0. UNCHANGED <<now, edits, since, main, web, session>>
  BY DEF Claim
<1>1. CASE pc'[d] = "look"
  <2>1. Go(d, "claim", "look") /\ seen' = [seen EXCEPT ![d] = Unseen] /\ UNCHANGED <<loop, runs>>
    BY <1>1, TypedIs DEF Claim, Go, Again
  <2> QED BY <1>0, <2>1, UnseenType, TypedIs, TypedIsNext DEF Go, Launching, RowOK
<1>2. CASE pc'[d] # "look"
  <2>1. PICK l \in Loops, r \in RowType :
           /\ loop[l].is = "on" /\ loop[l].next \in Occurs[l] /\ loop[l].next <= seen[d].at
           /\ loop' = [loop EXCEPT ![l].next = NextAfter(l, loop[l].next)]
           /\ runs' = runs \union {r}
           /\ Claimed(l, d, r)
    BY <1>2, ClaimIs
  <2>2. /\ loop' \in [Loops -> LoopType] /\ runs' \subseteq RowType /\ \A s \in runs' : RowOK(s)'
        /\ \A m \in Loops : loop'[m].next = Never \/ loop'[m].next \in Occurs[m]
    BY <2>1, ClaimTable DEF Claimed
  <2>3. CASE Again(d, "claim")
    BY <1>0, <2>2, <2>3, AgainType, TypedIs
  <2>4. CASE /\ Go(d, "claim", "launch")
             /\ seen' = [seen EXCEPT ![d] = [Unseen EXCEPT !.run = <<l, loop[l].next>>]]
    <3> DEFINE k == <<l, loop[l].next>>
               u == [Unseen EXCEPT !.run = k]
    <3>1. k \in Runs
      BY <2>1, Clock DEF Runs
    <3>2. u \in SeenType /\ u.at = 0 /\ u.run = k
      BY <3>1, UnseenType DEF SeenType
    <3> HIDE DEF k
    <3>3. \A e \in Daemons : seen'[e].at <= now /\ (Launching(e)' => seen'[e].run \in Runs)
      BY <2>4, <3>1, <3>2, TypedIs DEF Launching, Go, k
    <3> QED BY <1>0, <2>2, <2>4, <3>2, <3>3, TypedIs, TypedIsNext DEF Go, k
  <2> QED BY <2>1, <2>3, <2>4 DEF Claimed
<1> QED BY <1>1, <1>2

LEMMA LaunchTyped ==
  ASSUME Typed, NEW d \in Daemons, Launch(d) \/ Disable(d) \/ Send(d)
  PROVE  Typed'
<1>1. ASSUME NEW k, NEW status \in Statuses, UpdateRun(k, status), UNCHANGED <<now, edits, loop, since, main, web>>,
             Again(d, "launch") \/ Again(d, "send"),
             session' \in [Runs -> SessionType]
      PROVE  Typed'
  <2>1. runs' \subseteq RowType /\ \A r \in runs' : RowOK(r)'
    BY <1>1, UpdateIs
  <2>2. pc' = [pc EXCEPT ![d] = "sweep"] /\ seen' = [seen EXCEPT ![d] = Unseen]
    BY <1>1 DEF Again, Go
  <2> QED BY <1>1, <2>1, <2>2, UnseenType, TypedIs, TypedIsNext DEF Launching
<1>2. ASSUME NEW k, NEW status \in Statuses, UpdateRun(k, status),
             UNCHANGED <<now, edits, loop, since, main, web, session, seen>>,
             Go(d, "launch", "disable") \/ Go(d, "launch", "send")
      PROVE  Typed'
  <2>1. runs' \subseteq RowType /\ \A r \in runs' : RowOK(r)'
    BY <1>2, UpdateIs
  <2> QED BY <1>2, <2>1, TypedIs, TypedIsNext DEF Go, Launching
<1>3. "settled" \in Statuses /\ "running" \in Statuses
  BY DEF Statuses
<1>4. CASE Launch(d)
  <2>1. CASE Go(d, "launch", "disable") \/ Go(d, "launch", "send")
    <3>1. \E status \in {"settled", "running"} : UpdateRun(seen[d].run, status)
      BY <1>4, <2>1, TypedIs DEF Launch, Again, Go
    <3>2. UNCHANGED <<now, edits, loop, since, main, web, session, seen>>
      BY <1>4, <2>1, TypedIs DEF Launch, Again, Go
    <3> QED BY <1>2, <1>3, <2>1, <3>1, <3>2
  <2>2. CASE Again(d, "launch") /\ UpdateRun(seen[d].run, "settled")
    BY <1>1, <1>3, <1>4, <2>2, TypedIs DEF Launch
  <2>3. CASE Again(d, "launch") /\ UNCHANGED runs
    BY <1>4, <2>3, AgainType, TypedIs DEF Launch, RowOK
  <2> QED BY <1>4, <2>1, <2>2, <2>3 DEF Launch
<1>5. CASE Disable(d)
  <2> DEFINE l == seen[d].run[1]
  <2>1. l \in Loops
    BY <1>5, TypedIs DEF Disable, Again, Go, Launching, Runs
  <2> HIDE DEF l
  <2>2. CASE loop[l].is \in {"on", "off"} /\ Reschedule(l, "off")
    <3>1. \A r \in runs : RowOK(r)'
      BY <2>1, <2>2, RescheduleIs, TypedIs DEF RowOK, RowType
    <3> QED BY <1>5, <2>1, <2>2, <3>1, RescheduleIs, AgainType, TypedIs DEF Disable
  <2>3. CASE UNCHANGED <<loop, since>>
    BY <1>5, <2>3, AgainType, TypedIs DEF Disable, RowOK
  <2> QED BY <1>5, <2>2, <2>3 DEF Disable, l
<1>6. CASE Send(d)
  <2>1. CASE UpdateRun(seen[d].run, "settled") /\ UNCHANGED session
    BY <1>1, <1>3, <1>6, <2>1, TypedIs DEF Send
  <2>2. CASE /\ session' = [session EXCEPT ![seen[d].run] = [NoSession EXCEPT !.owner = d, !.state = "busy"]]
             /\ UNCHANGED runs
    <3>1. [NoSession EXCEPT !.owner = d, !.state = "busy"] \in SessionType
      BY DEF NoSession, SessionType
    <3>2. session' \in [Runs -> SessionType]
      BY <2>2, <3>1, TypedIs
    <3>3. pc' = [pc EXCEPT ![d] = "sweep"] /\ seen' = [seen EXCEPT ![d] = Unseen]
      BY <1>6 DEF Send, Again, Go
    <3> QED BY <1>6, <2>2, <3>2, <3>3, UnseenType, TypedIs, TypedIsNext DEF Launching, Send, RowOK
  <2> QED BY <1>6, <2>1, <2>2 DEF Send
<1> QED BY <1>4, <1>5, <1>6

LEMMA WaitTyped ==
  ASSUME Typed, NEW d \in Daemons,
         Notify(d) \/ Look(d) \/ EnterWait(d) \/ WaitElapsed(d) \/ SpuriousWake(d) \/ StopNotify(d)
  PROVE  Typed'
<1>1. \A r \in runs : RowOK(r)
  BY TypedIs
<1>2. CASE Look(d)
  <2> DEFINE T == {Never} \union {loop[l].next : l \in {m \in Loops : loop[m].is = "on"}}
  <2>1. Min(T) \in 1..Never
    <3>1. T \subseteq 1..Never /\ T # {} /\ Never \in Nat
      BY Clock, TypedIs DEF LoopType
    <3> HIDE DEF T
    <3>2. T \in SUBSET Nat
      BY <3>1
    <3> QED BY <3>1, <3>2, MinOfNats
  <2> HIDE DEF T
  <2>2. seen' = seen \/ seen' = [seen EXCEPT ![d].deadline = Min(T)]
    BY <1>2 DEF Look, T
  <2>3. /\ seen' \in [Daemons -> SeenType]
        /\ \A e \in Daemons : seen'[e].at = seen[e].at /\ seen'[e].run = seen[e].run
    <3> DEFINE u == [seen[d] EXCEPT !.deadline = Min(T)]
    <3>1. u \in SeenType /\ u.at = seen[d].at /\ u.run = seen[d].run
      BY <2>1, TypedIs DEF SeenType
    <3>2. seen' = seen \/ seen' = [seen EXCEPT ![d] = u]
      BY <2>2
    <3> HIDE DEF u
    <3> QED BY <3>1, <3>2, TypedIs
  <2>4. \A e \in Daemons : seen'[e].at <= now /\ (Launching(e)' => seen'[e].run \in Runs)
    BY <1>2, <2>3, TypedIs DEF Look, Go, Launching
  <2>5. UNCHANGED <<now, edits, loop, since, runs, main, web, session>>
        /\ (Go(d, "look", "end") \/ Go(d, "look", "enter"))
    BY <1>2 DEF Look
  <2> QED BY <2>3, <2>4, <2>5, TypedIs, TypedIsNext DEF Go, RowOK
<1>3. CASE Notify(d) \/ StopNotify(d)
  <2>1. CASE Again(d, "wait")
    <3>1. pc' = [pc EXCEPT ![d] = "sweep"] /\ seen' = [seen EXCEPT ![d] = Unseen]
      BY <2>1 DEF Again, Go
    <3> QED BY <1>3, <3>1, UnseenType, TypedIs, TypedIsNext
            DEF Notify, StopNotify, MainGoes, Launching, RowOK
  <2>2. CASE UNCHANGED threadVars
    BY <1>3, <2>2, TypedIs, TypedIsNext DEF Notify, StopNotify, MainGoes, Launching, RowOK, threadVars
  <2> QED BY <1>3, <2>1, <2>2 DEF Notify, StopNotify, Wake
<1>4. CASE EnterWait(d)
  BY <1>4, TypedIs, TypedIsNext DEF EnterWait, Go, Launching, RowOK
<1>5. CASE WaitElapsed(d) \/ SpuriousWake(d)
  BY <1>5, AgainType, TypedIs DEF WaitElapsed, SpuriousWake, RowOK
<1> QED BY <1>2, <1>3, <1>4, <1>5

LEMMA SessionTyped ==
  ASSUME Typed, NEW k \in Runs, Ask(k) \/ Answered(k) \/ Finish(k) \/ Persist(k)
  PROVE  Typed'
<1>1. ASSUME NEW from, NEW to \in {"busy", "waiting", "over"}, NEW status \in {"none", "waiting", "settled"},
             Event(k, from, to, status)
      PROVE  Typed'
  <2>1. session' \in [Runs -> SessionType]
    <3> DEFINE w == IF Listening(session[k].owner) THEN status ELSE "none"
    <3>1. session' = [session EXCEPT ![k] = [session[k] EXCEPT !.state = to, !.write = w]]
          /\ session[k] \in SessionType /\ w \in {"none", "waiting", "settled"}
      BY <1>1, TypedIs DEF Event
    <3> HIDE DEF w
    <3>2. [session[k] EXCEPT !.state = to, !.write = w] \in SessionType
      BY <3>1 DEF SessionType
    <3> QED BY <3>1, <3>2, TypedIs
  <2> QED BY <1>1, <2>1, TypedIs, TypedIsNext DEF Event, threadVars, Launching, RowOK
<1>2. CASE Persist(k)
  <2>1. session[k] \in SessionType /\ session[k].write \in Statuses
    BY <1>2, TypedIs DEF Persist, SessionType, Statuses
  <2>2. runs' \subseteq RowType /\ \A r \in runs' : RowOK(r)'
    BY <1>2, <2>1, UpdateIs DEF Persist
  <2>3. session' \in [Runs -> SessionType]
    <3>1. session' = [session EXCEPT ![k] = [session[k] EXCEPT !.write = "none"]]
          /\ [session[k] EXCEPT !.write = "none"] \in SessionType
      BY <1>2, <2>1 DEF Persist, SessionType
    <3> QED BY <3>1, TypedIs
  <2> QED BY <1>2, <2>2, <2>3, TypedIs, TypedIsNext DEF Persist, threadVars, Launching
<1> QED BY <1>1, <1>2 DEF Ask, Answered, Finish

LEMMA NoSessionType == NoSession \in SessionType
BY DEF NoSession, SessionType

LEMMA EndTyped ==
  ASSUME Typed, NEW d \in Daemons, StopFlag(d) \/ StopJoined(d) \/ Exit(d) \/ Crash(d)
  PROVE  Typed'
<1>1. CASE StopFlag(d)
  BY <1>1, TypedIs, TypedIsNext DEF StopFlag, MainGoes, threadVars, Launching, RowOK
<1>2. CASE StopJoined(d)
  <2>1. session' \in [Runs -> SessionType]
    <3>1. \A k \in Runs : [session[k] EXCEPT !.state = "over"] \in SessionType /\ session[k] \in SessionType
      BY TypedIs DEF SessionType
    <3> QED BY <1>2, <3>1 DEF StopJoined
  <2>2. runs' \subseteq RowType /\ \A r \in runs' : RowOK(r)'
    <3>1. runs \subseteq RowType /\ \A r \in runs : RowOK(r) /\ "settled" \in Statuses
      BY TypedIs DEF Statuses
    <3> DEFINE f(r) == IF Active(r) /\ r.owner = d THEN [r EXCEPT !.status = "settled"] ELSE r
    <3>2. runs' = {f(r) : r \in runs} /\ loop' = loop
      BY <1>2 DEF StopJoined
    <3>3. \A r \in runs : f(r) \in RowType /\ Same(r, f(r))
      BY <3>1, RowFields DEF Same
    <3> HIDE DEF f
    <3> QED BY <3>1, <3>2, <3>3 DEF RowOK, Same
  <2> QED BY <1>2, <2>1, <2>2, TypedIs, TypedIsNext DEF StopJoined, MainGoes, threadVars, Launching
<1>3. CASE Gone(d)
  <2>1. session' \in [Runs -> SessionType]
    BY <1>3, NoSessionType, TypedIs DEF Gone
  <2>2. main' \in [Daemons -> {"off", "up", "flag", "notified", "stopped", "gone"}]
        /\ pc' = [pc EXCEPT ![d] = "none"] /\ seen' = [seen EXCEPT ![d] = Unseen]
        /\ web' \in [Daemons -> {"idle", "notify"}] /\ UNCHANGED <<now, edits, loop, since, runs>>
    BY <1>3, TypedIs DEF Gone
  <2> QED BY <2>1, <2>2, UnseenType, TypedIs, TypedIsNext DEF Launching, RowOK
<1> QED BY <1>1, <1>2, <1>3 DEF Exit, Crash

LEMMA TypedNext == Typed /\ [Next]_vars => Typed'
<1> SUFFICES ASSUME Typed, [Next]_vars PROVE Typed'
  OBVIOUS
<1>1. CASE Tick
  <2>1. now' \in 0..MaxTime /\ now \in 0..MaxTime /\ now <= now'
    BY <1>1, Clock, TypedIs DEF Tick
  <2>2. \A d \in Daemons : seen[d].at \in 0..MaxTime /\ seen[d].at <= now
    BY TypedIs DEF SeenType
  <2>3. \A d \in Daemons : seen[d].at <= now'
    BY <2>1, <2>2, Clock
  <2> QED BY <1>1, <2>1, <2>3, TypedIs, TypedIsNext DEF Tick, threadVars, Launching, RowOK
<1>2. CASE UNCHANGED vars
  BY <1>2, TypedIs, TypedIsNext DEF vars, threadVars, Launching, RowOK
<1> QED
  BY <1>1, <1>2, RequestTyped, SweepTyped, ClaimTyped, LaunchTyped, WaitTyped, SessionTyped, EndTyped
  DEF Next, Thread, Stop

-----------------------------------------------------------------------------
(* The occurrences a record stands for.                                     *)

LEMMA CoverFinite ==
  ASSUME NEW l \in Loops, NEW a, NEW b
  PROVE  /\ IsFiniteSet({p \in Occurs[l] : a < p /\ p <= b})
         /\ Cardinality({p \in Occurs[l] : a < p /\ p <= b}) \in Nat
<1> DEFINE T == {p \in Occurs[l] : a < p /\ p <= b}
<1>1. T \subseteq 1..MaxTime /\ IsFiniteSet(1..MaxTime)
  BY Clock, FS_Interval
<1>2. IsFiniteSet(T)
  BY <1>1, FS_Subset
<1> QED BY <1>2, FS_CardinalityType

LEMMA CoverOne ==
  ASSUME NEW r, r.loop \in Loops, r.at \in Occurs[r.loop], r.count = 1, NEW o \in Occurs[r.loop]
  PROVE  Covers(r, o) <=> o = r.at
<1> DEFINE T == {p \in Occurs[r.loop] : o < p /\ p <= r.at}
<1>0. o \in 1..MaxTime /\ r.at \in 1..MaxTime
  BY Clock
<1>1. IsFiniteSet(T) /\ Cardinality(T) \in Nat
  BY CoverFinite
<1>2. Covers(r, o) <=> o <= r.at /\ Cardinality(T) < 1
  BY DEF Covers
<1>3. Cardinality(T) < 1 <=> T = {}
  BY <1>1, FS_EmptySet
<1>4. o < r.at => T # {}
  BY <1>0
<1>5. o = r.at => T = {}
  BY <1>0, Clock
<1> QED BY <1>0, <1>2, <1>3, <1>4, <1>5

LEMMA CoverSwept ==
  ASSUME NEW l \in Loops, NEW a \in Occurs[l], NEW b \in Int, a <= b, b <= MaxTime,
         NEW r, r.loop = l, r.at = Max(Between(l, a, b)), r.count = Cardinality(Between(l, a, b)),
         NEW o \in Occurs[l]
  PROVE  Covers(r, o) <=> a <= o /\ o <= b
<1> DEFINE P == Between(l, a, b)
           T == {p \in Occurs[l] : o < p /\ p <= r.at}
<1>0. o \in 1..MaxTime /\ a \in 1..MaxTime /\ a \in Nat /\ MaxTime \in Nat /\ Occurs[l] \subseteq 1..MaxTime
  BY Clock
<1>1. r.at \in P /\ (\A p \in P : p <= r.at) /\ IsFiniteSet(P) /\ Cardinality(P) \in 1..MaxTime
  BY <1>0, BetweenIs
<1>2. IsFiniteSet(T) /\ Cardinality(T) \in Nat
  BY CoverFinite
<1>3. Covers(r, o) <=> o <= r.at /\ Cardinality(T) < Cardinality(P)
  BY DEF Covers
<1>4. r.at \in 1..MaxTime /\ a <= r.at /\ r.at <= b
  BY <1>0, <1>1 DEF Between
<1>5. ASSUME a <= o, o <= b PROVE Covers(r, o)
  <2>1. o \in P /\ o <= r.at
    BY <1>1, <1>5 DEF Between
  <2>2. T \subseteq P \ {o}
    BY <1>0, <1>4, <1>5 DEF Between
  <2>3. IsFiniteSet(P \ {o}) /\ Cardinality(P \ {o}) = Cardinality(P) - 1
    BY <1>1, <2>1, FS_RemoveElement
  <2>4. Cardinality(T) <= Cardinality(P) - 1
    BY <2>2, <2>3, FS_Subset
  <2> HIDE DEF T, P
  <2> QED BY <1>1, <1>2, <1>3, <2>1, <2>4
<1>6. ASSUME Covers(r, o), o < a PROVE FALSE
  <2>1. P \subseteq T
    BY <1>0, <1>1, <1>6 DEF Between
  <2>2. Cardinality(P) <= Cardinality(T)
    BY <1>2, <2>1, FS_Subset
  <2> HIDE DEF T, P
  <2> QED BY <1>1, <1>2, <1>3, <1>6, <2>2
<1>7. ASSUME Covers(r, o), b < o PROVE FALSE
  BY <1>0, <1>3, <1>4, <1>7
<1> QED BY <1>0, <1>5, <1>6, <1>7

LEMMA CoverSame ==
  ASSUME NEW r, NEW s, Same(r, s), NEW o
  PROVE  Covers(r, o) <=> Covers(s, o)
BY DEF Same, Covers

-----------------------------------------------------------------------------
(* The table of runs.                                                       *)

(* An occurrence that has been dealt with: the schedule of its LOOP goes on *)
(* after it, or starts anew after the present.                              *)
Used(k) ==
  /\ loop[k[1]].is # "absent" /\ k[2] <= now
  /\ loop[k[1]].is = "on" => k[2] < loop[k[1]].next

(* One row an occurrence, records that do not overlap and leave none out.   *)
Table ==
  /\ \A r \in runs : Used(Key(r))
  /\ \A r, s \in runs : Key(r) = Key(s) => r = s
  /\ \A r, s \in runs : r.loop = s.loop =>
       \A o \in Occurs[r.loop] : Covers(r, o) /\ Covers(s, o) => Key(r) = Key(s)
  /\ \A l \in Loops : \A o \in Occurs[l] :
       loop[l].is = "on" /\ since[l] < o /\ o < loop[l].next => \E r \in runs : r.loop = l /\ Covers(r, o)

(* A schedule goes on, or starts anew.                                      *)
Onward ==
  \A l \in Loops :
    \/ loop'[l] = loop[l]
    \/ loop'[l].is = loop[l].is /\ loop[l].next <= loop'[l].next
    \/ loop'[l].is # "absent" /\ (loop'[l].is = "on" => now < loop'[l].next)

LEMMA UsedStays ==
  ASSUME Typed, Typed', Onward, now <= now', NEW k \in Runs, Used(k)
  PROVE  Used(k)'
<1>1. k[1] \in Loops /\ k[2] \in 1..MaxTime
  BY Clock DEF Runs
<1>2. /\ loop[k[1]].next \in 1..Never /\ loop'[k[1]].next \in 1..Never /\ Never \in Nat
      /\ now \in Nat /\ now' \in Nat
  BY <1>1, TypedIs, TypedIsNext, Clock DEF LoopType
<1> QED BY <1>1, <1>2 DEF Onward, Used

LEMMA KeyType ==
  ASSUME NEW r \in RowType
  PROVE  Key(r) \in Runs /\ Key(r)[1] = r.loop /\ Key(r)[2] = r.at /\ r.loop \in Loops /\ r.at \in Nat
BY Clock DEF Key, Runs, RowType

(* New records begin where the schedule stood and reach to where it goes.   *)
LEMMA TableAdd ==
  ASSUME Typed, Typed', Table, since' = since, now' = now, runs \subseteq runs',
         \A l \in Loops : loop'[l].is = loop[l].is /\ loop[l].next <= loop'[l].next,
         \A r \in runs' \ runs :
           /\ loop[r.loop].is = "on" /\ loop[r.loop].next <= r.at /\ r.at < loop'[r.loop].next /\ r.at <= now
           /\ \A o \in Occurs[r.loop] : Covers(r, o) => loop[r.loop].next <= o
           /\ \A s \in runs' \ runs : r.loop = s.loop => r = s,
         \A l \in Loops : \A o \in Occurs[l] :
           loop[l].is = "on" /\ loop[l].next <= o /\ o < loop'[l].next =>
             \E r \in runs' : r.loop = l /\ Covers(r, o)
  PROVE  Table'
<1>0. /\ runs \subseteq RowType /\ runs' \subseteq RowType /\ now \in Nat /\ Never \in Nat
      /\ \A l \in Loops : loop[l].next \in 1..Never /\ loop'[l].next \in 1..Never
      /\ \A l \in Loops : Occurs[l] \subseteq 1..MaxTime
  BY TypedIs, TypedIsNext, Clock DEF LoopType
<1>1. \A r \in runs' : Used(Key(r))'
  <2>1. ASSUME NEW r \in runs' PROVE Used(Key(r))'
    <3>0. Key(r) \in Runs /\ Key(r)[1] = r.loop /\ Key(r)[2] = r.at /\ r.loop \in Loops
      BY <1>0, KeyType
    <3>1. CASE r \in runs
      <4>1. Onward
        BY DEF Onward
      <4>2. Used(Key(r))
        BY <3>1 DEF Table
      <4> QED BY <1>0, <3>0, <4>1, <4>2, UsedStays
    <3>2. CASE r \notin runs
      BY <3>0, <3>2 DEF Used
    <3> QED BY <3>1, <3>2
  <2> QED BY <2>1
<1>2. ASSUME NEW r \in runs, NEW s \in runs' \ runs, r.loop = s.loop
      PROVE  r.at < s.at /\ \A o \in Occurs[r.loop] : ~(Covers(r, o) /\ Covers(s, o))
  <2>1. Used(Key(r)) /\ Key(r)[1] = r.loop /\ Key(r)[2] = r.at /\ r.loop \in Loops /\ r.at \in Nat
        /\ s.at \in Nat
    BY <1>0, KeyType DEF Table
  <2>2. r.at < loop[r.loop].next
    BY <1>2, <2>1 DEF Used
  <2>3. \A o \in Occurs[r.loop] : Covers(r, o) => o <= r.at
    BY DEF Covers
  <2> QED BY <1>0, <1>2, <2>1, <2>2, <2>3
<1>3. ASSUME NEW r \in runs', NEW s \in runs' PROVE Key(r) = Key(s) => r = s
  <2>1. CASE r \in runs /\ s \in runs
    BY <2>1 DEF Table
  <2>2. CASE r \notin runs /\ s \notin runs
    BY <2>2 DEF Key
  <2>3. CASE (r \in runs /\ s \notin runs) \/ (r \notin runs /\ s \in runs)
    <3>1. r.at \in Nat /\ s.at \in Nat
      BY <1>0, KeyType
    <3> QED BY <1>2, <2>3, <3>1 DEF Key
  <2> QED BY <2>1, <2>2, <2>3
<1>4. ASSUME NEW r \in runs', NEW s \in runs', r.loop = s.loop, NEW o \in Occurs[r.loop],
             Covers(r, o), Covers(s, o)
      PROVE  Key(r) = Key(s)
  <2>1. CASE r \in runs /\ s \in runs
    BY <1>4, <2>1 DEF Table
  <2>2. CASE r \notin runs /\ s \notin runs
    BY <1>4, <2>2 DEF Key
  <2>3. CASE (r \in runs /\ s \notin runs) \/ (r \notin runs /\ s \in runs)
    BY <1>2, <1>4, <2>3
  <2> QED BY <2>1, <2>2, <2>3
<1>5. ASSUME NEW l \in Loops, NEW o \in Occurs[l], loop'[l].is = "on", since'[l] < o, o < loop'[l].next
      PROVE  \E r \in runs' : r.loop = l /\ Covers(r, o)
  <2>1. CASE o < loop[l].next
    BY <1>5, <2>1 DEF Table
  <2>2. CASE ~(o < loop[l].next)
    <3>1. loop[l].next <= o
      BY <1>0, <2>2
    <3> QED BY <1>5, <3>1
  <2> QED BY <2>1, <2>2
<1> QED BY <1>1, <1>3, <1>4, <1>5 DEF Table, Covers

(* No new record: some are deleted, the others change their status at most. *)
LEMMA TableSame ==
  ASSUME Typed, Typed', Table, Onward, now <= now', NEW D \in SUBSET runs, NEW f,
         runs' = {f[r] : r \in D}, \A r \in D : Same(r, f[r]),
         \A l \in Loops : loop'[l].is = "on" =>
           \/ loop'[l] = loop[l] /\ since'[l] = since[l] /\ \A r \in runs : r.loop = l => r \in D
           \/ \A o \in Occurs[l] : since'[l] < o => loop'[l].next <= o
  PROVE  Table'
<1>0. /\ runs \subseteq RowType /\ runs' \subseteq RowType
      /\ \A l \in Loops : loop'[l].next \in 1..Never /\ Occurs[l] \subseteq 1..MaxTime /\ Never \in Nat
  BY TypedIs, TypedIsNext, Clock DEF LoopType
<1>1. ASSUME NEW s \in runs'
      PROVE  \E r \in D : s = f[r] /\ Same(r, s) /\ Key(s) = Key(r) /\ s.loop = r.loop
  BY DEF Same, Key
<1>2. ASSUME NEW s \in runs' PROVE Used(Key(s))'
  <2>1. PICK r \in D : Key(s) = Key(r)
    BY <1>1
  <2>2. Used(Key(r)) /\ Key(r) \in Runs
    BY <1>0, KeyType DEF Table
  <2> QED BY <2>1, <2>2, UsedStays
<1>3. ASSUME NEW s \in runs', NEW t \in runs', Key(s) = Key(t) PROVE s = t
  <2>1. PICK r \in D : s = f[r] /\ Key(s) = Key(r)
    BY <1>1
  <2>2. PICK q \in D : t = f[q] /\ Key(t) = Key(q)
    BY <1>1
  <2> QED BY <1>3, <2>1, <2>2 DEF Table
<1>4. ASSUME NEW s \in runs', NEW t \in runs', s.loop = t.loop, NEW o \in Occurs[s.loop],
             Covers(s, o), Covers(t, o)
      PROVE  Key(s) = Key(t)
  <2>1. PICK r \in D : Same(r, s) /\ Key(s) = Key(r) /\ s.loop = r.loop
    BY <1>1
  <2>2. PICK q \in D : Same(q, t) /\ Key(t) = Key(q) /\ t.loop = q.loop
    BY <1>1
  <2>3. Covers(r, o) /\ Covers(q, o)
    BY <1>4, <2>1, <2>2, CoverSame
  <2> QED BY <1>4, <2>1, <2>2, <2>3 DEF Table
<1>5. ASSUME NEW l \in Loops, NEW o \in Occurs[l], loop'[l].is = "on", since'[l] < o, o < loop'[l].next
      PROVE  \E s \in runs' : s.loop = l /\ Covers(s, o)
  <2>1. o \in Nat /\ loop'[l].next \in Nat
    BY <1>0
  <2>2. loop'[l] = loop[l] /\ since'[l] = since[l] /\ \A r \in runs : r.loop = l => r \in D
    BY <1>5, <2>1
  <2>3. PICK r \in runs : r.loop = l /\ Covers(r, o)
    BY <1>5, <2>2 DEF Table
  <2>4. r \in D /\ Same(r, f[r]) /\ f[r] \in runs' /\ f[r].loop = l
    BY <2>2, <2>3 DEF Same
  <2> QED BY <2>3, <2>4, CoverSame
<1>6. \A r, o : Covers(r, o)' <=> Covers(r, o)
  BY DEF Covers
<1> QED BY <1>2, <1>3, <1>4, <1>5, <1>6 DEF Table

LEMMA TableStays ==
  ASSUME Typed, Typed', Table, UNCHANGED tableVars, now <= now'
  PROVE  Table'
<1> DEFINE f == [r \in runs |-> r]
<1>1. runs' = {f[r] : r \in runs} /\ \A r \in runs : Same(r, f[r])
  BY DEF tableVars, Same
<1> HIDE DEF f
<1> QED BY <1>1, TableSame DEF tableVars, Onward

LEMMA TableUpdate ==
  ASSUME Typed, Typed', Table, UNCHANGED <<loop, since, now>>,
         NEW k, NEW status \in Statuses, UpdateRun(k, status)
  PROVE  Table'
<1> DEFINE f == [r \in runs |-> IF <<r.loop, r.at>> = k THEN [r EXCEPT !.status = status] ELSE r]
<1>1. runs' = {f[r] : r \in runs}
  BY DEF UpdateRun
<1>2. \A r \in runs : Same(r, f[r])
  BY RowFields, TypedIs DEF Same
<1> HIDE DEF f
<1>3. now <= now' /\ Onward
  BY TypedIs, Clock DEF Onward
<1> QED BY <1>1, <1>2, <1>3, TableSame

LEMMA TableReschedule ==
  ASSUME Typed, Typed', Table, NEW l \in Loops, NEW is \in {"on", "off"}, Reschedule(l, is),
         UNCHANGED <<runs, now>>
  PROVE  Table'
<1> DEFINE f == [r \in runs |-> r]
<1>1. runs' = {f[r] : r \in runs} /\ \A r \in runs : Same(r, f[r])
  BY DEF Same
<1> HIDE DEF f
<1>2. now \in Nat /\ now <= now'
  BY TypedIs, Clock
<1>3. /\ \A m \in Loops \ {l} : loop'[m] = loop[m] /\ since'[m] = since[m]
      /\ loop'[l].is = is /\ since'[l] = now
      /\ is = "on" => loop'[l].next = NextAfter(l, now) /\ now < loop'[l].next
  BY RescheduleIs
<1>4. Onward
  BY <1>3 DEF Onward
<1>5. is = "on" => \A o \in Occurs[l] : now < o => loop'[l].next <= o
  BY <1>2, <1>3, NextIs
<1> QED BY <1>1, <1>2, <1>3, <1>4, <1>5, TableSame

LEMMA TableSweep ==
  ASSUME Typed, Typed', Table, NEW cutoff \in Int, cutoff <= now, RecordMissed(cutoff),
         UNCHANGED <<since, now>>
  PROVE  Table'
<1>0. /\ loop \in [Loops -> LoopType] /\ now \in Nat /\ now <= MaxTime /\ cutoff <= MaxTime
      /\ MaxTime \in Nat /\ Never = MaxTime + 1
      /\ \A l \in Loops : Occurs[l] \subseteq 1..MaxTime /\ loop[l].next \in 1..Never
                          /\ loop'[l].next \in 1..Never
  BY TypedIs, TypedIsNext, Clock DEF LoopType
<1>1. /\ \A l \in Loops \ Late(cutoff) : loop'[l] = loop[l]
      /\ \A l \in Late(cutoff) : /\ l \in Loops /\ loop[l].is = "on" /\ loop[l].next < cutoff
                                 /\ loop'[l].is = "on" /\ loop'[l].next = NextAfter(l, cutoff)
                                 /\ loop[l].next \in Occurs[l] /\ cutoff < loop'[l].next
      /\ runs \subseteq runs'
      /\ \A r \in runs' \ runs : \E l \in Late(cutoff) : Swept(l, cutoff, r)
      /\ \A l \in Late(cutoff) : \E r \in runs' : Swept(l, cutoff, r)
  BY SweepIs DEF Late
<1>2. ASSUME NEW l \in Late(cutoff), NEW r, Swept(l, cutoff, r)
      PROVE  /\ r.loop = l /\ loop[l].next <= r.at /\ r.at <= cutoff
             /\ \A o \in Occurs[l] : Covers(r, o) <=> loop[l].next <= o /\ o <= cutoff
  <2>1. l \in Loops /\ loop[l].next \in Occurs[l] /\ loop[l].next \in Nat /\ loop[l].next <= cutoff
    BY <1>0, <1>1
  <2>2. r.loop = l /\ r.at = Max(Between(l, loop[l].next, cutoff))
        /\ r.count = Cardinality(Between(l, loop[l].next, cutoff))
    BY <1>2 DEF Swept
  <2>3. r.at \in Between(l, loop[l].next, cutoff)
    BY <1>0, <2>1, <2>2, BetweenIs
  <2>4. \A o \in Occurs[l] : Covers(r, o) <=> loop[l].next <= o /\ o <= cutoff
    BY <1>0, <2>1, <2>2, CoverSwept
  <2> QED BY <2>2, <2>3, <2>4 DEF Between
<1>3. \A l \in Loops : loop'[l].is = loop[l].is /\ loop[l].next <= loop'[l].next
  BY <1>0, <1>1
<1>4. ASSUME NEW r \in runs' \ runs
      PROVE  /\ loop[r.loop].is = "on" /\ loop[r.loop].next <= r.at /\ r.at < loop'[r.loop].next
             /\ r.at <= now
             /\ \A o \in Occurs[r.loop] : Covers(r, o) => loop[r.loop].next <= o
  <2>1. PICK l \in Late(cutoff) : Swept(l, cutoff, r)
    BY <1>1
  <2>2. r.at \in Nat
    BY TypedIsNext, KeyType
  <2> QED BY <1>0, <1>1, <1>2, <2>1, <2>2
<1>5. ASSUME NEW r \in runs' \ runs, NEW s \in runs' \ runs, r.loop = s.loop PROVE r = s
  <2>1. PICK l \in Late(cutoff) : Swept(l, cutoff, r)
    BY <1>1
  <2>2. PICK m \in Late(cutoff) : Swept(m, cutoff, s)
    BY <1>1
  <2>3. r \in RowType /\ s \in RowType /\ l = m
    BY <1>5, <2>1, <2>2, TypedIsNext DEF Swept
  <2> QED BY <2>1, <2>2, <2>3 DEF Swept, RowType
<1>6. ASSUME NEW l \in Loops, NEW o \in Occurs[l], loop[l].is = "on", loop[l].next <= o, o < loop'[l].next
      PROVE  \E r \in runs' : r.loop = l /\ Covers(r, o)
  <2>0. o \in Nat /\ loop[l].next \in Nat /\ loop'[l].next \in Nat
    BY <1>0
  <2>1. l \in Late(cutoff)
    BY <1>1, <1>6, <2>0
  <2>2. ~(cutoff < o)
    BY <1>1, <1>6, <2>0, <2>1, NextIs
  <2>3. PICK r \in runs' : Swept(l, cutoff, r)
    BY <1>1, <2>1
  <2> QED BY <1>2, <1>6, <2>0, <2>1, <2>2, <2>3
<1> QED BY <1>1, <1>3, <1>4, <1>5, <1>6, TableAdd

LEMMA TableClaim ==
  ASSUME Typed, Typed', Table, NEW d \in Daemons, Claim(d)
  PROVE  Table'
<1>0. UNCHANGED <<since, now>> /\ now \in Nat /\ seen[d].at <= now /\ seen[d].at \in Nat
  BY TypedIs, Clock DEF Claim, SeenType
<1>1. CASE pc'[d] = "look"
  <2>1. UNCHANGED <<loop, runs>>
    BY <1>1, TypedIs DEF Claim, Go, Again
  <2> QED BY <1>0, <2>1, TableStays DEF tableVars
<1>2. CASE pc'[d] # "look"
  <2>1. PICK l \in Loops, r \in RowType :
           /\ loop[l].is = "on" /\ loop[l].next \in Occurs[l] /\ loop[l].next <= seen[d].at
           /\ loop' = [loop EXCEPT ![l].next = NextAfter(l, loop[l].next)]
           /\ runs' = runs \union {r}
           /\ Claimed(l, d, r)
    BY <1>2, ClaimIs
  <2>2. r.loop = l /\ r.at = loop[l].next /\ r.count = 1
    BY <2>1 DEF Claimed
  <2>3. /\ \A m \in Loops \ {l} : loop'[m] = loop[m]
        /\ loop'[l].is = "on" /\ loop'[l].next = NextAfter(l, loop[l].next)
        /\ loop[l].next < loop'[l].next
    BY <2>1, <2>2, ClaimTable
  <2>4. /\ loop[l].next \in Nat /\ \A m \in Loops : loop[m].next \in Nat /\ loop'[m].next \in Nat
        /\ \A m \in Loops : Occurs[m] \subseteq Nat
    BY TypedIs, TypedIsNext, Clock DEF LoopType
  <2>5. \A o \in Occurs[l] : Covers(r, o) <=> o = r.at
    BY <2>1, <2>2, CoverOne
  <2>6. \A m \in Loops : loop'[m].is = loop[m].is /\ loop[m].next <= loop'[m].next
    BY <2>1, <2>3, <2>4
  <2>7. loop[l].next <= r.at /\ r.at < loop'[l].next /\ r.at <= now
    BY <1>0, <2>1, <2>2, <2>3, <2>4
  <2>8. \A o \in Occurs[l] : Covers(r, o) => loop[l].next <= o
    BY <2>2, <2>4, <2>5
  <2>9. ASSUME NEW m \in Loops, NEW o \in Occurs[m], loop[m].is = "on", loop[m].next <= o, o < loop'[m].next
        PROVE  \E s \in runs' : s.loop = m /\ Covers(s, o)
    <3>1. m = l
      BY <2>3, <2>4, <2>9
    <3>2. o \in Nat /\ ~(loop[l].next < o)
      BY <2>3, <2>4, <2>9, <3>1, NextIs
    <3>3. o = r.at
      BY <2>2, <2>4, <2>9, <3>1, <3>2
    <3> QED BY <2>1, <2>2, <2>5, <2>9, <3>1, <3>3
  <2>10. runs \subseteq runs' /\ \A s \in runs' \ runs : s = r
    BY <2>1
  <2>11. \A s \in runs' \ runs :
           /\ loop[s.loop].is = "on" /\ loop[s.loop].next <= s.at /\ s.at < loop'[s.loop].next /\ s.at <= now
           /\ \A o \in Occurs[s.loop] : Covers(s, o) => loop[s.loop].next <= o
           /\ \A t \in runs' \ runs : s.loop = t.loop => s = t
    BY <2>1, <2>2, <2>7, <2>8, <2>10
  <2> QED BY <1>0, <2>6, <2>9, <2>10, <2>11, TableAdd
<1> QED BY <1>1, <1>2

LEMMA TableNext == Typed /\ Typed' /\ Table /\ [Next]_vars => Table'
<1> SUFFICES ASSUME Typed, Typed', Table, [Next]_vars PROVE Table'
  OBVIOUS
<1>0. now \in Nat /\ now - Grace \in Int /\ now - Grace <= now
  BY TypedIs, Clock
<1>1. CASE Tick \/ UNCHANGED vars
  BY <1>0, <1>1, TableStays DEF Tick, vars, tableVars
<1>2. ASSUME NEW d \in Daemons,
             \/ Notify(d) \/ Look(d) \/ EnterWait(d) \/ WaitElapsed(d) \/ SpuriousWake(d)
             \/ StopFlag(d) \/ StopNotify(d) \/ Exit(d) \/ Crash(d)
      PROVE  Table'
  <2>1. UNCHANGED <<now, loop, since, runs>>
    BY <1>2 DEF Notify, Look, EnterWait, WaitElapsed, SpuriousWake, StopFlag, StopNotify, Exit, Crash, Gone
  <2> QED BY <1>0, <2>1, TableStays DEF tableVars
<1>3. ASSUME NEW d \in Daemons, Start(d) \/ Sweep(d) PROVE Table'
  <2>1. CASE UNCHANGED <<loop, runs>>
    BY <1>0, <1>3, <2>1, TableStays DEF tableVars, Start, Sweep
  <2>2. CASE RecordMissed(now) \/ RecordMissed(now - Grace)
    BY <1>0, <1>3, <2>2, TableSweep DEF Start, Sweep
  <2> QED BY <1>3, <2>1, <2>2 DEF Start, Sweep
<1>4. ASSUME NEW d \in Daemons, Launch(d) \/ Send(d) PROVE Table'
  <2>1. UNCHANGED <<now, loop, since>>
    BY <1>4 DEF Launch, Send
  <2>2. UNCHANGED runs \/ \E status \in Statuses : UpdateRun(seen[d].run, status)
    BY <1>4 DEF Launch, Send, Statuses
  <2> QED BY <1>0, <2>1, <2>2, TableStays, TableUpdate DEF tableVars
<1>5. ASSUME NEW d \in Daemons, Disable(d) PROVE Table'
  <2>1. UNCHANGED <<now, runs>> /\ seen[d].run[1] \in Loops
    BY <1>5, TypedIs DEF Disable, Again, Go, Launching, Runs
  <2>2. CASE UNCHANGED <<loop, since>>
    BY <1>0, <2>1, <2>2, TableStays DEF tableVars
  <2>3. CASE Reschedule(seen[d].run[1], "off")
    BY <2>1, <2>3, TableReschedule
  <2> QED BY <1>5, <2>2, <2>3 DEF Disable
<1>6. ASSUME NEW d \in Daemons, NEW l \in Loops, Create(d, l) \/ SetEnabled(d, l) PROVE Table'
  <2>1. UNCHANGED <<now, runs>> /\ \E is \in {"on", "off"} : Reschedule(l, is)
    BY <1>6 DEF Create, SetEnabled, Request
  <2> QED BY <2>1, TableReschedule
<1>7. ASSUME NEW d \in Daemons, NEW l \in Loops, Delete(d, l) PROVE Table'
  <2> DEFINE D == {r \in runs : r.loop # l}
             f == [r \in runs |-> r]
  <2>1. runs' = {f[r] : r \in D} /\ \A r \in D : Same(r, f[r])
    BY <1>7 DEF Delete, Same
  <2>2. \A m \in Loops : \/ loop'[m] = loop[m] /\ since'[m] = since[m] /\ \A r \in runs : r.loop = m => r \in D
                         \/ loop'[m].is = "deleted"
    BY <1>7, TypedIs DEF Delete
  <2> HIDE DEF f, D
  <2>3. D \in SUBSET runs
    BY DEF D
  <2>4. Onward /\ now <= now'
    BY <1>0, <1>7, <2>2 DEF Onward, Delete, Request
  <2> QED BY <2>1, <2>2, <2>3, <2>4, TableSame
<1>8. ASSUME NEW k \in Runs, Ask(k) \/ Answered(k) \/ Finish(k) \/ Persist(k) PROVE Table'
  <2>1. UNCHANGED <<now, loop, since>>
    BY <1>8 DEF Ask, Answered, Finish, Persist, Event
  <2>2. UNCHANGED runs \/ \E status \in Statuses : UpdateRun(k, status)
    BY <1>8, TypedIs DEF Ask, Answered, Finish, Persist, Event, Statuses, SessionType
  <2> QED BY <1>0, <2>1, <2>2, TableStays, TableUpdate DEF tableVars
<1>9. ASSUME NEW d \in Daemons, StopJoined(d) PROVE Table'
  <2> DEFINE f == [r \in runs |-> IF Active(r) /\ r.owner = d THEN [r EXCEPT !.status = "settled"] ELSE r]
  <2>1. runs' = {f[r] : r \in runs} /\ UNCHANGED <<now, loop, since>>
    BY <1>9 DEF StopJoined
  <2>2. \A r \in runs : Same(r, f[r])
    BY RowFields, TypedIs DEF Same, Statuses
  <2> HIDE DEF f
  <2>3. now <= now' /\ Onward
    BY <1>0, <2>1 DEF Onward
  <2> QED BY <2>1, <2>2, <2>3, TableSame
<1>10. ASSUME NEW d \in Daemons, Claim(d) PROVE Table'
  BY <1>10, TableClaim
<1> QED
  BY <1>1, <1>2, <1>3, <1>4, <1>5, <1>6, <1>7, <1>8, <1>9, <1>10 DEF Next, Thread, Stop

LEMMA InitTable == Init => Table
<1> SUFFICES ASSUME Init PROVE Table
  OBVIOUS
<1>1. ASSUME NEW l \in Loops, NEW o \in Occurs[l], loop[l].is = "on", 0 < o, o < loop[l].next PROVE FALSE
  <2>1. loop[l].next = NextAfter(l, 0) /\ o \in Nat /\ NextAfter(l, 0) \in Nat
    BY <1>1, NextIs, Clock DEF Init
  <2> QED BY <1>1, <2>1, NextIs
<1> QED BY <1>1 DEF Init, Table

LEMMA TableCorrect == Spec => [](Typed /\ Table)
<1>1. Init => Typed /\ Table
  BY InitTyped, InitTable
<1>2. Typed /\ Table /\ [Next]_vars => (Typed /\ Table)'
  BY TypedNext, TableNext
<1> QED BY <1>1, <1>2, PTL DEF Spec

(* TypeOK: every variable keeps its type, a record belongs to a LOOP that   *)
(* exists and stands at one of its occurrences.                             *)
THEOREM TypeCorrect == Spec => []TypeOK
<1>1. Typed => TypeOK
  BY DEF Typed
<1> QED BY <1>1, TableCorrect, PTL

(* AccountedOnce: every occurrence that the schedule of a LOOP has passed   *)
(* is in exactly one record of the history, with any number of daemons that *)
(* sweep and claim at any moments (claim_due, record_offline_missed).       *)
THEOREM AccountedCorrect == Spec => []AccountedOnce
<1>1. Typed /\ Table => AccountedOnce
  <2> SUFFICES ASSUME Typed, Table, NEW l \in Loops, NEW o \in Occurs[l]
               PROVE  LET records == {r \in runs : r.loop = l /\ Covers(r, o)}
                      IN  /\ Cardinality(records) <= 1
                          /\ (loop[l].is = "on" /\ since[l] < o /\ o < loop[l].next) => records # {}
    BY DEF AccountedOnce
  <2> DEFINE records == {r \in runs : r.loop = l /\ Covers(r, o)}
  <2>1. \A r, s \in records : r = s
    BY DEF Table
  <2>2. Cardinality(records) <= 1
    <3>1. CASE records = {}
      <4> HIDE DEF records
      <4> QED BY <3>1, FS_EmptySet
    <3>2. CASE records # {}
      <4>1. PICK r : records = {r}
        BY <2>1, <3>2
      <4> HIDE DEF records
      <4> QED BY <4>1, FS_Singleton
    <3> QED BY <3>1, <3>2
  <2>3. (loop[l].is = "on" /\ since[l] < o /\ o < loop[l].next) => records # {}
    BY DEF Table
  <2> QED BY <2>2, <2>3
<1> QED BY <1>1, TableCorrect, PTL

-----------------------------------------------------------------------------
(* No run that catches up.                                                  *)

LEMMA OnwardNext ==
  ASSUME Typed, [Next]_vars
  PROVE  Onward /\ now <= now'
<1>0. now \in Nat /\ now - Grace \in Int /\ now - Grace <= now /\ loop \in [Loops -> LoopType]
      /\ \A l \in Loops : loop[l].next \in Nat
  BY TypedIs, Clock DEF LoopType
<1>1. CASE UNCHANGED <<loop>>
  <2>1. now' = now \/ now' = now + 1
    BY <1>1 DEF Next, vars, Tick, Start, Thread, Sweep, Claim, Launch, Disable, Send, Look, EnterWait,
       WaitElapsed, SpuriousWake, StopFlag, Stop, StopNotify, StopJoined, Exit, Crash, Gone, Notify,
       Create, SetEnabled, Delete, Request, Ask, Answered, Finish, Persist, Event
  <2> QED BY <1>0, <1>1, <2>1 DEF Onward
<1>2. ASSUME NEW cutoff \in Int, cutoff <= now, RecordMissed(cutoff) PROVE Onward
  <2>1. /\ \A l \in Loops \ Late(cutoff) : loop'[l] = loop[l]
        /\ \A l \in Late(cutoff) : /\ loop'[l].is = "on" /\ cutoff < loop'[l].next
                                   /\ loop[l].is = "on" /\ loop[l].next < cutoff /\ l \in Loops
                                   /\ loop'[l] \in LoopType
    BY <1>2, SweepIs DEF Late
  <2>2. \A l \in Late(cutoff) : loop[l].next <= loop'[l].next
    BY <1>0, <2>1, Clock DEF LoopType
  <2> QED BY <2>1, <2>2 DEF Onward
<1>3. ASSUME NEW d \in Daemons, Start(d) \/ Sweep(d) PROVE Onward /\ now' = now
  <2>1. CASE UNCHANGED <<loop>>
    BY <1>3, <2>1 DEF Onward, Start, Sweep
  <2>2. CASE RecordMissed(now) \/ RecordMissed(now - Grace)
    BY <1>0, <1>2, <1>3, <2>2 DEF Start, Sweep
  <2> QED BY <1>3, <2>1, <2>2 DEF Start, Sweep
<1>4. ASSUME NEW d \in Daemons, Claim(d) PROVE Onward /\ now' = now
  <2>1. now' = now
    BY <1>4 DEF Claim
  <2>2. CASE pc'[d] = "look"
    <3>1. UNCHANGED <<loop>>
      BY <1>4, <2>2, TypedIs DEF Claim, Go, Again
    <3> QED BY <2>1, <3>1 DEF Onward
  <2>3. CASE pc'[d] # "look"
    <3>1. PICK l \in Loops, r \in RowType :
             /\ loop[l].is = "on" /\ loop[l].next \in Occurs[l]
             /\ loop' = [loop EXCEPT ![l].next = NextAfter(l, loop[l].next)]
             /\ runs' = runs \union {r}
             /\ r.loop = l /\ r.at = loop[l].next
      BY <1>4, <2>3, ClaimIs DEF Claimed
    <3>2. /\ \A m \in Loops \ {l} : loop'[m] = loop[m]
          /\ loop'[l].is = "on" /\ loop[l].next < loop'[l].next /\ loop'[l] \in LoopType
      BY <3>1, ClaimTable
    <3>3. loop[l].next <= loop'[l].next
      BY <1>0, <3>2, Clock DEF LoopType
    <3> QED BY <2>1, <3>1, <3>2, <3>3 DEF Onward
  <2> QED BY <2>2, <2>3
<1>5. ASSUME NEW l \in Loops, NEW is \in {"on", "off"}, Reschedule(l, is) PROVE Onward
  BY <1>5, RescheduleIs DEF Onward
<1>6. ASSUME NEW d \in Daemons, Disable(d) PROVE Onward /\ now' = now
  <2>1. now' = now /\ seen[d].run[1] \in Loops
    BY <1>6, TypedIs DEF Disable, Again, Go, Launching, Runs
  <2> QED BY <1>5, <1>6, <2>1 DEF Disable, Onward
<1>7. ASSUME NEW d \in Daemons, NEW l \in Loops, Create(d, l) \/ SetEnabled(d, l) \/ Delete(d, l)
      PROVE  Onward /\ now' = now
  <2>1. now' = now
    BY <1>7 DEF Create, SetEnabled, Delete, Request
  <2>2. CASE Delete(d, l)
    BY <1>0, <2>1, <2>2 DEF Delete, Onward
  <2> QED BY <1>5, <1>7, <2>1, <2>2 DEF Create, SetEnabled
<1>8. UNCHANGED <<loop>> \/ \E d \in Daemons : Start(d) \/ Sweep(d) \/ Claim(d) \/ Disable(d)
      \/ \E l \in Loops : Create(d, l) \/ SetEnabled(d, l) \/ Delete(d, l)
  BY DEF Next, vars, Tick, Thread, Launch, Send, Look, EnterWait,
       WaitElapsed, SpuriousWake, StopFlag, Stop, StopNotify, StopJoined, Exit, Crash, Gone, Notify,
       Ask, Answered, Finish, Persist, Event
<1> QED BY <1>0, <1>1, <1>3, <1>4, <1>6, <1>7, <1>8

(* A thread that claims has swept at its own clock reading, and no schedule *)
(* has gone back behind that moment.                                        *)
OnTime ==
  /\ \A d \in Daemons : pc[d] = "claim" =>
       \A l \in Loops : loop[l].is = "on" => loop[l].next >= seen[d].at - Grace
  /\ NoCatchUp

LEMMA ToClaim ==
  ASSUME Typed, [Next]_vars, NEW d \in Daemons, pc'[d] = "claim"
  PROVE  (pc[d] = "claim" /\ seen'[d] = seen[d]) \/ (Sweep(d) /\ ~Stopping(d))
<1>0. pc \in [Daemons -> {"none", "sweep", "claim", "launch", "disable", "send", "look", "enter", "wait", "end"}]
      /\ seen \in [Daemons -> SeenType]
  BY TypedIs
<1>1. CASE Tick \/ UNCHANGED vars
  BY <1>1 DEF Tick, vars, threadVars
<1>2. ASSUME NEW e \in Daemons, Start(e) \/ Sweep(e) \/ Claim(e) PROVE
        (pc[d] = "claim" /\ seen'[d] = seen[d]) \/ (Sweep(d) /\ ~Stopping(d))
  BY <1>0, <1>2 DEF Start, Sweep, Claim, Go, Again
<1>3. ASSUME NEW e \in Daemons, Launch(e) \/ Disable(e) \/ Send(e) \/ Look(e) \/ EnterWait(e)
               \/ WaitElapsed(e) \/ SpuriousWake(e) \/ Notify(e) \/ StopNotify(e)
      PROVE  pc[d] = "claim" /\ seen'[d] = seen[d]
  BY <1>0, <1>3 DEF Launch, Disable, Send, Look, EnterWait, WaitElapsed, SpuriousWake, Notify, StopNotify,
     Wake, Go, Again, threadVars
<1>4. ASSUME NEW e \in Daemons, StopFlag(e) \/ StopJoined(e) \/ Exit(e) \/ Crash(e)
      PROVE  pc[d] = "claim" /\ seen'[d] = seen[d]
  BY <1>0, <1>4 DEF StopFlag, StopJoined, Exit, Crash, Gone, threadVars
<1>5. ASSUME NEW e \in Daemons, NEW l \in Loops, Create(e, l) \/ SetEnabled(e, l) \/ Delete(e, l)
      PROVE  pc[d] = "claim" /\ seen'[d] = seen[d]
  BY <1>5 DEF Create, SetEnabled, Delete, Request, threadVars
<1>6. ASSUME NEW k \in Runs, Ask(k) \/ Answered(k) \/ Finish(k) \/ Persist(k)
      PROVE  pc[d] = "claim" /\ seen'[d] = seen[d]
  BY <1>6 DEF Ask, Answered, Finish, Persist, Event, threadVars
<1> QED BY <1>1, <1>2, <1>3, <1>4, <1>5, <1>6 DEF Next, Thread, Stop

(* What changes the status of a record.                                      *)
Touched(r) ==
  \/ \E d \in Daemons : (Launch(d) \/ Send(d)) /\ seen[d].run = Key(r)
  \/ \E d \in Daemons : StopJoined(d) /\ r.owner = d /\ Active(r)
  \/ Persist(Key(r))

(* A record of a step: it was there before, up to its status, or it is a    *)
(* missed one, or the run that a daemon has claimed.                        *)
LEMMA RowOrigin ==
  ASSUME Typed, [Next]_vars, NEW s \in runs'
  PROVE  \/ \E r \in runs : Same(r, s) /\ Key(r) = Key(s) /\ (s.status = r.status \/ Touched(r))
         \/ s.owner = "nobody" /\ ~Active(s) /\ ~Used(Key(s))
         \/ \E d \in Daemons, l \in Loops :
              /\ loop[l].is = "on" /\ loop[l].next <= seen[d].at /\ s.loop = l /\ s.at = loop[l].next
              /\ s.started = seen[d].at /\ s.owner = d /\ s.status = "running"
              /\ Claim(d) /\ Go(d, "claim", "launch") /\ runs' = runs \union {s}
              /\ seen' = [seen EXCEPT ![d] = [Unseen EXCEPT !.run = Key(s)]]
              /\ ~Used(Key(s))
<1> DEFINE Old == \E r \in runs : Same(r, s) /\ Key(r) = Key(s) /\ (s.status = r.status \/ Touched(r))
           Miss == s.owner = "nobody" /\ ~Active(s) /\ ~Used(Key(s))
           New == \E d \in Daemons, l \in Loops :
                    /\ loop[l].is = "on" /\ loop[l].next <= seen[d].at /\ s.loop = l /\ s.at = loop[l].next
                    /\ s.started = seen[d].at /\ s.owner = d /\ s.status = "running"
                    /\ Claim(d) /\ Go(d, "claim", "launch") /\ runs' = runs \union {s}
                    /\ seen' = [seen EXCEPT ![d] = [Unseen EXCEPT !.run = Key(s)]]
                    /\ ~Used(Key(s))
<1>0. s \in runs => Old
  BY DEF Same
<1>u. ASSUME loop[s.loop].is = "on", loop[s.loop].next <= s.at, s.at \in Nat, loop[s.loop].next \in Nat
      PROVE  ~Used(Key(s))
  BY <1>u DEF Used, Key
<1>1. ASSUME NEW k, NEW status \in Statuses, UpdateRun(k, status), loop' = loop,
             \A r \in runs : Key(r) = k => Touched(r)
      PROVE  Old
  BY <1>1, UpdateIs
<1>2. ASSUME NEW cutoff \in Int, cutoff <= now, RecordMissed(cutoff) PROVE Old \/ Miss
  <2>1. CASE s \in runs
    BY <1>0, <2>1
  <2>2. CASE s \notin runs
    <3>1. PICK l \in Late(cutoff) : Swept(l, cutoff, s)
      BY <1>2, <2>2, SweepIs
    <3>2. l \in Loops /\ loop[l].is = "on" /\ loop[l].next \in Occurs[l] /\ loop[l].next < cutoff
      BY <1>2, <3>1, SweepIs DEF Late
    <3>3. loop[l].next \in Nat /\ loop[l].next <= cutoff /\ cutoff <= MaxTime
      BY <1>2, <3>2, TypedIs, Clock
    <3>4. Max(Between(l, loop[l].next, cutoff)) \in Between(l, loop[l].next, cutoff)
      BY <1>2, <3>2, <3>3, BetweenIs
    <3>5. s.loop = l /\ s.at \in Between(l, loop[l].next, cutoff)
      BY <3>1, <3>4 DEF Swept
    <3>6. Occurs[l] \subseteq Nat
      BY <3>2, Clock
    <3>7. loop[l].next <= s.at /\ s.at \in Nat
      BY <3>5, <3>6 DEF Between
    <3> QED BY <1>u, <3>1, <3>2, <3>3, <3>5, <3>7 DEF Swept, Active
  <2> QED BY <2>1, <2>2
<1>3. ASSUME NEW d \in Daemons, Start(d) \/ Sweep(d) PROVE Old \/ Miss
  <2>1. now - Grace \in Int /\ now - Grace <= now /\ now \in Int /\ now <= now
    BY TypedIs, Clock
  <2> HIDE DEF Old, Miss
  <2> QED BY <1>0, <1>2, <1>3, <2>1 DEF Start, Sweep
<1>4. ASSUME NEW d \in Daemons, Launch(d) \/ Send(d) PROVE Old
  <2>1. \A r \in runs : Key(r) = seen[d].run => Touched(r)
    BY <1>4 DEF Touched
  <2>2. runs' = runs \/ \E status \in Statuses : UpdateRun(seen[d].run, status)
    BY <1>4 DEF Launch, Send, Statuses
  <2>3. loop' = loop
    BY <1>4 DEF Launch, Send
  <2> HIDE DEF Old
  <2> QED BY <1>0, <1>1, <2>1, <2>2, <2>3
<1>5. ASSUME NEW k \in Runs, Ask(k) \/ Answered(k) \/ Finish(k) \/ Persist(k) PROVE Old
  <2>1. CASE Persist(k)
    <3>1. session[k].write \in Statuses /\ UpdateRun(k, session[k].write) /\ loop' = loop
      BY <2>1, TypedIs DEF Persist, Statuses, SessionType
    <3>2. \A r \in runs : Key(r) = k => Touched(r)
      BY <2>1 DEF Touched
    <3> QED BY <1>1, <3>1, <3>2
  <2>2. CASE runs' = runs
    BY <1>0, <2>2
  <2> QED BY <1>5, <2>1, <2>2 DEF Ask, Answered, Finish, Event
<1>6. ASSUME NEW d \in Daemons, StopJoined(d) PROVE Old
  <2>1. PICK r \in runs : s = IF Active(r) /\ r.owner = d THEN [r EXCEPT !.status = "settled"] ELSE r
    BY <1>6 DEF StopJoined
  <2>2. Same(r, s)
    BY <2>1, RowFields, TypedIs DEF Same, Statuses
  <2>3. s.status = r.status \/ Touched(r)
    BY <1>6, <2>1 DEF Touched
  <2> QED BY <2>2, <2>3 DEF Same, Key
<1>7. ASSUME NEW d \in Daemons, Claim(d) PROVE Old \/ Miss \/ New
  <2>1. CASE s \in runs
    BY <1>0, <2>1
  <2>2. CASE s \notin runs
    <3>1. pc'[d] # "look"
      BY <1>7, <2>2, TypedIs DEF Claim, Go, Again
    <3>2. PICK l \in Loops, r \in RowType :
             /\ loop[l].is = "on" /\ loop[l].next <= seen[d].at
             /\ runs' = runs \union {r} /\ Claimed(l, d, r)
      BY <1>7, <3>1, ClaimIs
    <3>3. s = r
      BY <2>2, <3>2
    <3>u. ~Used(Key(s))
      BY <1>u, <3>2, <3>3, TypedIs, Clock DEF Claimed, LoopType
    <3>4. CASE s.status = "busy"
      BY <3>2, <3>3, <3>4, <3>u, ConstantsAssumption DEF Claimed, Active
    <3>5. CASE s.status # "busy"
      <4>1. s.loop = l /\ s.at = loop[l].next /\ Key(s) = <<l, loop[l].next>> /\ runs' = runs \union {s}
        BY <3>2, <3>3 DEF Claimed, Key
      <4> QED BY <1>7, <3>2, <3>3, <3>5, <3>u, <4>1 DEF Claimed
    <3> QED BY <3>4, <3>5
  <2> QED BY <2>1, <2>2
<1>8. runs' = runs \/ (\E d \in Daemons : Start(d) \/ Sweep(d) \/ Claim(d) \/ Launch(d) \/ Send(d) \/ StopJoined(d))
      \/ (\E k \in Runs : Persist(k)) \/ (\E d \in Daemons, l \in Loops : Delete(d, l))
  BY DEF Next, vars, Tick, Thread, Disable, Look, EnterWait,
       WaitElapsed, SpuriousWake, StopFlag, Stop, StopNotify, Exit, Crash, Gone, Notify,
       Create, SetEnabled, Ask, Answered, Finish, Event
<1>9. ASSUME NEW d \in Daemons, NEW l \in Loops, Delete(d, l) PROVE Old
  BY <1>0, <1>9 DEF Delete
<1> HIDE DEF Old, Miss, New
<1>10. Old \/ Miss \/ New
  BY <1>0, <1>3, <1>4, <1>5, <1>6, <1>7, <1>8, <1>9
<1> QED BY <1>10 DEF Old, Miss, New

LEMMA OnTimeNext == Typed /\ Typed' /\ OnTime /\ [Next]_vars => OnTime'
<1> SUFFICES ASSUME Typed, Typed', OnTime, [Next]_vars PROVE OnTime'
  OBVIOUS
<1>0. /\ Grace \in Nat /\ now \in Nat /\ \A d \in Daemons : seen[d].at \in Nat /\ seen[d].at <= now
      /\ \A l \in Loops : loop[l].next \in Nat /\ loop'[l].next \in Nat
      /\ runs \subseteq RowType /\ runs' \subseteq RowType
  BY TypedIs, TypedIsNext, Clock DEF LoopType, SeenType
<1>1. ASSUME NEW d \in Daemons, pc'[d] = "claim", NEW l \in Loops, loop'[l].is = "on"
      PROVE  loop'[l].next >= seen'[d].at - Grace
  <2>1. CASE pc[d] = "claim" /\ seen'[d] = seen[d]
    <3>1. Onward
      BY OnwardNext
    <3>2. loop[l].is = "on" => loop[l].next >= seen[d].at - Grace
      BY <2>1 DEF OnTime
    <3>3. (loop[l].is = "on" /\ loop[l].next <= loop'[l].next) \/ now < loop'[l].next
      BY <1>0, <1>1, <3>1 DEF Onward
    <3> QED BY <1>0, <2>1, <3>2, <3>3
  <2>2. CASE Sweep(d) /\ ~Stopping(d)
    <3>1. RecordMissed(now - Grace) /\ seen'[d].at = now
      BY <2>2, TypedIs DEF Sweep, Unseen
    <3>2. now - Grace \in Int /\ now - Grace <= now
      BY <1>0
    <3>3. /\ l \notin Late(now - Grace) => loop'[l] = loop[l]
          /\ l \in Late(now - Grace) => now - Grace < loop'[l].next
      BY <3>1, <3>2, SweepIs
    <3> QED BY <1>0, <1>1, <3>1, <3>2, <3>3 DEF Late
  <2> QED BY <1>1, <2>1, <2>2, ToClaim
<1>2. ASSUME NEW s \in runs', s.owner \in Daemons PROVE s.started - s.at <= Grace
  <2>1. CASE \E r \in runs : Same(r, s)
    BY <1>2, <2>1 DEF OnTime, NoCatchUp, Same
  <2>2. CASE s.owner = "nobody"
    BY <1>2, <2>2, ConstantsAssumption
  <2>3. CASE \E d \in Daemons, l \in Loops :
              /\ loop[l].is = "on" /\ s.at = loop[l].next
              /\ s.started = seen[d].at /\ pc[d] = "claim"
    BY <1>0, <2>3 DEF OnTime
  <2> QED BY <2>1, <2>2, <2>3, RowOrigin DEF Go
<1> QED BY <1>1, <1>2 DEF OnTime, NoCatchUp

(* NoCatchUp: a run that a daemon claims was due no more than the grace     *)
(* before: its sweep has recorded what was older, and no schedule that it   *)
(* reads has gone back behind its clock reading since (run, claim_due).     *)
THEOREM NoCatchUpCorrect == Spec => []NoCatchUp
<1>1. Init => OnTime
  BY DEF Init, OnTime, NoCatchUp
<1>2. OnTime => NoCatchUp
  BY DEF OnTime
<1> QED BY <1>1, <1>2, OnTimeNext, TableCorrect, PTL DEF Spec

-----------------------------------------------------------------------------
(* Sessions and their records.                                              *)

Holds(d) == pc[d] \in {"launch", "send"}

(* A run in the hands of a scheduler thread has no session yet, and its     *)
(* record, unless the LOOP was deleted, is running and belongs to that      *)
(* daemon.                                                                  *)
Hand(d) ==
  /\ pc[d] \notin {"none", "end"} => Listening(d)
  /\ Holds(d) =>
       /\ Used(seen[d].run) /\ session[seen[d].run] = NoSession
       /\ \A r \in runs : Key(r) = seen[d].run => r.owner = d /\ r.status = "running"

Apart == \A d, e \in Daemons : Holds(d) /\ Holds(e) /\ d # e => seen[d].run # seen[e].run

(* What the record of a session says.                                       *)
Tells(r, x) ==
  /\ x.write = "none" => /\ x.state = "waiting" => r.status = "waiting"
                         /\ x.state = "busy" => Active(r)
                         /\ x.state = "over" => ~Active(r)
  /\ x.write # "none" => Active(r)

Sess(k) ==
  session[k] # NoSession =>
    /\ session[k].owner \in Daemons /\ main[session[k].owner] \notin {"off", "gone"} /\ Used(k)
    /\ Listening(session[k].owner) => /\ session[k].write = "waiting" => session[k].state = "waiting"
                                      /\ session[k].write = "settled" => session[k].state = "over"
    /\ \A r \in runs : Key(r) = k =>
         r.owner = session[k].owner /\ (Listening(r.owner) => Tells(r, session[k]))

Follows == (\A d \in Daemons : Hand(d)) /\ Apart /\ (\A k \in Runs : Sess(k))

(* What each kind of step does to the threads, the daemons and the          *)
(* sessions.                                                                *)
LEMMA ToHold ==
  ASSUME Typed, [Next]_vars, NEW d \in Daemons, Holds(d)'
  PROVE  \/ Claim(d) /\ Go(d, "claim", "launch")
         \/ Launch(d) /\ Go(d, "launch", "send") /\ seen'[d] = seen[d] /\ UpdateRun(seen[d].run, "running")
         \/ pc'[d] = pc[d] /\ seen'[d] = seen[d] /\ ~Launch(d) /\ ~Send(d)
<1>0. pc \in [Daemons -> {"none", "sweep", "claim", "launch", "disable", "send", "look", "enter", "wait", "end"}]
      /\ seen \in [Daemons -> SeenType] /\ pc'[d] \in {"launch", "send"}
  BY TypedIs DEF Holds
<1> DEFINE Kept == pc'[d] = pc[d] /\ seen'[d] = seen[d]
<1>1. Send(d) => FALSE
  BY <1>0 DEF Send, Again, Go
<1>2. Launch(d) => Go(d, "launch", "send") /\ seen'[d] = seen[d] /\ UpdateRun(seen[d].run, "running")
  BY <1>0 DEF Launch, Again, Go
<1>3. Claim(d) => Go(d, "claim", "launch")
  BY <1>0 DEF Claim, Again, Go
<1>4. CASE Tick \/ UNCHANGED vars
  BY <1>1, <1>2, <1>4 DEF Tick, vars, threadVars
<1>5. ASSUME NEW e \in Daemons, Start(e) \/ Sweep(e) PROVE Kept
  BY <1>0, <1>5 DEF Start, Sweep, Go
<1>6. ASSUME NEW e \in Daemons, Claim(e) \/ Launch(e), e # d PROVE Kept
  BY <1>0, <1>6 DEF Claim, Launch, Go, Again
<1>7. ASSUME NEW e \in Daemons, Disable(e) \/ Send(e) \/ WaitElapsed(e) \/ SpuriousWake(e) \/ Notify(e) \/ StopNotify(e)
      PROVE  Kept
  BY <1>0, <1>7 DEF Disable, Send, WaitElapsed, SpuriousWake, Notify, StopNotify, Wake, Go, Again, threadVars
<1>8. ASSUME NEW e \in Daemons, Look(e) \/ EnterWait(e) PROVE Kept
  BY <1>0, <1>8 DEF Look, EnterWait, Go
<1>9. ASSUME NEW e \in Daemons, StopFlag(e) \/ StopJoined(e) \/ Exit(e) \/ Crash(e) PROVE Kept
  BY <1>0, <1>9 DEF StopFlag, StopJoined, Exit, Crash, Gone, threadVars
<1>10. ASSUME NEW e \in Daemons, NEW l \in Loops, Create(e, l) \/ SetEnabled(e, l) \/ Delete(e, l)
       PROVE  Kept
  BY <1>10 DEF Create, SetEnabled, Delete, Request, threadVars
<1>11. ASSUME NEW k \in Runs, Ask(k) \/ Answered(k) \/ Finish(k) \/ Persist(k) PROVE Kept
  BY <1>11 DEF Ask, Answered, Finish, Persist, Event, threadVars
<1>12. Claim(d) \/ Launch(d) \/ (Kept /\ ~Launch(d) /\ ~Send(d))
  <2> HIDE DEF Kept
  <2> QED BY <1>1, <1>4, <1>5, <1>6, <1>7, <1>8, <1>9, <1>10, <1>11 DEF Next, Thread, Stop, Kept
<1> QED BY <1>2, <1>3, <1>12

LEMMA MainStep ==
  ASSUME Typed, [Next]_vars, NEW d \in Daemons
  PROVE  \/ main'[d] = main[d]
         \/ Start(d) /\ main[d] = "off" /\ main'[d] = "up"
         \/ main[d] \in {"up", "flag"} /\ main'[d] \in {"flag", "notified"}
         \/ StopJoined(d) /\ main[d] = "notified" /\ main'[d] = "stopped"
         \/ Gone(d) /\ main'[d] = "gone"
<1>0. main \in [Daemons -> {"off", "up", "flag", "notified", "stopped", "gone"}]
  BY TypedIs
<1>1. ASSUME NEW e \in Daemons, e # d, Start(e) \/ StopFlag(e) \/ StopNotify(e) \/ StopJoined(e) \/ Exit(e) \/ Crash(e)
      PROVE  main'[d] = main[d]
  BY <1>0, <1>1 DEF Start, StopFlag, StopNotify, StopJoined, Exit, Crash, Gone, MainGoes
<1>2. main' = main \/ \E e \in Daemons : Start(e) \/ StopFlag(e) \/ StopNotify(e) \/ StopJoined(e) \/ Exit(e) \/ Crash(e)
  BY DEF Next, vars, Tick, Thread, Sweep, Claim, Launch, Disable, Send, Look, EnterWait,
       WaitElapsed, SpuriousWake, Stop, Notify, Create, SetEnabled, Delete, Request,
       Ask, Answered, Finish, Persist, Event
<1>3. Start(d) => main[d] = "off" /\ main'[d] = "up"
  BY <1>0 DEF Start
<1>4. StopFlag(d) \/ StopNotify(d) => main[d] \in {"up", "flag"} /\ main'[d] \in {"flag", "notified"}
  BY <1>0 DEF StopFlag, StopNotify, MainGoes
<1>5. StopJoined(d) => main[d] = "notified" /\ main'[d] = "stopped"
  BY <1>0 DEF StopJoined, MainGoes
<1>6. Exit(d) \/ Crash(d) => Gone(d) /\ main'[d] = "gone"
  BY <1>0 DEF Exit, Crash, Gone
<1> QED BY <1>1, <1>2, <1>3, <1>4, <1>5, <1>6

LEMMA SessionStep ==
  ASSUME Typed, [Next]_vars, NEW k \in Runs
  PROVE  \/ session'[k] = session[k]
         \/ \E d \in Daemons : Send(d) /\ seen[d].run = k /\ runs' = runs
                               /\ session'[k] = [NoSession EXCEPT !.owner = d, !.state = "busy"]
         \/ Ask(k) \/ Answered(k) \/ Finish(k) \/ Persist(k)
         \/ \E d \in Daemons : session[k].owner = d /\ StopJoined(d)
         \/ session'[k] = NoSession
<1>0. session \in [Runs -> SessionType]
  BY TypedIs
<1>1. ASSUME NEW d \in Daemons, Send(d), session'[k] # session[k]
      PROVE  seen[d].run = k /\ runs' = runs /\ session'[k] = [NoSession EXCEPT !.owner = d, !.state = "busy"]
  BY <1>0, <1>1 DEF Send
<1>2. ASSUME NEW q \in Runs, q # k, Ask(q) \/ Answered(q) \/ Finish(q) \/ Persist(q)
      PROVE  session'[k] = session[k]
  BY <1>0, <1>2 DEF Ask, Answered, Finish, Persist, Event
<1>3. ASSUME NEW d \in Daemons, StopJoined(d), session[k].owner # d PROVE session'[k] = session[k]
  BY <1>0, <1>3 DEF StopJoined
<1>4. ASSUME NEW d \in Daemons, Exit(d) \/ Crash(d)
      PROVE  session'[k] = session[k] \/ session'[k] = NoSession
  BY <1>0, <1>4 DEF Exit, Crash, Gone
<1>5. session' = session \/ (\E d \in Daemons : Send(d) \/ StopJoined(d) \/ Exit(d) \/ Crash(d))
      \/ \E q \in Runs : Ask(q) \/ Answered(q) \/ Finish(q) \/ Persist(q)
  BY DEF Next, vars, Tick, Thread, Start, Sweep, Claim, Launch, Disable, Look, EnterWait,
       WaitElapsed, SpuriousWake, Stop, StopFlag, StopNotify, Notify, Create, SetEnabled, Delete, Request
<1> QED BY <1>1, <1>2, <1>3, <1>4, <1>5

LEMMA PcStep ==
  ASSUME Typed, [Next]_vars, NEW d \in Daemons, pc'[d] \notin {"none", "end"}
  PROVE  Start(d) \/ pc[d] \notin {"none", "end"}
<1>0. pc \in [Daemons -> {"none", "sweep", "claim", "launch", "disable", "send", "look", "enter", "wait", "end"}]
  BY TypedIs
<1> DEFINE Was == pc[d] \notin {"none", "end"}
<1>1. ASSUME NEW e \in Daemons, Start(e) PROVE Start(d) \/ Was
  BY <1>0, <1>1 DEF Start, Go
<1>2. ASSUME NEW e \in Daemons, Sweep(e) \/ Claim(e) \/ Launch(e) \/ Look(e) \/ EnterWait(e) PROVE Was
  BY <1>0, <1>2 DEF Sweep, Claim, Launch, Look, EnterWait, Go, Again
<1>3. ASSUME NEW e \in Daemons, Disable(e) \/ Send(e) \/ WaitElapsed(e) \/ SpuriousWake(e) \/ Notify(e) \/ StopNotify(e)
      PROVE  Was
  BY <1>0, <1>3 DEF Disable, Send, WaitElapsed, SpuriousWake, Notify, StopNotify, Wake, Go, Again, threadVars
<1>4. ASSUME NEW e \in Daemons, StopFlag(e) \/ StopJoined(e) \/ Exit(e) \/ Crash(e) PROVE Was
  BY <1>0, <1>4 DEF StopFlag, StopJoined, Exit, Crash, Gone, threadVars
<1>5. ASSUME NEW e \in Daemons, NEW l \in Loops, Create(e, l) \/ SetEnabled(e, l) \/ Delete(e, l)
      PROVE  Was
  BY <1>5 DEF Create, SetEnabled, Delete, Request, threadVars
<1>6. ASSUME NEW k \in Runs, Ask(k) \/ Answered(k) \/ Finish(k) \/ Persist(k) PROVE Was
  BY <1>6 DEF Ask, Answered, Finish, Persist, Event, threadVars
<1>7. ASSUME Tick \/ UNCHANGED vars PROVE Was
  BY <1>7 DEF Tick, vars, threadVars
<1> HIDE DEF Was
<1>8. ASSUME NEW e \in Daemons,
             Start(e) \/ Thread(e) \/ SpuriousWake(e) \/ StopFlag(e) \/ Stop(e) \/ Crash(e) \/ Notify(e)
      PROVE  Start(d) \/ Was
  BY <1>1, <1>2, <1>3, <1>4, <1>8 DEF Thread, Stop
<1>9. Start(d) \/ Was
  BY <1>5, <1>6, <1>7, <1>8 DEF Next
<1> QED BY <1>9 DEF Was

LEMMA ClaimHold ==
  ASSUME Typed, NEW d \in Daemons, Claim(d), Go(d, "claim", "launch")
  PROVE  \E r \in RowType :
           /\ runs' = runs \union {r} /\ r.owner = d /\ r.status = "running" /\ ~Used(Key(r))
           /\ seen'[d].run = Key(r) /\ \A e \in Daemons : e # d => seen'[e] = seen[e] /\ pc'[e] = pc[e]
<1>0. pc \in [Daemons -> {"none", "sweep", "claim", "launch", "disable", "send", "look", "enter", "wait", "end"}]
      /\ seen \in [Daemons -> SeenType] /\ pc' = [pc EXCEPT ![d] = "launch"]
      /\ \A l \in Loops : loop[l].next \in Nat
  BY TypedIs, Clock DEF Go, LoopType
<1>1. PICK l \in Loops, r \in RowType :
        loop[l].is = "on" /\ runs' = runs \union {r} /\ Claimed(l, d, r)
  BY <1>0, ClaimIs
<1>2. /\ r.loop = l /\ r.at = loop[l].next /\ r.status = "running" /\ r.owner = d
      /\ seen' = [seen EXCEPT ![d] = [Unseen EXCEPT !.run = <<l, loop[l].next>>]]
  BY <1>0, <1>1 DEF Claimed, Again, Go
<1>3. [Unseen EXCEPT !.run = <<l, loop[l].next>>].run = <<l, loop[l].next>>
  BY DEF Unseen
<1>4. Key(r) = <<l, loop[l].next>>
  BY <1>2 DEF Key
<1>5. ~Used(Key(r))
  BY <1>0, <1>1, <1>4 DEF Used
<1> QED BY <1>0, <1>1, <1>2, <1>3, <1>4, <1>5

LEMMA ListeningNext ==
  ASSUME Typed, Follows, [Next]_vars, NEW d \in Daemons, pc'[d] \notin {"none", "end"}
  PROVE  Listening(d)'
<1>1. Start(d) \/ Listening(d)
  BY PcStep DEF Follows, Hand
<1>2. Gone(d) => pc'[d] = "none"
  BY TypedIs DEF Gone
<1>3. StopJoined(d) => pc'[d] = "end"
  BY DEF StopJoined, threadVars
<1>4. Start(d) => main'[d] = "up"
  BY TypedIs DEF Start
<1> QED BY <1>1, <1>2, <1>3, <1>4, MainStep DEF Listening

LEMMA HandNext ==
  ASSUME Typed, Typed', Table, Follows, [Next]_vars, NEW d \in Daemons
  PROVE  Hand(d)'
<1>0. /\ runs \subseteq RowType /\ runs' \subseteq RowType /\ Onward /\ now <= now'
      /\ seen \in [Daemons -> SeenType] /\ Hand(d) /\ session \in [Runs -> SessionType]
  BY TypedIs, TypedIsNext, OnwardNext DEF Follows
<1>1. pc'[d] \notin {"none", "end"} => Listening(d)'
  BY ListeningNext
<1>2. ASSUME Holds(d)'
      PROVE  /\ Used(seen[d].run)' /\ session'[seen'[d].run] = NoSession
             /\ \A s \in runs' : Key(s) = seen'[d].run => s.owner = d /\ s.status = "running"
  <2>1. CASE Claim(d) /\ Go(d, "claim", "launch")
    <3>1. PICK r \in RowType :
             /\ runs' = runs \union {r} /\ r.owner = d /\ r.status = "running" /\ ~Used(Key(r))
             /\ seen'[d].run = Key(r)
      BY <2>1, ClaimHold
    <3>2. Key(r) \in Runs
      BY KeyType
    <3>3. session'[Key(r)] = NoSession
      BY <2>1, <3>1, <3>2 DEF Claim, Follows, Sess
    <3>4. Used(Key(r))'
      <4>1. \A s \in runs' : Used(Key(s))'
        <5>1. Table'
          BY TableNext
        <5> QED BY <5>1 DEF Table, Key
      <4> QED BY <3>1, <4>1
    <3>5. \A s \in runs : Key(s) # Key(r)
      BY <3>1 DEF Table
    <3> QED BY <3>1, <3>3, <3>4, <3>5
  <2>2. CASE Launch(d) /\ Go(d, "launch", "send") /\ seen'[d] = seen[d] /\ UpdateRun(seen[d].run, "running")
    <3>1. Holds(d) /\ seen[d].run \in Runs
      BY <2>2, TypedIs DEF Holds, Go, Launching
    <3>2. Used(seen[d].run) /\ session[seen[d].run] = NoSession
          /\ \A r \in runs : Key(r) = seen[d].run => r.owner = d
      BY <1>0, <3>1 DEF Hand
    <3>3. Used(seen[d].run)'
      BY <1>0, <2>2, <3>1, <3>2, UsedStays
    <3>4. UNCHANGED <<loop, session>> /\ "running" \in Statuses
      BY <2>2 DEF Launch, Statuses
    <3>5. \A s \in runs' : \E r \in runs : Same(r, s) /\ Key(s) = Key(r)
                               /\ s.status = IF Key(r) = seen[d].run THEN "running" ELSE r.status
      BY <2>2, <3>4, UpdateIs
    <3>6. \A s \in runs' : Key(s) = seen[d].run => s.owner = d /\ s.status = "running"
      BY <3>2, <3>5 DEF Same
    <3> QED BY <2>2, <3>2, <3>3, <3>4, <3>6
  <2>3. CASE pc'[d] = pc[d] /\ seen'[d] = seen[d] /\ ~Launch(d) /\ ~Send(d)
    <3>0. Holds(d) /\ seen[d].run \in Runs
      BY <1>2, <2>3, TypedIs DEF Holds, Launching
    <3>1. PICK k \in Runs : k = seen[d].run
      BY <3>0
    <3>2. Used(k) /\ session[k] = NoSession /\ \A r \in runs : Key(r) = k => r.owner = d /\ r.status = "running"
      BY <1>0, <3>0, <3>1 DEF Hand
    <3>3. ASSUME NEW e \in Daemons, Launch(e) \/ Send(e) PROVE seen[e].run # k
      <4>1. Holds(e) /\ e # d
        BY <2>3, <3>3 DEF Launch, Send, Again, Go, Holds
      <4> QED BY <3>0, <3>1, <4>1 DEF Follows, Apart
    <3>4. Used(k)'
      BY <1>0, <3>1, <3>2, UsedStays
    <3>5. ~(Ask(k) \/ Answered(k) \/ Finish(k) \/ Persist(k))
      BY <3>2 DEF Ask, Answered, Finish, Persist, Event, NoSession
    <3>6. session'[k] = NoSession
      <4>1. \A e \in Daemons : session[k].owner # e
        BY <3>2, ConstantsAssumption DEF NoSession
      <4> QED BY <3>1, <3>2, <3>3, <3>5, <4>1, SessionStep
    <3>7. ASSUME NEW s \in runs', Key(s) = k PROVE s.owner = d /\ s.status = "running"
      <4>1. PICK r \in runs : Same(r, s) /\ Key(r) = Key(s) /\ (s.status = r.status \/ Touched(r))
        BY <3>2, <3>7, RowOrigin
      <4>2. r.owner = d /\ r.status = "running" /\ s.owner = d
        BY <3>2, <3>7, <4>1 DEF Same
      <4>3. ~StopJoined(d)
        BY <3>0 DEF StopJoined, Holds
      <4>4. ~Touched(r)
        BY <3>3, <3>5, <3>7, <4>1, <4>2, <4>3 DEF Touched
      <4> QED BY <4>1, <4>2, <4>4
    <3> QED BY <2>3, <3>1, <3>4, <3>6, <3>7
  <2> QED BY <1>2, <2>1, <2>2, <2>3, ToHold
<1> QED BY <1>1, <1>2 DEF Hand, Holds

LEMMA ApartNext ==
  ASSUME Typed, Follows, [Next]_vars
  PROVE  Apart'
<1> SUFFICES ASSUME NEW d \in Daemons, NEW e \in Daemons, Holds(d)', Holds(e)', d # e
             PROVE  seen'[d].run # seen'[e].run
  BY DEF Apart
<1>1. ASSUME NEW i \in Daemons, Holds(i)', ~(Claim(i) /\ Go(i, "claim", "launch"))
      PROVE  Holds(i) /\ seen'[i] = seen[i]
  BY <1>1, ToHold DEF Holds, Go
<1>2. ASSUME NEW i \in Daemons, NEW j \in Daemons, i # j, Holds(j)', Claim(i), Go(i, "claim", "launch")
      PROVE  seen'[i].run # seen'[j].run
  <2>1. PICK r \in RowType : /\ ~Used(Key(r)) /\ seen'[i].run = Key(r)
                             /\ \A q \in Daemons : q # i => seen'[q] = seen[q] /\ pc'[q] = pc[q]
    BY <1>2, ClaimHold
  <2>2. Holds(j) /\ seen'[j] = seen[j]
    BY <1>2, <2>1 DEF Holds
  <2>3. Used(seen[j].run)
    BY <2>2 DEF Follows, Hand
  <2> QED BY <2>1, <2>2, <2>3
<1> QED BY <1>1, <1>2 DEF Follows, Apart

(* The records of a session after a step.                                   *)
LEMMA RowsOf ==
  ASSUME Typed, Follows, Table, [Next]_vars, NEW k \in Runs, session[k] # NoSession,
         NEW s \in runs', Key(s) = k
  PROVE  \E r \in runs : /\ Key(r) = k /\ s.owner = r.owner /\ r.owner = session[k].owner
                         /\ \/ s.status = r.status
                            \/ StopJoined(r.owner)
                            \/ Persist(k)
<1>0. Sess(k) /\ Used(k)
  BY DEF Follows, Sess
<1>1. PICK r \in runs : Same(r, s) /\ Key(r) = k /\ (s.status = r.status \/ Touched(r))
  BY <1>0, RowOrigin
<1>2. s.owner = r.owner /\ r.owner = session[k].owner
  BY <1>0, <1>1 DEF Same, Sess
<1>3. ASSUME NEW e \in Daemons, Launch(e) \/ Send(e) PROVE seen[e].run # k
  <2>1. Holds(e)
    BY <1>3 DEF Launch, Send, Again, Go, Holds
  <2> QED BY <2>1 DEF Follows, Hand
<1>4. Touched(r) => StopJoined(r.owner) \/ Persist(k)
  BY <1>1, <1>3 DEF Touched
<1> QED BY <1>1, <1>2, <1>4

LEMMA SessIs ==
  ASSUME NEW k \in Runs, NEW o \in Daemons, session'[k].owner = o, main'[o] \notin {"off", "gone"}, Used(k)',
         main'[o] \in {"up", "flag", "notified"} =>
           /\ session'[k].write = "waiting" => session'[k].state = "waiting"
           /\ session'[k].write = "settled" => session'[k].state = "over",
         \A s \in runs' : Key(s) = k =>
           s.owner = o /\ (main'[o] \in {"up", "flag", "notified"} => Tells(s, session'[k]))
  PROVE  Sess(k)'
BY DEF Sess, Listening, Tells, Active, Key

LEMMA SessNext ==
  ASSUME Typed, Typed', Table, Follows, [Next]_vars, NEW k \in Runs
  PROVE  Sess(k)'
<1> SUFFICES ASSUME session'[k] # NoSession PROVE Sess(k)'
  BY DEF Sess
<1>0. /\ session \in [Runs -> SessionType] /\ session[k] \in SessionType
      /\ main \in [Daemons -> {"off", "up", "flag", "notified", "stopped", "gone"}]
  BY TypedIs
<1>u. Used(k) => Used(k)'
  BY OnwardNext, UsedStays
<1>s. ASSUME session[k] # NoSession
      PROVE  /\ session[k].owner \in Daemons /\ main[session[k].owner] \notin {"off", "gone"} /\ Used(k)'
             /\ Listening(session[k].owner) =>
                  /\ session[k].write = "waiting" => session[k].state = "waiting"
                  /\ session[k].write = "settled" => session[k].state = "over"
             /\ \A r \in runs : Key(r) = k =>
                  r.owner = session[k].owner /\ (Listening(session[k].owner) => Tells(r, session[k]))
  BY <1>s, <1>u DEF Follows, Sess
<1>1. CASE session'[k] = session[k]
  <2>0. session[k] # NoSession
    BY <1>1
  <2>1. PICK o \in Daemons : o = session[k].owner
    BY <1>s, <2>0
  <2>2. ~Gone(o)
    <3>1. Gone(o) => session'[k] = NoSession
      BY <2>1 DEF Gone
    <3> QED BY <1>1, <2>0, <3>1
  <2>3. /\ main'[o] \notin {"off", "gone"}
        /\ main'[o] \in {"up", "flag", "notified"} => Listening(o) /\ ~StopJoined(o)
    <3>1. main[o] \notin {"off", "gone"}
      BY <1>s, <2>0, <2>1
    <3>2. StopJoined(o) => main'[o] = "stopped"
      BY <1>0 DEF StopJoined, MainGoes
    <3> QED BY <2>2, <3>1, <3>2, MainStep DEF Listening
  <2>4. ~Persist(k)
    <3>1. Persist(k) => session'[k] = [session[k] EXCEPT !.write = "none"] /\ session[k].write # "none"
      BY <1>0 DEF Persist
    <3>2. [session[k] EXCEPT !.write = "none"].write = "none"
      BY <1>0 DEF SessionType
    <3> QED BY <1>1, <3>1, <3>2
  <2>5. ASSUME NEW s \in runs', Key(s) = k
        PROVE  s.owner = o /\ (main'[o] \in {"up", "flag", "notified"} => Tells(s, session[k]))
    <3>1. PICK r \in runs : Key(r) = k /\ s.owner = r.owner /\ r.owner = o
                            /\ (s.status = r.status \/ StopJoined(o))
      BY <2>0, <2>1, <2>4, <2>5, RowsOf
    <3>2. Listening(o) => Tells(r, session[k])
      BY <1>s, <2>0, <2>1, <3>1
    <3> QED BY <2>3, <3>1, <3>2 DEF Tells, Active
  <2>6. main'[o] \in {"up", "flag", "notified"} =>
           /\ session[k].write = "waiting" => session[k].state = "waiting"
           /\ session[k].write = "settled" => session[k].state = "over"
    BY <1>s, <2>0, <2>1, <2>3
  <2> QED BY <1>1, <1>s, <2>0, <2>1, <2>3, <2>5, <2>6, SessIs
<1>2. ASSUME NEW d \in Daemons, Send(d), seen[d].run = k, runs' = runs,
             session'[k] = [NoSession EXCEPT !.owner = d, !.state = "busy"]
      PROVE  Sess(k)'
  <2>1. Holds(d) /\ main' = main
    BY <1>2 DEF Send, Again, Go, Holds
  <2>2. Used(k) /\ Listening(d) /\ \A r \in runs : Key(r) = k => r.owner = d /\ r.status = "running"
    BY <1>2, <2>1 DEF Follows, Hand, Holds
  <2>3. session'[k].owner = d /\ session'[k].state = "busy" /\ session'[k].write = "none"
    BY <1>2 DEF NoSession
  <2>4. \A r \in runs' : Key(r) = k => r.owner = d /\ Tells(r, session'[k])
    BY <1>2, <2>2, <2>3 DEF Tells, Active
  <2>5. main'[d] \notin {"off", "gone"}
    BY <2>1, <2>2 DEF Listening
  <2> QED BY <1>u, <2>2, <2>3, <2>4, <2>5, SessIs
<1>3. ASSUME Ask(k) \/ Answered(k) \/ Finish(k) PROVE Sess(k)'
  <2>1. PICK to \in {"waiting", "busy", "over"}, status \in {"none", "waiting", "settled"} :
           /\ \/ to = "waiting" /\ status = "waiting" /\ session[k].state = "busy"
              \/ to = "busy" /\ status = "none" /\ session[k].state = "waiting"
              \/ to = "over" /\ status = "settled" /\ session[k].state \in {"busy", "waiting"}
           /\ session[k].write = "none"
           /\ session' = [session EXCEPT ![k].state = to,
                            ![k].write = IF Listening(session[k].owner) THEN status ELSE "none"]
           /\ UNCHANGED <<now, edits, loop, since, runs, main, threadVars, web>>
    BY <1>3 DEF Ask, Answered, Finish, Event
  <2>2. session[k] # NoSession
    BY <2>1 DEF NoSession
  <2>3. PICK o \in Daemons : o = session[k].owner
    BY <1>s, <2>2
  <2>4. /\ session'[k].owner = o /\ session'[k].state = to
        /\ session'[k].write = IF Listening(o) THEN status ELSE "none"
    <3> DEFINE w == IF Listening(session[k].owner) THEN status ELSE "none"
    <3>1. session' = [session EXCEPT ![k] = [session[k] EXCEPT !.state = to, !.write = w]]
      BY <1>0, <2>1
    <3> HIDE DEF w
    <3>2. LET x == [session[k] EXCEPT !.state = to, !.write = w]
          IN  x.owner = session[k].owner /\ x.state = to /\ x.write = w
      BY <1>0 DEF SessionType
    <3>3. session'[k] = [session[k] EXCEPT !.state = to, !.write = w]
      BY <1>0, <3>1
    <3> QED BY <2>3, <3>2, <3>3 DEF w
  <2>5. \A r \in runs : Key(r) = k => r.owner = o /\ (Listening(o) => Tells(r, session'[k]))
    BY <1>s, <2>1, <2>2, <2>3, <2>4 DEF Tells, Active
  <2>6. main'[o] \notin {"off", "gone"} /\ (main'[o] \in {"up", "flag", "notified"} => Listening(o))
    BY <1>s, <2>1, <2>2, <2>3 DEF Listening
  <2> QED BY <1>s, <2>1, <2>2, <2>3, <2>4, <2>5, <2>6, SessIs
<1>4. ASSUME Persist(k) PROVE Sess(k)'
  <2>1. /\ session[k].write # "none" /\ UpdateRun(k, session[k].write)
        /\ session' = [session EXCEPT ![k] = [session[k] EXCEPT !.write = "none"]]
        /\ UNCHANGED <<loop, main>>
    BY <1>0, <1>4 DEF Persist
  <2>2. session[k].write \in {"waiting", "settled"} /\ session[k].write \in Statuses
    BY <1>0, <2>1 DEF Statuses, SessionType
  <2>3. session[k] # NoSession
    BY <2>1 DEF NoSession
  <2>4. PICK o \in Daemons : o = session[k].owner
    BY <1>s, <2>3
  <2>5. session'[k].owner = o /\ session'[k].state = session[k].state /\ session'[k].write = "none"
    <3>1. session'[k] = [session[k] EXCEPT !.write = "none"]
      BY <1>0, <2>1
    <3> QED BY <1>0, <2>4, <3>1 DEF SessionType
  <2>6. \A s \in runs' : \E r \in runs : Same(r, s) /\ Key(s) = Key(r)
                               /\ s.status = IF Key(r) = k THEN session[k].write ELSE r.status
    BY <2>1, <2>2, UpdateIs
  <2>7. ASSUME NEW s \in runs', Key(s) = k
        PROVE  s.owner = o /\ (Listening(o) => Tells(s, session'[k]))
    <3>1. PICK r \in runs : Same(r, s) /\ Key(r) = k /\ s.status = session[k].write
      BY <2>6, <2>7
    <3>2. s.owner = o
      BY <1>s, <2>3, <2>4, <3>1 DEF Same
    <3>3. Listening(o) => (/\ session[k].write = "waiting" => session[k].state = "waiting"
                           /\ session[k].write = "settled" => session[k].state = "over")
      BY <1>s, <2>3, <2>4
    <3> QED BY <2>2, <2>5, <3>1, <3>2, <3>3 DEF Tells, Active
  <2>8. main'[o] \notin {"off", "gone"} /\ (main'[o] \in {"up", "flag", "notified"} => Listening(o))
    BY <1>s, <2>1, <2>3, <2>4 DEF Listening
  <2> QED BY <1>s, <2>3, <2>4, <2>5, <2>7, <2>8, SessIs
<1>5. ASSUME NEW d \in Daemons, session[k].owner = d, StopJoined(d) PROVE Sess(k)'
  <2>1. main'[d] = "stopped"
    BY <1>0, <1>5 DEF StopJoined, MainGoes
  <2>2. session'[k].owner = d
    <3>1. session'[k] = [session[k] EXCEPT !.state = "over"]
      BY <1>5 DEF StopJoined
    <3> QED BY <1>0, <1>5, <3>1 DEF SessionType
  <2>3. session[k] # NoSession
    BY <1>5, ConstantsAssumption DEF NoSession
  <2>4. Used(k)'
    BY <1>s, <2>3
  <2>5. \A s \in runs' : Key(s) = k => s.owner = d
    BY <1>5, <2>3, RowsOf
  <2> QED BY <2>1, <2>2, <2>4, <2>5, SessIs
<1> QED BY <1>1, <1>2, <1>3, <1>4, <1>5, SessionStep

LEMMA FollowsCorrect == Spec => [](Typed /\ Table /\ Follows)
<1>1. Init => Follows
  <2>1. Init => \A d \in Daemons : pc[d] = "none"
    BY DEF Init
  <2>2. Init => \A k \in Runs : session[k] = NoSession
    BY DEF Init
  <2> QED BY <2>1, <2>2 DEF Follows, Hand, Holds, Apart, Sess
<1>2. Typed /\ Typed' /\ Table /\ Follows /\ [Next]_vars => Follows'
  BY HandNext, ApartNext, SessNext DEF Follows
<1> QED BY <1>1, <1>2, TableCorrect, PTL DEF Spec

(* StatusFollowsSession: while its daemon listens, the history shows of     *)
(* every run what its session last reported (apply_loop_session_event).     *)
THEOREM StatusCorrect == Spec => []StatusFollowsSession
<1>1. Typed /\ Table /\ Follows => StatusFollowsSession
  <2> SUFFICES ASSUME Typed, Table, Follows, NEW r \in runs, r.owner \in Daemons, Listening(r.owner),
                      session[Key(r)].write = "none"
               PROVE  /\ session[Key(r)].state = "waiting" => r.status = "waiting"
                      /\ session[Key(r)].state = "busy" => Active(r)
                      /\ session[Key(r)].state = "over" => ~Active(r)
    BY DEF StatusFollowsSession, Key
  <2>1. Key(r) \in Runs
    BY KeyType, TypedIs
  <2>2. CASE session[Key(r)] = NoSession
    BY <2>2 DEF NoSession
  <2>3. CASE session[Key(r)] # NoSession
    BY <2>1, <2>3 DEF Follows, Sess, Tells
  <2> QED BY <2>2, <2>3
<1> QED BY <1>1, FollowsCorrect, PTL

(* SettledStays: nothing writes to a settled run before its daemon stops:   *)
(* a launch has a running record in its hands, and the callback of a        *)
(* session writes only while the record still waits for its word.           *)
THEOREM SettledCorrect == Spec => SettledStays
<1> DEFINE A == \A r \in runs, s \in runs' :
                  (/\ ~Active(r) /\ r.loop = s.loop /\ r.at = s.at
                   /\ r.owner \in Daemons => main[r.owner] # "stopped")
                    => s.status = r.status
<1>1. Typed /\ Table /\ Follows /\ [Next]_vars => A
  <2> SUFFICES ASSUME Typed, Table, Follows, [Next]_vars, NEW r \in runs, NEW s \in runs', ~Active(r),
                      Key(r) = Key(s), r.owner \in Daemons => main[r.owner] # "stopped"
               PROVE  s.status = r.status
    BY DEF Key
  <2>1. Used(Key(r)) /\ Key(r) \in Runs
    BY KeyType, TypedIs DEF Table
  <2>2. PICK q \in runs : Key(q) = Key(s) /\ (s.status = q.status \/ Touched(q))
    BY <2>1, RowOrigin
  <2>3. q = r
    BY <2>2 DEF Table
  <2>4. ASSUME NEW e \in Daemons, Launch(e) \/ Send(e) PROVE seen[e].run # Key(r)
    <3>1. Holds(e)
      BY <2>4 DEF Launch, Send, Again, Go, Holds
    <3> QED BY <3>1 DEF Follows, Hand, Active
  <2>5. ~Persist(Key(r))
    <3>1. SUFFICES ASSUME Persist(Key(r)) PROVE FALSE
      OBVIOUS
    <3>2. session[Key(r)].write # "none" /\ session[Key(r)] # NoSession
      BY <3>1 DEF Persist, NoSession
    <3>3. Sess(Key(r))
      BY <2>1 DEF Follows
    <3>4. r.owner \in Daemons /\ Listening(r.owner)
      BY <3>2, <3>3, TypedIs DEF Sess, Listening
    <3> QED BY <3>2, <3>3, <3>4 DEF Sess, Tells
  <2> QED BY <2>2, <2>3, <2>4, <2>5 DEF Touched
<1>2. Spec => [][A]_vars
  <2>1. Typed /\ Table /\ Follows /\ [Next]_vars => [A]_vars
    BY <1>1
  <2> HIDE DEF A
  <2> QED BY <2>1, FollowsCorrect, PTL DEF Spec
<1> QED BY <1>2 DEF SettledStays
=============================================================================
