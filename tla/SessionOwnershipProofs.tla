------------------------ MODULE SessionOwnershipProofs ------------------------
(***************************************************************************)
(* Proofs about SessionOwnership: types, one context of the session in a     *)
(* daemon, messages saved under the lease only, and a complete history for   *)
(* who took the session alone.                                               *)
(***************************************************************************)
EXTENDS SessionOwnership, TLAPS

Places == {"free"} \union Opening \union Using \union Leaving
AnyContext == Context \union {Free}
ContextActions(c) ==
  \/ \E d \in Daemons : RegistryResume(c, d) \/ RegistryCreate(c, d)
  \/ \E t \in Tuis : TuiResume(c, t)
  \/ Proceed(c) \/ Publish(c) \/ OnMessage(c) \/ Leave(c) \/ Destroy(c) \/ Joined(c)

(* A live context is a record with a process; the free one is not.           *)
LEMMA LiveIsContext ==
  ASSUME TypeOK, NEW c \in Contexts
  PROVE  /\ ctx[c] \in AnyContext
         /\ Live(c) <=> ctx[c] \in Context
         /\ Live(c) <=> ctx[c].home \in Processes
         /\ Live(c) <=> ctx[c].at # "free"
         /\ Free \notin Context
<1>1. Free \notin Context
  BY ProcessesAssumption DEF Free, Context, Processes
<1>2. ctx[c] \in AnyContext
  BY DEF TypeOK, AnyContext
<1>3. Live(c) <=> ctx[c] \in Context
  BY <1>1, <1>2 DEF Live, AnyContext
<1>4. ctx[c] \in Context => ctx[c].home \in Processes /\ ctx[c].at # "free"
  BY DEF Context, Opening, Using, Leaving
<1>5. Free.home \notin Processes /\ Free.at = "free"
  BY ProcessesAssumption DEF Free, Processes
<1> QED BY <1>1, <1>2, <1>3, <1>4, <1>5 DEF Live

(* A step of one context leaves the others.                                  *)
LEMMA GoesType ==
  ASSUME ctx \in [Contexts -> AnyContext], NEW c \in Contexts, NEW from, NEW to \in AnyContext,
         Goes(c, from, to)
  PROVE  /\ ctx' \in [Contexts -> AnyContext]
         /\ ctx'[c] = to
         /\ \A x \in Contexts \ {c} : ctx'[x] = ctx[x]
BY DEF Goes

(* Where a step of one context takes it, field by field.                     *)
LEMMA MoveType ==
  ASSUME NEW r \in Context, NEW at \in Opening \union Using \union Leaving,
         NEW why \in {"resume", "message", "leave"}, NEW created \in BOOLEAN,
         NEW active \in BOOLEAN
  PROVE  /\ [r EXCEPT !.at = at] \in Context
         /\ [r EXCEPT !.at = at, !.why = why] \in Context
         /\ [r EXCEPT !.at = at, !.active = active] \in Context
         /\ [r EXCEPT !.at = at, !.created = created, !.active = active] \in Context
BY DEF Context

-----------------------------------------------------------------------------
(* What a context is at each of its places.                                  *)
Shape(c) ==
  /\ Live(c) => ctx[c].home \in alive
  /\ ctx[c].at \in Opening => ~ctx[c].created
  /\ ctx[c].at \in {"append", "refresh", "rewrite"} \union Leaving => ctx[c].created
  /\ ctx[c].why = "leave" => ctx[c].home \in Tuis
  /\ ctx[c].at \in Leaving => ctx[c].why = "leave"
  /\ c \in mapped => ~(ctx[c].why = "resume" /\ ctx[c].at \in Opening)

(* A resume in flight is one of its daemon.                                  *)
InflightHome == \A d \in Daemons : inflight[d] # NoContext => ctx[inflight[d]].home = d

Basic == TypeOK /\ InflightHome /\ \A c \in Contexts : Shape(c)

LEMMA InitBasic == Init => Basic
<1> SUFFICES ASSUME Init PROVE Basic
  OBVIOUS
<1>1. TypeOK
  BY ProcessesAssumption DEF Init, TypeOK, Processes, NoLease, NoContext, Live
<1>2. InflightHome
  BY DEF Init, InflightHome
<1>3. \A c \in Contexts : Shape(c)
  BY ProcessesAssumption DEF Init, Shape, Live, Free, Opening, Using, Leaving
<1> QED BY <1>1, <1>2, <1>3 DEF Basic

LeaseType == [pid : Processes \union {NoProcess}, fresh : BOOLEAN]
HistoryType ==
  /\ blind \subseteq {c \in Contexts : Live(c)}
  /\ alone \subseteq {c \in Contexts : Live(c)}
  /\ disputed \subseteq {c \in Contexts : Live(c)}

LEMMA TypeParts ==
  TypeOK <=> /\ alive \subseteq Processes /\ exists \in BOOLEAN /\ lease \in LeaseType
             /\ ctx \in [Contexts -> AnyContext]
             /\ mapped \subseteq {c \in Contexts : ctx[c].home \in Daemons}
             /\ inflight \in [Daemons -> Contexts \union {NoContext}]
             /\ HistoryType
BY DEF TypeOK, LeaseType, AnyContext, HistoryType

LEMMA TypePartsNext ==
  TypeOK' <=> /\ alive' \subseteq Processes /\ exists' \in BOOLEAN /\ lease' \in LeaseType
              /\ ctx' \in [Contexts -> AnyContext]
              /\ mapped' \subseteq {c \in Contexts : ctx'[c].home \in Daemons}
              /\ inflight' \in [Daemons -> Contexts \union {NoContext}]
              /\ HistoryType'
BY DEF TypeOK, LeaseType, AnyContext, HistoryType

(* A live context goes on in its process.                                    *)
LEMMA BasicMove ==
  ASSUME Basic, NEW c \in Contexts, NEW r \in Context, Live(c), r.home = ctx[c].home,
         ctx' = [ctx EXCEPT ![c] = r], Shape(c)',
         exists' \in BOOLEAN, lease' \in LeaseType,
         UNCHANGED <<alive, mapped, inflight>>,
         blind' \subseteq {x \in Contexts : Live(x)},
         alone' \subseteq alone, disputed' \subseteq {x \in Contexts : Live(x)}
  PROVE  Basic'
<1>1. ctx \in [Contexts -> AnyContext] /\ r \in AnyContext /\ r # Free
  BY LiveIsContext, TypeParts DEF Basic, AnyContext
<1>2. ctx' \in [Contexts -> AnyContext] /\ \A x \in Contexts : ctx'[x].home = ctx[x].home
  BY <1>1
<1>3. \A x \in Contexts : Live(x)' <=> Live(x)
  BY <1>1 DEF Live
<1>4. HistoryType'
  BY <1>3, TypeParts DEF Basic, HistoryType
<1>5. TypeOK'
  BY <1>2, <1>4, TypeParts, TypePartsNext DEF Basic
<1>6. InflightHome'
  BY <1>2, TypeParts DEF Basic, InflightHome
<1>7. \A x \in Contexts : Shape(x)'
  BY <1>1 DEF Basic, Shape, Live
<1> QED BY <1>5, <1>6, <1>7 DEF Basic

(* A context is forgotten.                                                   *)
LEMMA BasicEnds ==
  ASSUME Basic, NEW c \in Contexts,
         ctx' = [ctx EXCEPT ![c] = Free], Remembered({c}), c \notin mapped,
         exists' = exists, lease' \in LeaseType, UNCHANGED <<alive, mapped>>,
         inflight' = Unmark(c) \/ (inflight' = inflight /\ \A d \in Daemons : inflight[d] # c)
  PROVE  Basic'
<1>1. ctx \in [Contexts -> AnyContext] /\ Free \in AnyContext
  BY TypeParts DEF Basic, AnyContext
<1>2. ctx' \in [Contexts -> AnyContext] /\ ctx'[c] = Free
      /\ \A x \in Contexts \ {c} : ctx'[x] = ctx[x]
  BY <1>1
<1>3. \A x \in Contexts \ {c} : Live(x)' <=> Live(x)
  BY <1>2 DEF Live
<1>4. HistoryType'
  BY <1>3, TypeParts DEF Basic, HistoryType, Remembered
<1>5. inflight' \in [Daemons -> Contexts \union {NoContext}]
      /\ \A d \in Daemons : inflight'[d] \in {NoContext, inflight[d]} /\ inflight'[d] # c
  BY TypeParts DEF Basic, Unmark, NoContext, Contexts
<1>6. TypeOK'
  BY <1>2, <1>4, <1>5, TypeParts, TypePartsNext DEF Basic
<1>7. InflightHome'
  BY <1>2, <1>5, TypeParts DEF Basic, InflightHome
<1>8. \A x \in Contexts : Shape(x)'
  <2>1. Shape(c)'
    BY <1>2, ProcessesAssumption DEF Shape, Live, Free, Opening, Using, Leaving
  <2>2. \A x \in Contexts \ {c} : Shape(x)'
    BY <1>2 DEF Basic, Shape, Live
  <2> QED BY <2>1, <2>2
<1> QED BY <1>6, <1>7, <1>8 DEF Basic

(* A free context is taken by a process.                                     *)
LEMMA BasicOpens ==
  ASSUME Basic, NEW c \in Contexts, NEW p \in Processes, NEW at \in {"load", "open"},
         Opens(c, p, at),
         \/ UNCHANGED <<mapped, inflight>>
         \/ p \in Daemons /\ at = "open" /\ mapped' = mapped \union {c} /\ UNCHANGED inflight
         \/ p \in Daemons /\ UNCHANGED mapped /\ inflight' = [inflight EXCEPT ![p] = c]
  PROVE  Basic'
<1> DEFINE r == [Free EXCEPT !.home = p, !.at = at]
<1>1. r \in Context /\ r.home = p /\ r.at = at /\ r.why = "resume" /\ r.created = FALSE
  BY DEF Free, Context, Opening, Using
<1>2. ctx \in [Contexts -> AnyContext] /\ r \in AnyContext /\ r # Free /\ ~Live(c)
  BY <1>1, TypeParts, LiveIsContext DEF Basic, AnyContext, Opens
<1>3. ctx' \in [Contexts -> AnyContext] /\ ctx'[c] = r
      /\ \A x \in Contexts \ {c} : ctx'[x] = ctx[x]
  BY <1>2 DEF Opens, Goes
<1>4. c \notin mapped /\ \A d \in Daemons : inflight[d] # c
  BY <1>2, LiveIsContext, TypeParts, ProcessesAssumption DEF Basic, InflightHome, Processes, NoContext, Contexts
<1>5. HistoryType'
  <2>1. \A x \in Contexts : Live(x)' <=> Live(x) \/ x = c
    BY <1>2, <1>3 DEF Live
  <2>2. alone' \subseteq alone \union {c} /\ blind' = blind /\ disputed' = disputed
    BY DEF Opens, AloneWith
  <2> QED BY <2>1, <2>2, TypeParts DEF Basic, HistoryType
<1>6. mapped' \subseteq {x \in Contexts : ctx'[x].home \in Daemons}
  <2>1. mapped \subseteq {x \in Contexts : ctx[x].home \in Daemons}
    BY TypeParts DEF Basic
  <2>2. mapped' = mapped \/ (mapped' = mapped \union {c} /\ ctx'[c].home \in Daemons)
    BY <1>1, <1>3
  <2>3. ASSUME NEW x \in mapped' PROVE x \in Contexts /\ ctx'[x].home \in Daemons
    <3>1. CASE x \in mapped
      BY <1>3, <1>4, <2>1, <3>1
    <3>2. CASE x \notin mapped
      BY <2>2, <2>3, <3>2
    <3> QED BY <3>1, <3>2
  <2> QED BY <2>3
<1>7. inflight' \in [Daemons -> Contexts \union {NoContext}]
  BY TypeParts DEF Basic
<1>8. TypeOK'
  BY <1>3, <1>5, <1>6, <1>7, TypeParts, TypePartsNext DEF Basic, Opens
<1>9. InflightHome'
  <2>1. ASSUME NEW d \in Daemons, inflight'[d] # NoContext PROVE ctx'[inflight'[d]].home = d
    <3>1. inflight'[d] = inflight[d] \/ (inflight'[d] = c /\ ctx'[c].home = d)
      BY <1>1, <1>3, TypeParts DEF Basic
    <3>2. inflight'[d] = inflight[d] => inflight[d] \in Contexts \ {c} /\ ctx[inflight[d]].home = d
      BY <1>4, <2>1, TypeParts DEF Basic, InflightHome
    <3> QED BY <1>3, <3>1, <3>2
  <2> QED BY <2>1 DEF InflightHome
<1>10. Shape(c)'
  BY <1>1, <1>3, <1>4 DEF Shape, Opens, Opening, Using, Leaving
<1>11. \A x \in Contexts \ {c} : Shape(x)'
  BY <1>3 DEF Basic, Shape, Live, Opens
<1> QED BY <1>8, <1>9, <1>10, <1>11 DEF Basic

(* What is known of a context that is somewhere.                             *)
LEMMA AtIsLive ==
  ASSUME Basic, NEW c \in Contexts, ctx[c].at # "free"
  PROVE  /\ Live(c) /\ ctx[c] \in Context /\ ctx[c].home \in Processes
         /\ lease \in LeaseType /\ exists \in BOOLEAN
         /\ blind \subseteq {x \in Contexts : Live(x)}
         /\ disputed \subseteq {x \in Contexts : Live(x)}
BY LiveIsContext, TypeParts DEF Basic, HistoryType

LEMMA LeaseOf ==
  ASSUME NEW p \in Processes
  PROVE  [pid |-> p, fresh |-> TRUE] \in LeaseType /\ NoLease \in LeaseType
BY DEF LeaseType, NoLease

LEMMA BasicProceed ==
  ASSUME Basic, NEW c \in Contexts, Proceed(c)
  PROVE  Basic'
<1> DEFINE r == ctx[c]
           home == ctx[c].home
<1>0. ctx \in [Contexts -> AnyContext]
  BY TypeParts DEF Basic
<1>1. r.at # "free"
  BY DEF Proceed, Goes, Moves, LoadMessages, ReadLease, RefusedDaemon, RefusedOpen, WriteLease,
         AppendMessage, RefreshRead, RefreshWrite, ReleaseRead, ReleaseRemove, Ends
<1>2. Live(c) /\ r \in Context /\ home \in Processes /\ lease \in LeaseType /\ exists \in BOOLEAN
      /\ blind \subseteq {x \in Contexts : Live(x)} /\ disputed \subseteq {x \in Contexts : Live(x)}
      /\ Shape(c)
  BY <1>1, AtIsLive DEF Basic
<1> HIDE DEF r, home
<1>3. CASE LoadMessages(c)
  <2> DEFINE q == [r EXCEPT !.at = "acquire"]
  <2>1. q \in Context /\ ctx' = [ctx EXCEPT ![c] = q]
    BY <1>2, <1>3, MoveType DEF LoadMessages, Moves, Goes, r, Opening
  <2>2. q.home = r.home /\ q.at = "acquire" /\ q.created = r.created /\ q.why = r.why
    BY <1>2 DEF Context
  <2>3. Shape(c)'
    BY <1>0, <1>2, <1>3, <2>1, <2>2 DEF Shape, LoadMessages, Moves, Goes, r, Opening, Using, Leaving, Live,
                                        registryVars
  <2> QED BY <1>2, <1>3, <2>1, <2>2, <2>3, BasicMove DEF LoadMessages, registryVars, historyVars, r
<1>4. CASE ReadLease(c)
  <2> DEFINE q == [r EXCEPT !.at = "claim"]
  <2>1. q \in Context /\ ctx' = [ctx EXCEPT ![c] = q] /\ r.at = "acquire"
    BY <1>2, <1>4, MoveType DEF ReadLease, Moves, Goes, r, Opening
  <2>2. q.home = r.home /\ q.at = "claim" /\ q.created = r.created /\ q.why = r.why
    BY <1>2 DEF Context
  <2>3. Shape(c)'
    BY <1>0, <1>2, <1>4, <2>1, <2>2 DEF Shape, ReadLease, r, Opening, Using, Leaving, Live, registryVars
  <2>4. disputed' \subseteq {x \in Contexts : Live(x)}
    BY <1>2, <1>4 DEF ReadLease, Rivals
  <2> QED BY <1>2, <1>4, <2>1, <2>2, <2>3, <2>4, BasicMove DEF ReadLease, registryVars, r
<1>5. CASE RefusedDaemon(c)
  <2>1. r.at = "acquire" /\ r.why = "resume" /\ ctx' = [ctx EXCEPT ![c] = Free]
    BY <1>5 DEF RefusedDaemon, Goes, r
  <2>2. c \notin mapped
    BY <1>2, <2>1 DEF Shape, r, Opening
  <2> QED BY <1>2, <1>5, <2>1, <2>2, BasicEnds DEF RefusedDaemon
<1>6. CASE RefusedOpen(c)
  <2> DEFINE q == [r EXCEPT !.at = "open"]
  <2>1. q \in Context /\ ctx' = [ctx EXCEPT ![c] = q] /\ r.at = "acquire"
    BY <1>2, <1>6, MoveType DEF RefusedOpen, Moves, Goes, r, Using
  <2>2. q.home = r.home /\ q.at = "open" /\ q.created = r.created /\ q.why = r.why
    BY <1>2 DEF Context
  <2>3. Shape(c)'
    BY <1>0, <1>2, <1>6, <2>1, <2>2 DEF Shape, RefusedOpen, r, Opening, Using, Leaving, Live, registryVars
  <2>4. blind' \subseteq {x \in Contexts : Live(x)} /\ alone' \subseteq alone /\ disputed' = disputed
    BY <1>2, <1>6 DEF RefusedOpen
  <2> QED BY <1>2, <1>6, <2>1, <2>2, <2>3, <2>4, BasicMove DEF RefusedOpen, registryVars, r
<1>7. CASE WriteLease(c)
  <2> DEFINE at == IF r.why = "message" THEN "append" ELSE "refresh"
             q == [r EXCEPT !.at = at, !.created = TRUE, !.active = TRUE]
  <2>1. q \in Context /\ ctx' = [ctx EXCEPT ![c] = q] /\ r.at = "claim"
    BY <1>2, <1>7, MoveType DEF WriteLease, Goes, r, Using
  <2>2. q.home = r.home /\ q.at \in {"append", "refresh"} /\ q.created = TRUE /\ q.why = r.why
    BY <1>2 DEF Context
  <2>3. Shape(c)'
    BY <1>0, <1>2, <1>7, <2>1, <2>2 DEF Shape, WriteLease, r, Opening, Using, Leaving, Live, registryVars
  <2>4. lease' \in LeaseType /\ exists' \in BOOLEAN
    BY <1>2, <1>7, LeaseOf DEF WriteLease, home
  <2> QED BY <1>2, <1>7, <2>1, <2>2, <2>3, <2>4, BasicMove DEF WriteLease, registryVars, historyVars, r
<1>8. CASE AppendMessage(c)
  <2> DEFINE q == [r EXCEPT !.at = "refresh"]
  <2>1. q \in Context /\ ctx' = [ctx EXCEPT ![c] = q] /\ r.at = "append"
    BY <1>2, <1>8, MoveType DEF AppendMessage, Moves, Goes, r, Using
  <2>2. q.home = r.home /\ q.at = "refresh" /\ q.created = r.created /\ q.why = r.why
    BY <1>2 DEF Context
  <2>3. Shape(c)'
    BY <1>0, <1>2, <1>8, <2>1, <2>2 DEF Shape, AppendMessage, r, Opening, Using, Leaving, Live, registryVars
  <2>4. blind' \subseteq {x \in Contexts : Live(x)}
    <3>1. \A x \in Contexts : ctx[x].at \notin {"free", "load"} => Live(x)
      BY AtIsLive
    <3> QED BY <1>2, <1>8, <3>1 DEF AppendMessage
  <2> QED BY <1>2, <1>8, <2>1, <2>2, <2>3, <2>4, BasicMove DEF AppendMessage, registryVars, r
<1>9. CASE RefreshRead(c)
  <2> DEFINE ours == r.active /\ lease.pid = home
             at == IF ours THEN "rewrite" ELSE After(c)
             q == [r EXCEPT !.at = at, !.active = ours]
  <2>1. ctx' = [ctx EXCEPT ![c] = q] /\ r.at = "refresh"
    BY <1>9 DEF RefreshRead, Goes, r, home
  <2>2. at \in {"rewrite", "open", "release"} /\ (at = "release" => r.why = "leave") /\ ours \in BOOLEAN
    BY <1>2 DEF After, r, Context
  <2>3. q \in Context
    BY <1>2, <2>2, MoveType DEF Using, Leaving
  <2>4. q.home = r.home /\ q.at = at /\ q.created = r.created /\ q.why = r.why
    BY <1>2 DEF Context
  <2>5. Shape(c)'
    BY <1>0, <1>2, <1>9, <2>1, <2>2, <2>3, <2>4
       DEF Shape, RefreshRead, r, Opening, Using, Leaving, Live, registryVars
  <2> QED BY <1>2, <1>9, <2>1, <2>3, <2>4, <2>5, BasicMove DEF RefreshRead, registryVars, historyVars, r
<1>10. CASE RefreshWrite(c)
  <2> DEFINE q == [r EXCEPT !.at = After(c)]
  <2>1. ctx' = [ctx EXCEPT ![c] = q] /\ r.at = "rewrite"
    BY <1>10 DEF RefreshWrite, Moves, Goes, r
  <2>2. After(c) \in {"open", "release"} /\ (After(c) = "release" => r.why = "leave")
    BY <1>2 DEF After, r
  <2>3. q \in Context
    BY <1>2, <2>2, MoveType DEF Using, Leaving
  <2>4. q.home = r.home /\ q.at = After(c) /\ q.created = r.created /\ q.why = r.why
    BY <1>2 DEF Context
  <2>5. Shape(c)'
    BY <1>0, <1>2, <1>10, <2>1, <2>2, <2>3, <2>4
       DEF Shape, RefreshWrite, r, Opening, Using, Leaving, Live, registryVars
  <2>6. lease' \in LeaseType
    BY <1>2, <1>10, LeaseOf DEF RefreshWrite, home
  <2> QED BY <1>2, <1>10, <2>1, <2>3, <2>4, <2>5, <2>6, BasicMove DEF RefreshWrite, registryVars, historyVars, r
<1>11. ASSUME r.at \in Leaving
       PROVE  c \notin mapped /\ \A d \in Daemons : inflight[d] # c
  <2>1. home \in Tuis /\ home \notin Daemons
    BY <1>2, <1>11, ProcessesAssumption DEF Shape, r, home
  <2> QED BY <2>1, TypeParts DEF Basic, InflightHome, home, NoContext, Contexts
<1>12. CASE ReleaseRead(c)
  <2>1. r.at = "release"
    BY <1>12 DEF ReleaseRead, Moves, Goes, Ends, r
  <2>2. CASE r.active /\ lease.pid = home
    <3> DEFINE q == [r EXCEPT !.at = "remove"]
    <3>1. q \in Context /\ ctx' = [ctx EXCEPT ![c] = q]
      BY <1>2, <1>12, <2>2, MoveType DEF ReleaseRead, Moves, Goes, r, home, Leaving
    <3>2. q.home = r.home /\ q.at = "remove" /\ q.created = r.created /\ q.why = r.why
      BY <1>2 DEF Context
    <3>3. Shape(c)'
      BY <1>0, <1>2, <1>12, <2>1, <3>1, <3>2 DEF Shape, ReleaseRead, r, Opening, Using, Leaving, Live, registryVars
    <3>4. UNCHANGED historyVars
      BY <1>12, <2>2 DEF ReleaseRead, r, home
    <3> QED BY <1>2, <1>12, <3>1, <3>2, <3>3, <3>4, BasicMove DEF ReleaseRead, registryVars, historyVars, r
  <2>3. CASE ~(r.active /\ lease.pid = home)
    <3>1. ctx' = [ctx EXCEPT ![c] = Free] /\ Remembered({c})
      BY <1>12, <2>3 DEF ReleaseRead, Ends, Goes, r, home
    <3> QED BY <1>2, <1>11, <1>12, <2>1, <3>1, BasicEnds DEF ReleaseRead, Leaving, registryVars
  <2> QED BY <2>2, <2>3
<1>13. CASE ReleaseRemove(c)
  <2>1. r.at = "remove" /\ ctx' = [ctx EXCEPT ![c] = Free] /\ Remembered({c})
    BY <1>13 DEF ReleaseRemove, Ends, Goes, r
  <2>2. lease' \in LeaseType
    BY <1>13, LeaseOf, <1>2 DEF ReleaseRemove
  <2> QED BY <1>2, <1>11, <1>13, <2>1, <2>2, BasicEnds DEF ReleaseRemove, Leaving, registryVars
<1> QED
  BY <1>3, <1>4, <1>5, <1>6, <1>7, <1>8, <1>9, <1>10, <1>12, <1>13 DEF Proceed

LEMMA BasicUse ==
  ASSUME Basic, NEW c \in Contexts,
         Publish(c) \/ OnMessage(c) \/ Leave(c) \/ Destroy(c) \/ Joined(c)
  PROVE  Basic'
<1> DEFINE r == ctx[c]
           home == ctx[c].home
<1>0. ctx \in [Contexts -> AnyContext]
  BY TypeParts DEF Basic
<1>1. CASE Publish(c)
  <2>1. PICK d \in Daemons : inflight[d] = c
    BY <1>1 DEF Publish
  <2>2. ctx[c].home = d
    BY <2>1, TypeParts DEF Basic, InflightHome, NoContext, Contexts
  <2>3. mapped' \subseteq {x \in Contexts : ctx'[x].home \in Daemons}
    BY <1>1, <2>2, TypeParts DEF Basic, Publish
  <2>4. inflight' \in [Daemons -> Contexts \union {NoContext}]
        /\ \A e \in Daemons : inflight'[e] \in {NoContext, inflight[e]}
    BY <1>1, TypeParts DEF Basic, Publish, Unmark
  <2>5. TypeOK'
    BY <1>1, <2>3, <2>4, TypeParts, TypePartsNext DEF Basic, Publish, historyVars, HistoryType, Live
  <2>6. InflightHome'
    BY <1>1, <2>4 DEF Basic, InflightHome, Publish
  <2>7. \A x \in Contexts : Shape(x)'
    BY <1>1 DEF Basic, Shape, Publish, Live, Opening
  <2> QED BY <2>5, <2>6, <2>7 DEF Basic
<1>2. CASE Destroy(c)
  <2>1. TypeOK'
    BY <1>2, TypeParts, TypePartsNext DEF Basic, Destroy, historyVars, HistoryType, Live
  <2>2. InflightHome' /\ \A x \in Contexts : Shape(x)'
    BY <1>2 DEF Basic, InflightHome, Shape, Destroy, Live
  <2> QED BY <2>1, <2>2 DEF Basic
<1>3. CASE Joined(c)
  <2>1. r.at = "open" /\ ctx' = [ctx EXCEPT ![c] = Free] /\ Remembered({c})
    BY <1>3 DEF Joined, Ends, Goes
  <2>2. c \notin mapped /\ \A d \in Daemons : inflight[d] # c
    BY <1>3, TypeParts DEF Basic, Joined, Closing, InflightHome, NoContext, Contexts
  <2> QED BY <1>3, <2>1, <2>2, AtIsLive, BasicEnds DEF Joined, registryVars
<1>4. CASE OnMessage(c) \/ (Leave(c) /\ r.created)
  <2> DEFINE at == IF OnMessage(c) THEN IF r.created THEN "append" ELSE "acquire" ELSE "refresh"
             why == IF OnMessage(c) THEN "message" ELSE "leave"
             q == [r EXCEPT !.at = at, !.why = why]
  <2>1. r.at = "open"
    BY <1>4 DEF OnMessage, Leave, Goes
  <2>2. Live(c) /\ r \in Context /\ lease \in LeaseType /\ exists \in BOOLEAN /\ Shape(c)
        /\ blind \subseteq {x \in Contexts : Live(x)} /\ disputed \subseteq {x \in Contexts : Live(x)}
    BY <2>1, AtIsLive DEF Basic
  <2>3. at \in {"append", "acquire", "refresh"} /\ why \in {"message", "leave"}
    OBVIOUS
  <2>4. q \in Context
    BY <2>2, <2>3, MoveType DEF Opening, Using
  <2>5. q.home = r.home /\ q.at = at /\ q.why = why /\ q.created = r.created
    BY <2>2 DEF Context
  <2>6. UNCHANGED <<alive, exists, lease, registryVars, historyVars>>
    BY <1>4 DEF OnMessage, Leave
  <2>7. OnMessage(c) => ctx' = [ctx EXCEPT ![c] = q]
    BY DEF OnMessage, Goes
  <2>8. ~OnMessage(c) => ctx' = [ctx EXCEPT ![c] = q] /\ r.created /\ r.home \in Tuis
    BY <1>4 DEF Leave, Goes
  <2>9. Shape(c)'
    <3>1. ctx'[c] = q
      BY <1>0, <2>7, <2>8
    <3>2. at = "acquire" => why = "message" /\ ~r.created
      OBVIOUS
    <3>3. at # "acquire" => r.created
      BY <2>8
    <3>4. why = "leave" => r.home \in Tuis
      BY <2>8
    <3>5. r.home \in alive
      BY <2>2 DEF Shape
    <3> HIDE DEF q, at, why
    <3> QED BY <2>3, <2>5, <2>6, <3>1, <3>2, <3>3, <3>4, <3>5
            DEF Shape, Opening, Using, Leaving, registryVars
  <2> HIDE DEF q, at, why
  <2> QED BY <2>2, <2>4, <2>5, <2>6, <2>7, <2>8, <2>9, BasicMove DEF registryVars, historyVars
<1>5. CASE Leave(c) /\ ~r.created
  <2>1. r.at = "open" /\ ctx' = [ctx EXCEPT ![c] = Free] /\ Remembered({c}) /\ home \in Tuis
    BY <1>5 DEF Leave, Ends, Goes
  <2>2. c \notin mapped /\ \A d \in Daemons : inflight[d] # c
    BY <2>1, ProcessesAssumption, TypeParts DEF Basic, InflightHome, NoContext, Contexts
  <2> QED BY <1>5, <2>1, <2>2, AtIsLive, BasicEnds DEF Leave, registryVars
<1> QED BY <1>1, <1>2, <1>3, <1>4, <1>5

LEMMA BasicOpen ==
  ASSUME Basic, NEW c \in Contexts,
         \/ \E d \in Daemons : RegistryResume(c, d) \/ RegistryCreate(c, d)
         \/ \E t \in Tuis : TuiResume(c, t)
  PROVE  Basic'
<1>1. ASSUME NEW d \in Daemons, RegistryResume(c, d) PROVE Basic'
  BY <1>1, BasicOpens DEF RegistryResume, Processes
<1>2. ASSUME NEW d \in Daemons, RegistryCreate(c, d) PROVE Basic'
  BY <1>2, BasicOpens DEF RegistryCreate, Processes
<1>3. ASSUME NEW t \in Tuis, TuiResume(c, t) PROVE Basic'
  BY <1>3, BasicOpens DEF TuiResume, Processes, registryVars
<1> QED BY <1>1, <1>2, <1>3

LEMMA BasicWorld ==
  ASSUME Basic, (\E p \in Processes : ProcessEnds(p)) \/ LeaseAges \/ UNCHANGED vars
  PROVE  Basic'
<1>1. CASE LeaseAges
  <2>1. lease' \in LeaseType
    BY <1>1, TypeParts DEF Basic, LeaseAges, LeaseType
  <2>2. TypeOK'
    BY <1>1, <2>1, TypeParts, TypePartsNext DEF Basic, LeaseAges, registryVars, historyVars, HistoryType, Live
  <2> QED BY <1>1, <2>2 DEF Basic, InflightHome, Shape, LeaseAges, registryVars, Live
<1>2. CASE UNCHANGED vars
  <2>1. TypeOK'
    BY <1>2, TypeParts, TypePartsNext DEF Basic, vars, registryVars, historyVars, HistoryType, Live
  <2> QED BY <1>2, <2>1 DEF Basic, InflightHome, Shape, vars, registryVars, Live
<1>3. ASSUME NEW p \in Processes, ProcessEnds(p) PROVE Basic'
  <2>0. ctx \in [Contexts -> AnyContext] /\ Free \in AnyContext /\ alive \subseteq Processes
        /\ Free.home \notin Processes /\ NoContext \notin Contexts
    BY TypeParts, ProcessesAssumption DEF Basic, AnyContext, Free, Processes, NoContext, Contexts
  <2>1. ctx' \in [Contexts -> AnyContext]
    BY <1>3, <2>0 DEF ProcessEnds
  <2>2. /\ \A x \in Of(p) : ctx'[x] = Free
        /\ \A x \in Contexts \ Of(p) : ctx'[x] = ctx[x]
    BY <1>3 DEF ProcessEnds, Of
  <2>3. \A x \in Contexts \ Of(p) : Live(x)' <=> Live(x)
    BY <2>2 DEF Live
  <2>4. HistoryType'
    BY <1>3, <2>3, TypeParts DEF Basic, HistoryType, ProcessEnds, Remembered
  <2>5. mapped' \subseteq {x \in Contexts : ctx'[x].home \in Daemons}
    BY <1>3, <2>2, TypeParts DEF Basic, ProcessEnds
  <2>6. inflight' \in [Daemons -> Contexts \union {NoContext}]
        /\ \A d \in Daemons : inflight'[d] # NoContext => inflight'[d] = inflight[d] /\ d # p
    BY <1>3, TypeParts DEF Basic, ProcessEnds
  <2>7. TypeOK'
    BY <1>3, <2>0, <2>1, <2>4, <2>5, <2>6, TypeParts, TypePartsNext DEF Basic, ProcessEnds
  <2>8. InflightHome'
    <3> SUFFICES ASSUME NEW d \in Daemons, inflight'[d] # NoContext PROVE ctx'[inflight'[d]].home = d
      BY DEF InflightHome
    <3>1. inflight'[d] = inflight[d] /\ d # p /\ inflight[d] \in Contexts /\ ctx[inflight[d]].home = d
      BY <2>6, TypeParts DEF Basic, InflightHome
    <3>2. inflight[d] \notin Of(p)
      BY <3>1 DEF Of
    <3> QED BY <2>2, <3>1, <3>2
  <2>9. ASSUME NEW x \in Contexts PROVE Shape(x)'
    <3>1. CASE x \in Of(p)
      <4>1. ctx'[x] = Free /\ x \notin mapped'
        BY <1>3, <2>2, <3>1 DEF ProcessEnds
      <4> QED BY <4>1, ProcessesAssumption DEF Shape, Live, Free, Opening, Using, Leaving
    <3>2. CASE x \notin Of(p)
      <4>1. ctx'[x] = ctx[x] /\ ctx[x].home # p
        BY <2>2, <3>2 DEF Of
      <4> QED BY <1>3, <4>1 DEF Basic, Shape, Live, ProcessEnds
    <3> QED BY <3>1, <3>2
  <2> QED BY <2>7, <2>8, <2>9 DEF Basic
<1> QED BY <1>1, <1>2, <1>3

LEMMA BasicNext == Basic /\ [Next]_vars => Basic'
BY BasicProceed, BasicUse, BasicOpen, BasicWorld DEF Next

-----------------------------------------------------------------------------
(* One context of the session in a process.                                  *)

(* A context that goes on stays in its process; one that ends is forgotten.  *)
LEMMA UseEffect ==
  ASSUME Basic, NEW c \in Contexts, Proceed(c) \/ OnMessage(c) \/ Leave(c) \/ Joined(c)
  PROVE  /\ \A x \in Contexts \ {c} : ctx'[x] = ctx[x]
         /\ mapped' = mapped
         /\ \/ Live(c) /\ Live(c)' /\ ctx'[c].home = ctx[c].home /\ inflight' = inflight
            \/ ctx'[c] = Free /\ inflight' \in {inflight, Unmark(c)}
<1>0. ctx \in [Contexts -> AnyContext]
  BY TypeParts DEF Basic
<1>1. ctx[c].at # "free"
  BY DEF Proceed, Goes, Moves, LoadMessages, ReadLease, RefusedDaemon, RefusedOpen, WriteLease,
         AppendMessage, RefreshRead, RefreshWrite, ReleaseRead, ReleaseRemove, Ends, OnMessage,
         Leave, Joined
<1>2. Live(c) /\ ctx[c] \in Context /\ ctx[c].home \in Processes /\ Free.home \notin Processes
  BY <1>1, AtIsLive, ProcessesAssumption DEF Free, Processes
<1>3. mapped' = mapped /\ inflight' \in {inflight, Unmark(c)}
  BY DEF Proceed, LoadMessages, ReadLease, RefusedDaemon, RefusedOpen, WriteLease,
         AppendMessage, RefreshRead, RefreshWrite, ReleaseRead, ReleaseRemove, OnMessage,
         Leave, Joined, registryVars
<1>4. ASSUME NEW at, NEW why, NEW created, NEW active,
             \/ ctx' = [ctx EXCEPT ![c] = [ctx[c] EXCEPT !.at = at]]
             \/ ctx' = [ctx EXCEPT ![c] = [ctx[c] EXCEPT !.at = at, !.why = why]]
             \/ ctx' = [ctx EXCEPT ![c] = [ctx[c] EXCEPT !.at = at, !.active = active]]
             \/ ctx' = [ctx EXCEPT ![c] = [ctx[c] EXCEPT !.at = at, !.created = created,
                                                        !.active = active]]
      PROVE  /\ \A x \in Contexts \ {c} : ctx'[x] = ctx[x]
             /\ ctx'[c].home = ctx[c].home /\ Live(c)'
  <2>1. \A x \in Contexts \ {c} : ctx'[x] = ctx[x]
    BY <1>0, <1>4
  <2>2. ctx'[c].home = ctx[c].home
    BY <1>0, <1>2, <1>4 DEF Context
  <2> QED BY <1>2, <2>1, <2>2 DEF Live
<1>5. CASE ctx' = [ctx EXCEPT ![c] = Free]
  BY <1>0, <1>3, <1>5
<1>6. CASE LoadMessages(c) \/ ReadLease(c) \/ RefusedOpen(c) \/ AppendMessage(c) \/ RefreshWrite(c)
  BY <1>2, <1>3, <1>4, <1>6 DEF LoadMessages, ReadLease, RefusedOpen, AppendMessage, RefreshWrite,
                                Moves, Goes, registryVars
<1>7. CASE WriteLease(c)
  BY <1>2, <1>3, <1>4, <1>7 DEF WriteLease, Goes, registryVars
<1>8. CASE RefreshRead(c)
  BY <1>2, <1>3, <1>4, <1>8 DEF RefreshRead, Goes, registryVars
<1>9. CASE OnMessage(c)
  BY <1>2, <1>3, <1>4, <1>9 DEF OnMessage, Goes, registryVars
<1>10. CASE Leave(c)
  BY <1>2, <1>3, <1>4, <1>5, <1>10 DEF Leave, Goes, Ends, registryVars
<1>11. CASE ReleaseRead(c)
  BY <1>2, <1>3, <1>4, <1>5, <1>11 DEF ReleaseRead, Moves, Goes, Ends, registryVars
<1>12. CASE RefusedDaemon(c) \/ ReleaseRemove(c) \/ Joined(c)
  BY <1>5, <1>12 DEF RefusedDaemon, ReleaseRemove, Joined, Goes, Ends
<1> QED BY <1>6, <1>7, <1>8, <1>9, <1>10, <1>11, <1>12 DEF Proceed

(* Closing is about entries_ and the resume in flight only, and is for good. *)
LEMMA OneContextNext ==
  ASSUME Basic, OneContext, [Next]_vars
  PROVE  OneContext'
<1>0. /\ ctx \in [Contexts -> AnyContext] /\ inflight \in [Daemons -> Contexts \union {NoContext}]
      /\ NoContext \notin Contexts /\ Daemons \intersect Tuis = {}
  BY TypeParts, ProcessesAssumption DEF Basic, NoContext, Contexts
<1>1. ASSUME NEW c \in Contexts, Proceed(c) \/ OnMessage(c) \/ Leave(c) \/ Joined(c)
      PROVE  OneContext'
  <2>1. /\ \A x \in Contexts \ {c} : ctx'[x] = ctx[x]
        /\ mapped' = mapped
        /\ \/ Live(c) /\ Live(c)' /\ ctx'[c].home = ctx[c].home /\ inflight' = inflight
           \/ ctx'[c] = Free /\ inflight' \in {inflight, Unmark(c)}
    BY <1>1, UseEffect
  <2>2. CASE ctx'[c] = Free /\ inflight' \in {inflight, Unmark(c)}
    <3>1. \A d \in Daemons : inflight'[d] \in {inflight[d], NoContext}
      BY <1>0, <2>2 DEF Unmark
    <3>2. \A x \in Contexts \ {c} : Closing(x) => Closing(x)'
      BY <1>0, <2>1, <3>1 DEF Closing
    <3> QED BY <2>1, <2>2, <3>2 DEF OneContext, Live
  <2>3. CASE Live(c) /\ Live(c)' /\ ctx'[c].home = ctx[c].home /\ inflight' = inflight
    <3>1. \A x \in Contexts : ctx'[x].home = ctx[x].home /\ (Live(x)' => Live(x))
      BY <2>1, <2>3 DEF Live
    <3>2. \A x \in Contexts : Closing(x) => Closing(x)'
      BY <2>1, <2>3, <3>1 DEF Closing
    <3> QED BY <3>1, <3>2 DEF OneContext
  <2> QED BY <2>1, <2>2, <2>3
<1>2. ASSUME NEW c \in Contexts, Publish(c) PROVE OneContext'
  <2>1. PICK d \in Daemons : inflight[d] = c /\ ctx[c].home = d
    BY <1>0, <1>2 DEF Publish, Basic, InflightHome
  <2>2. ~Closing(c)
    BY <2>1 DEF Closing
  <2>3. ASSUME NEW x \in Contexts, Closing(x) PROVE Closing(x)'
    <3>1. x # c
      BY <2>2, <2>3
    <3>2. inflight'[ctx[x].home] \in {inflight[ctx[x].home], NoContext}
      BY <1>0, <1>2, <2>3 DEF Publish, Unmark, Closing
    <3> QED BY <1>0, <1>2, <2>3, <3>1, <3>2 DEF Closing, Publish
  <2> QED BY <1>2, <2>3 DEF OneContext, Publish, Live
<1>3. ASSUME NEW c \in Contexts, Destroy(c) PROVE OneContext'
  BY <1>3 DEF OneContext, Destroy, Live, Closing
<1>4. ASSUME NEW c \in Contexts, NEW p \in Processes, NEW at, Opens(c, p, at),
             \A x \in Contexts \ {c} : Closing(x) => Closing(x)',
             \A x \in Contexts : Live(x) /\ ctx[x].home = p => Closing(x)
      PROVE  OneContext'
  <2>1. /\ \A x \in Contexts \ {c} : ctx'[x] = ctx[x]
        /\ ctx'[c].home = p
    BY <1>0, <1>4 DEF Opens, Goes, Free
  <2> QED BY <1>4, <2>1 DEF OneContext, Live
<1>5. ASSUME NEW c \in Contexts, NEW d \in Daemons, RegistryResume(c, d) PROVE OneContext'
  <2>1. \A x \in Contexts : ctx[x].home = d => Closing(x)
    BY <1>0, <1>5 DEF RegistryResume, Vacant, Of, Closing
  <2>2. \A x \in Contexts \ {c} : Closing(x) => Closing(x)'
    <3>1. \A x \in Contexts \ {c} : ctx'[x] = ctx[x]
      BY <1>0, <1>5 DEF RegistryResume, Opens, Goes
    <3> QED BY <1>0, <1>5, <3>1 DEF RegistryResume, Closing
  <2> QED BY <1>4, <1>5, <2>1, <2>2 DEF RegistryResume, Processes
<1>6. ASSUME NEW c \in Contexts, NEW d \in Daemons, RegistryCreate(c, d) PROVE OneContext'
  <2>1. \A x \in Contexts \ {c} : ~Live(x)'
    BY <1>0, <1>6 DEF RegistryCreate, Opens, Goes, Live
  <2> QED BY <2>1 DEF OneContext
<1>7. ASSUME NEW c \in Contexts, NEW t \in Tuis, TuiResume(c, t) PROVE OneContext'
  <2>1. \A x \in Contexts : ctx[x].home # t
    BY <1>7 DEF TuiResume, Of
  <2>2. \A x \in Contexts \ {c} : Closing(x) => Closing(x)'
    <3>1. \A x \in Contexts \ {c} : ctx'[x] = ctx[x]
      BY <1>0, <1>7 DEF TuiResume, Opens, Goes
    <3> QED BY <1>0, <1>7, <3>1 DEF TuiResume, Closing, registryVars
  <2> QED BY <1>4, <1>7, <2>1, <2>2 DEF TuiResume, Processes
<1>8. ASSUME NEW p \in Processes, ProcessEnds(p) PROVE OneContext'
  <2>1. /\ \A x \in Of(p) : ctx'[x] = Free
        /\ \A x \in Contexts \ Of(p) : ctx'[x] = ctx[x] /\ ctx[x].home # p
    BY <1>8 DEF ProcessEnds, Of
  <2>2. \A x \in Contexts \ Of(p) : Closing(x) => Closing(x)'
    BY <1>0, <1>8, <2>1 DEF ProcessEnds, Closing
  <2> QED BY <2>1, <2>2 DEF OneContext, Live
<1>9. CASE LeaseAges \/ UNCHANGED vars
  BY <1>9 DEF LeaseAges, vars, registryVars, OneContext, Live, Closing
<1> QED BY <1>1, <1>2, <1>3, <1>5, <1>6, <1>7, <1>8, <1>9 DEF Next

-----------------------------------------------------------------------------
(* The lease.                                                                *)

(* Whoever has taken the lease is named by it, or is disputed.               *)
Hold(c) == ctx[c].created => lease.pid = ctx[c].home \/ c \in disputed

(* Of two processes that want the lease at once both are disputed; who takes *)
(* it from another has it disputed, and is disputed if the other still       *)
(* writes the file.                                                          *)
Pair(c, x) ==
  ctx[c].home # ctx[x].home =>
    /\ ctx[c].at = "claim" /\ ctx[x].at = "claim" => c \in disputed
    /\ ctx[c].at = "claim" /\ ctx[x].created =>
         x \in disputed /\ (lease.pid = ctx[x].home => c \in disputed)
    /\ ctx[x].at \in {"rewrite", "remove"} /\ (ctx[c].at = "claim" \/ ctx[c].created) =>
         c \in disputed

LeaseInv == \A c \in Contexts : Hold(c) /\ \A x \in Contexts : Pair(c, x)

(* A step that neither starts nor ends an access to the lease file.          *)
Calm(x) ==
  \/ ctx'[x] = ctx[x] /\ (x \in disputed => x \in disputed')
  \/ /\ ctx'[x].at \notin {"claim", "rewrite", "remove"}
     /\ ctx'[x].created => /\ ctx[x].created /\ ctx'[x].home = ctx[x].home
                           /\ x \in disputed => x \in disputed'

LEMMA CalmStep ==
  ASSUME LeaseInv, lease'.pid = lease.pid, \A x \in Contexts : Calm(x)
  PROVE  LeaseInv'
<1>1. ASSUME NEW c \in Contexts PROVE Hold(c)'
  BY DEF LeaseInv, Hold, Calm
<1>2. ASSUME NEW c \in Contexts, NEW x \in Contexts PROVE Pair(c, x)'
  BY DEF LeaseInv, Pair, Calm
<1> QED BY <1>1, <1>2 DEF LeaseInv

LEMMA LeaseCalm ==
  ASSUME Basic, LeaseInv, NEW c \in Contexts,
         \/ LoadMessages(c) \/ RefusedDaemon(c) \/ RefusedOpen(c) \/ AppendMessage(c)
         \/ Publish(c) \/ OnMessage(c) \/ Leave(c) \/ Destroy(c) \/ Joined(c)
         \/ \E d \in Daemons : RegistryResume(c, d) \/ RegistryCreate(c, d)
         \/ \E t \in Tuis : TuiResume(c, t)
  PROVE  LeaseInv'
<1>0. ctx \in [Contexts -> AnyContext]
  BY TypeParts DEF Basic
<1>1. lease' = lease
  BY DEF LoadMessages, RefusedDaemon, RefusedOpen, AppendMessage, Publish, OnMessage, Leave, Destroy,
         Joined, RegistryResume, RegistryCreate, TuiResume, Opens
<1>2. CASE Publish(c) \/ Destroy(c)
  BY <1>1, <1>2, CalmStep DEF Publish, Destroy, historyVars, Calm
<1>3. ASSUME ctx' = [ctx EXCEPT ![c] = Free], Remembered({c}) PROVE LeaseInv'
  BY <1>0, <1>1, <1>3, CalmStep DEF Remembered, Calm, Free
<1>4. ASSUME NEW p, NEW at \in {"load", "open"}, Opens(c, p, at) PROVE LeaseInv'
  BY <1>0, <1>1, <1>4, CalmStep DEF Opens, Goes, Calm, Free
<1>5. ASSUME NEW at \in {"acquire", "open", "refresh", "append"}, NEW why, disputed' = disputed,
             ctx[c].at # "free",
             \/ ctx' = [ctx EXCEPT ![c] = [ctx[c] EXCEPT !.at = at]]
             \/ ctx' = [ctx EXCEPT ![c] = [ctx[c] EXCEPT !.at = at, !.why = why]]
      PROVE  LeaseInv'
  <2>1. ctx[c] \in Context
    BY <1>5, AtIsLive
  <2> DEFINE q == [ctx[c] EXCEPT !.at = at]
             w == [ctx[c] EXCEPT !.at = at, !.why = why]
  <2>2. /\ q.at = at /\ q.created = ctx[c].created /\ q.home = ctx[c].home
        /\ w.at = at /\ w.created = ctx[c].created /\ w.home = ctx[c].home
    BY <2>1 DEF Context
  <2>3. ctx'[c] \in {q, w} /\ \A x \in Contexts \ {c} : ctx'[x] = ctx[x]
    BY <1>0, <1>5
  <2> HIDE DEF q, w
  <2>4. Calm(c)
    BY <1>5, <2>2, <2>3 DEF Calm
  <2> QED BY <1>1, <1>5, <2>3, <2>4, CalmStep DEF Calm
<1>6. CASE LoadMessages(c) \/ RefusedOpen(c) \/ AppendMessage(c)
  BY <1>5, <1>6 DEF LoadMessages, RefusedOpen, AppendMessage, Moves, Goes, historyVars
<1>7. CASE OnMessage(c)
  BY <1>5, <1>7 DEF OnMessage, Goes, historyVars
<1>8. CASE Leave(c)
  BY <1>3, <1>5, <1>8 DEF Leave, Goes, Ends, historyVars
<1>9. CASE RefusedDaemon(c) \/ Joined(c)
  BY <1>3, <1>9 DEF RefusedDaemon, Joined, Ends, Goes
<1> QED
  BY <1>2, <1>4, <1>6, <1>7, <1>8, <1>9 DEF RegistryResume, RegistryCreate, TuiResume

LEMMA LeaseWorld ==
  ASSUME Basic, LeaseInv,
         (\E p \in Processes : ProcessEnds(p)) \/ LeaseAges \/ UNCHANGED vars
  PROVE  LeaseInv'
<1>1. CASE LeaseAges
  <2>1. lease'.pid = lease.pid
    BY <1>1, TypeParts DEF Basic, LeaseAges, LeaseType
  <2> QED BY <1>1, <2>1, CalmStep DEF LeaseAges, historyVars, Calm
<1>2. CASE UNCHANGED vars
  BY <1>2, CalmStep DEF vars, historyVars, Calm
<1>3. ASSUME NEW p \in Processes, ProcessEnds(p) PROVE LeaseInv'
  BY <1>3, CalmStep DEF ProcessEnds, Remembered, Calm, Free
<1> QED BY <1>1, <1>2, <1>3

(* Reading the lease.                                                        *)
LEMMA LeaseRead ==
  ASSUME Basic, LeaseInv, NEW c \in Contexts, ReadLease(c)
  PROVE  LeaseInv'
<1>0. ctx \in [Contexts -> AnyContext] /\ ctx[c] \in Context
  BY TypeParts, AtIsLive DEF Basic, ReadLease, Moves, Goes
<1>1. /\ \A x \in Contexts \ {c} : ctx'[x] = ctx[x]
      /\ ctx'[c].at = "claim" /\ ctx'[c].home = ctx[c].home /\ ~ctx'[c].created
      /\ lease' = lease /\ disputed \subseteq disputed'
  <2>1. ctx[c].at = "acquire" /\ ~ctx[c].created
    BY DEF ReadLease, Moves, Goes, Basic, Shape, Opening
  <2> QED BY <1>0, <2>1 DEF ReadLease, Moves, Goes, Context
<1>2. ASSUME NEW x \in Contexts, ctx[x].home # ctx[c].home, ctx[x].created
      PROVE  x \in disputed \/ (x \in Rivals(c) /\ lease.pid = ctx[x].home)
  <2>1. Live(x) /\ ctx[x].home \in alive /\ ctx[x].home # NoProcess
    BY <1>2, LiveIsContext, ProcessesAssumption DEF Basic, Shape, Live, Free, Processes
  <2> QED BY <1>2, <2>1 DEF LeaseInv, Hold, ReadLease, Conflict, Rivals
<1>3. ASSUME NEW x \in Contexts, ctx[x].home # ctx[c].home,
             ctx[x].at \in {"claim", "rewrite", "remove"}
      PROVE  x \in Rivals(c)
  BY <1>3, AtIsLive DEF Rivals
<1>4. Rivals(c) \subseteq disputed' /\ (Rivals(c) # {} => c \in disputed')
  BY DEF ReadLease
<1>5. ASSUME NEW x \in Contexts PROVE Hold(x)'
  BY <1>1 DEF LeaseInv, Hold
<1>6. ASSUME NEW a \in Contexts, NEW b \in Contexts PROVE Pair(a, b)'
  <2>1. CASE a # c /\ b # c
    BY <1>1, <2>1 DEF LeaseInv, Pair
  <2>2. CASE a = c /\ b # c
    <3> SUFFICES ASSUME ctx[c].home # ctx[b].home
                 PROVE  /\ ctx[b].at = "claim" => c \in disputed'
                        /\ ctx[b].created =>
                             b \in disputed' /\ (lease.pid = ctx[b].home => c \in disputed')
                        /\ ctx[b].at \in {"rewrite", "remove"} => c \in disputed'
      BY <1>1, <2>2 DEF Pair
    <3>1. ctx[b].created => b \in disputed'
      BY <1>1, <1>2, <1>4
    <3>2. ctx[b].created /\ lease.pid = ctx[b].home => c \in disputed'
      <4>1. ctx[b].created /\ lease.pid = ctx[b].home => b \in Rivals(c)
        <5>1. ctx[b].created => Live(b) /\ ctx[b].home \in alive /\ ctx[b].home # NoProcess
          BY LiveIsContext, ProcessesAssumption DEF Basic, Shape, Live, Free, Processes
        <5> QED BY <5>1 DEF ReadLease, Conflict, Rivals
      <4> QED BY <1>4, <4>1
    <3> QED BY <1>3, <1>4, <3>1, <3>2
  <2>3. CASE a # c /\ b = c
    <3> SUFFICES ASSUME ctx[a].home # ctx[c].home PROVE ctx[a].at = "claim" => a \in disputed'
      BY <1>1, <2>3 DEF Pair
    <3> QED BY <1>3, <1>4
  <2>4. CASE a = c /\ b = c
    BY <2>4 DEF Pair
  <2> QED BY <2>1, <2>2, <2>3, <2>4
<1> QED BY <1>5, <1>6 DEF LeaseInv

(* Writing the file once the lease has been read.                            *)
LEMMA LeaseWrite ==
  ASSUME Basic, LeaseInv, NEW c \in Contexts, WriteLease(c)
  PROVE  LeaseInv'
<1>0. ctx \in [Contexts -> AnyContext] /\ ctx[c] \in Context /\ ctx[c].at = "claim"
  BY TypeParts, AtIsLive DEF Basic, WriteLease, Goes
<1> DEFINE at == IF ctx[c].why = "message" THEN "append" ELSE "refresh"
           q == [ctx[c] EXCEPT !.at = at, !.created = TRUE, !.active = TRUE]
<1>1. q.at \in {"append", "refresh"} /\ q.home = ctx[c].home /\ q.created
  BY <1>0 DEF Context
<1>2. /\ \A x \in Contexts \ {c} : ctx'[x] = ctx[x]
      /\ ctx'[c] = q
      /\ lease'.pid = ctx[c].home /\ disputed' = disputed
  BY <1>0 DEF WriteLease, Goes, historyVars
<1> HIDE DEF q
<1>3. ASSUME NEW x \in Contexts PROVE Hold(x)'
  BY <1>0, <1>1, <1>2 DEF LeaseInv, Hold, Pair
<1>4. ASSUME NEW a \in Contexts, NEW b \in Contexts PROVE Pair(a, b)'
  <2>1. CASE a # c /\ b # c
    <3>1. Pair(a, b) /\ Pair(a, c)
      BY DEF LeaseInv
    <3> QED BY <1>0, <1>2, <2>1, <3>1 DEF Pair
  <2>2. CASE a = c /\ b # c
    <3>1. Pair(c, b)
      BY DEF LeaseInv
    <3> QED BY <1>0, <1>1, <1>2, <2>2, <3>1 DEF Pair
  <2>3. CASE a # c /\ b = c
    <3>1. Pair(a, c) /\ Pair(c, a)
      BY DEF LeaseInv
    <3> QED BY <1>0, <1>1, <1>2, <2>3, <3>1 DEF Pair
  <2>4. CASE a = c /\ b = c
    BY <2>4 DEF Pair
  <2> QED BY <2>1, <2>2, <2>3, <2>4
<1> QED BY <1>3, <1>4 DEF LeaseInv

(* Finding the own lease, to rewrite or to remove it.                        *)
LEMMA LeaseFound ==
  ASSUME Basic, LeaseInv, NEW c \in Contexts, ctx[c].at # "free", ctx[c].created,
         lease' = lease, disputed' = disputed, lease.pid = ctx[c].home,
         \A x \in Contexts \ {c} : ctx'[x] = ctx[x],
         ctx'[c].at \in {"rewrite", "remove"}, ctx'[c].home = ctx[c].home, ctx'[c].created
  PROVE  LeaseInv'
<1>1. ASSUME NEW x \in Contexts PROVE Hold(x)'
  BY DEF LeaseInv, Hold
<1>2. ASSUME NEW a \in Contexts, NEW b \in Contexts PROVE Pair(a, b)'
  <2>1. CASE a # c /\ b # c
    BY <2>1 DEF LeaseInv, Pair
  <2>2. CASE a = c /\ b # c
    BY <2>2 DEF LeaseInv, Pair
  <2>3. CASE a # c /\ b = c
    <3>1. Pair(a, c) /\ Hold(a)
      BY DEF LeaseInv
    <3> QED BY <2>3, <3>1 DEF Pair, Hold
  <2>4. CASE a = c /\ b = c
    BY <2>4 DEF Pair
  <2> QED BY <2>1, <2>2, <2>3, <2>4
<1> QED BY <1>1, <1>2 DEF LeaseInv

LEMMA LeaseReads ==
  ASSUME Basic, LeaseInv, NEW c \in Contexts, RefreshRead(c) \/ ReleaseRead(c)
  PROVE  LeaseInv'
<1>0. ctx \in [Contexts -> AnyContext] /\ ctx[c] \in Context /\ ctx[c].created /\ lease' = lease
      /\ ctx[c].at # "free"
  BY TypeParts, AtIsLive DEF Basic, Shape, Leaving, RefreshRead, ReleaseRead, Moves, Goes, Ends
<1>1. CASE RefreshRead(c)
  <2> DEFINE ours == ctx[c].active /\ lease.pid = ctx[c].home
             at == IF ours THEN "rewrite" ELSE After(c)
             q == [ctx[c] EXCEPT !.at = at, !.active = ours]
  <2>1. q.at = at /\ q.home = ctx[c].home /\ q.created
    BY <1>0 DEF Context
  <2>2. ctx'[c] = q /\ disputed' = disputed /\ \A x \in Contexts \ {c} : ctx'[x] = ctx[x]
    BY <1>0, <1>1 DEF RefreshRead, Goes, historyVars
  <2> HIDE DEF q
  <2>3. CASE ours
    BY <1>0, <2>1, <2>2, <2>3, LeaseFound
  <2>4. CASE ~ours
    <3>1. Calm(c)
      BY <1>0, <2>1, <2>2, <2>4 DEF Calm, After
    <3> QED BY <1>0, <2>2, <3>1, CalmStep DEF Calm
  <2> QED BY <2>3, <2>4
<1>2. CASE ReleaseRead(c)
  <2> DEFINE q == [ctx[c] EXCEPT !.at = "remove"]
  <2>1. q.at = "remove" /\ q.home = ctx[c].home /\ q.created
    BY <1>0 DEF Context
  <2>2. \A x \in Contexts \ {c} : ctx'[x] = ctx[x]
    BY <1>0, <1>2 DEF ReleaseRead, Moves, Ends, Goes
  <2>3. CASE ctx[c].active /\ lease.pid = ctx[c].home
    <3>1. ctx'[c] = q /\ disputed' = disputed
      BY <1>0, <1>2, <2>3 DEF ReleaseRead, Moves, Goes, historyVars
    <3> QED BY <1>0, <2>1, <2>2, <2>3, <3>1, LeaseFound
  <2>4. CASE ~(ctx[c].active /\ lease.pid = ctx[c].home)
    <3>1. ctx'[c] = Free /\ disputed' = disputed \ {c}
      BY <1>0, <1>2, <2>4 DEF ReleaseRead, Ends, Goes, Remembered
    <3> QED BY <1>0, <2>2, <3>1, CalmStep DEF Calm, Free
  <2> QED BY <2>3, <2>4
<1> QED BY <1>1, <1>2

LEMMA LeaseWrites ==
  ASSUME Basic, OneContext, LeaseInv, NEW c \in Contexts, RefreshWrite(c) \/ ReleaseRemove(c)
  PROVE  LeaseInv'
<1>0. ctx \in [Contexts -> AnyContext] /\ ctx[c] \in Context /\ ctx[c].created
      /\ ctx[c].at \in {"rewrite", "remove"}
  BY TypeParts, AtIsLive DEF Basic, Shape, Leaving, RefreshWrite, ReleaseRemove, Moves, Goes, Ends
<1>1. CASE RefreshWrite(c)
  <2> DEFINE q == [ctx[c] EXCEPT !.at = After(c)]
  <2>1. q.at \in {"release", "open"} /\ q.home = ctx[c].home /\ q.created
    BY <1>0 DEF Context, After
  <2>2. ctx'[c] = q /\ disputed' = disputed /\ \A x \in Contexts \ {c} : ctx'[x] = ctx[x]
    BY <1>0, <1>1 DEF RefreshWrite, Moves, Goes, historyVars
  <2>3. lease'.pid = ctx[c].home
    BY <1>1 DEF RefreshWrite
  <2> HIDE DEF q
  <2>4. ASSUME NEW x \in Contexts PROVE Hold(x)'
    BY <1>0, <2>1, <2>2, <2>3 DEF LeaseInv, Hold, Pair
  <2>5. ASSUME NEW a \in Contexts, NEW b \in Contexts PROVE Pair(a, b)'
    <3>1. Pair(a, b) /\ Pair(a, c)
      BY DEF LeaseInv
    <3> QED BY <1>0, <2>1, <2>2, <2>3, <3>1 DEF Pair
  <2> QED BY <2>4, <2>5 DEF LeaseInv
<1>2. CASE ReleaseRemove(c)
  <2>1. ctx[c].home \in Tuis /\ ctx[c].home \notin Daemons
    BY <1>0, <1>2, ProcessesAssumption DEF Basic, Shape, ReleaseRemove, Ends, Goes, Leaving
  <2>2. ctx'[c] = Free /\ disputed' = disputed \ {c} /\ \A x \in Contexts \ {c} : ctx'[x] = ctx[x]
    BY <1>0, <1>2 DEF ReleaseRemove, Ends, Goes, Remembered
  <2>3. lease'.pid = NoProcess
    BY <1>2 DEF ReleaseRemove, NoLease
  <2>4. ASSUME NEW x \in Contexts \ {c}, ctx[x].created
        PROVE  x \in disputed /\ ctx[x].home # NoProcess
    <3>1. Live(x) /\ Live(c)
      BY <1>0, <2>4 DEF Live, Free
    <3>2. ctx[x].home # ctx[c].home
      BY <2>1, <2>4, <3>1 DEF OneContext, Closing
    <3>3. x \in disputed
      BY <1>0, <2>4, <3>2 DEF LeaseInv, Pair
    <3> QED BY <3>1, <3>3, LiveIsContext, ProcessesAssumption DEF Basic, Processes
  <2>5. ASSUME NEW x \in Contexts PROVE Hold(x)'
    BY <2>2, <2>4 DEF Hold, Free
  <2>6. ASSUME NEW a \in Contexts, NEW b \in Contexts PROVE Pair(a, b)'
    <3>1. CASE a = c \/ b = c
      BY <2>2, <3>1 DEF Pair, Free
    <3>2. CASE a # c /\ b # c
      <4>1. Pair(a, b)
        BY DEF LeaseInv
      <4>2. ctx[b].created => lease'.pid # ctx[b].home
        BY <2>3, <2>4, <3>2
      <4> QED BY <2>2, <3>2, <4>1, <4>2 DEF Pair
    <3> QED BY <3>1, <3>2
  <2> QED BY <2>5, <2>6 DEF LeaseInv
<1> QED BY <1>1, <1>2

LEMMA LeaseNext == Basic /\ OneContext /\ LeaseInv /\ [Next]_vars => LeaseInv'
BY LeaseCalm, LeaseWorld, LeaseRead, LeaseWrite, LeaseReads, LeaseWrites DEF Next, Proceed

LEMMA LeaseInit == Init => OneContext /\ LeaseInv
BY DEF Init, OneContext, LeaseInv, Hold, Pair, Live, Free

-----------------------------------------------------------------------------
(* Who took the session alone.                                               *)

(* Until it has taken the lease nobody else is there, nor are there files if *)
(* it waits for the first message.  In its own process another comes only    *)
(* once it is being destroyed; in others nobody takes the lease from it      *)
(* without a dispute.                                                        *)
Apart(x) ==
  x \in alone =>
    /\ ~ctx[x].created => /\ \A y \in Contexts \ {x} : ~Live(y)
                          /\ ctx[x].at = "open" => ~exists
    /\ \A y \in Contexts \ {x} : Live(y) /\ ctx[y].home = ctx[x].home => Closing(x)
    /\ x \notin disputed /\ ctx[x].created =>
         \A y \in Contexts \ {x} :
           Live(y) /\ ctx[y].home # ctx[x].home => ~ctx[y].created /\ ctx[y].at # "claim"

AloneInv == (\A x \in Contexts : Apart(x)) /\ HistoryComplete

(* A live context keeps its process, and does not come back into entries_.   *)
LEMMA ClosingStays ==
  ASSUME Basic, [Next]_vars, NEW x \in Contexts, Live(x), Live(x)'
  PROVE  ctx'[x].home = ctx[x].home /\ (Closing(x) => Closing(x)')
<1>0. /\ ctx \in [Contexts -> AnyContext] /\ inflight \in [Daemons -> Contexts \union {NoContext}]
      /\ NoContext \notin Contexts
  BY TypeParts DEF Basic, NoContext, Contexts
<1>1. ASSUME NEW c \in Contexts, Proceed(c) \/ OnMessage(c) \/ Leave(c) \/ Joined(c)
      PROVE  ctx'[x].home = ctx[x].home /\ (Closing(x) => Closing(x)')
  <2>1. /\ ctx'[x] = ctx[x] \/ ctx'[x].home = ctx[x].home
        /\ mapped' = mapped /\ inflight' \in {inflight, Unmark(c)}
    BY <1>1, UseEffect DEF Live
  <2> QED BY <1>0, <2>1 DEF Closing, Unmark
<1>2. ASSUME NEW c \in Contexts, Publish(c)
      PROVE  ctx'[x].home = ctx[x].home /\ (Closing(x) => Closing(x)')
  <2>1. PICK d \in Daemons : inflight[d] = c /\ ctx[c].home = d
    BY <1>0, <1>2 DEF Publish, Basic, InflightHome
  <2>2. Closing(x) => x # c
    BY <2>1 DEF Closing
  <2> QED BY <1>0, <1>2, <2>2 DEF Publish, Closing, Unmark
<1>3. ASSUME NEW c \in Contexts, Destroy(c)
      PROVE  ctx'[x].home = ctx[x].home /\ (Closing(x) => Closing(x)')
  BY <1>3 DEF Destroy, Closing
<1>4. ASSUME NEW c \in Contexts, NEW p, NEW at, Opens(c, p, at)
      PROVE  x # c /\ ctx'[x] = ctx[x]
  BY <1>0, <1>4 DEF Opens, Goes
<1>5. ASSUME NEW c \in Contexts, NEW d \in Daemons, RegistryResume(c, d) \/ RegistryCreate(c, d)
      PROVE  ctx'[x].home = ctx[x].home /\ (Closing(x) => Closing(x)')
  <2>1. x # c /\ ctx'[x] = ctx[x]
    BY <1>4, <1>5 DEF RegistryResume, RegistryCreate
  <2> QED BY <1>0, <1>5, <2>1 DEF RegistryResume, RegistryCreate, Closing
<1>6. ASSUME NEW c \in Contexts, NEW t \in Tuis, TuiResume(c, t)
      PROVE  ctx'[x].home = ctx[x].home /\ (Closing(x) => Closing(x)')
  BY <1>4, <1>6 DEF TuiResume, Closing, registryVars
<1>7. ASSUME NEW p \in Processes, ProcessEnds(p)
      PROVE  ctx'[x].home = ctx[x].home /\ (Closing(x) => Closing(x)')
  BY <1>0, <1>7 DEF ProcessEnds, Closing, Live, Of
<1>8. CASE LeaseAges \/ UNCHANGED vars
  BY <1>8 DEF LeaseAges, vars, registryVars, Closing
<1> QED BY <1>1, <1>2, <1>3, <1>5, <1>6, <1>7, <1>8 DEF Next

LEMMA HomeIsLive ==
  ASSUME Basic, NEW x \in Contexts, Live(x), ctx'[x].home = ctx[x].home
  PROVE  Live(x)'
<1>1. ctx[x].home \in Processes /\ Free.home \notin Processes
  BY LiveIsContext, ProcessesAssumption DEF Basic, Free, Processes
<1> QED BY <1>1 DEF Live

(* A step that neither opens a context nor takes the lease.                  *)
Still(x) ==
  \/ ctx'[x] = ctx[x]
  \/ ctx'[x] = Free /\ x \notin alone'
  \/ /\ Live(x) /\ ctx'[x].home = ctx[x].home /\ ctx'[x].created = ctx[x].created
     /\ ctx'[x].at # "claim"
     /\ ctx'[x].at = "open" => ctx[x].created \/ x \notin alone'

LEMMA ApartStill ==
  ASSUME Basic, [Next]_vars, \A x \in Contexts : Apart(x), \A x \in Contexts : Still(x),
         alone' \subseteq alone, exists' = exists, disputed \intersect alone' \subseteq disputed'
  PROVE  \A x \in Contexts : Apart(x)'
<1> SUFFICES ASSUME NEW x \in Contexts, x \in alone' PROVE Apart(x)'
  BY DEF Apart
<1>1. x \in alone /\ Apart(x) /\ Still(x) /\ (x \notin disputed' => x \notin disputed) /\ Live(x)
  BY TypeParts DEF Basic, HistoryType
<1>2. ctx'[x].home = ctx[x].home /\ ctx'[x].created = ctx[x].created
      /\ (ctx'[x].at = "open" /\ ~ctx'[x].created => ctx[x].at = "open")
  BY <1>1 DEF Still
<1>3. ASSUME NEW y \in Contexts, Live(y)'
      PROVE  /\ Live(y) /\ ctx'[y].home = ctx[y].home /\ ctx'[y].created = ctx[y].created
             /\ ctx'[y].at = "claim" => ctx[y].at = "claim"
  <2>1. Still(y)
    OBVIOUS
  <2> QED BY <1>3, <2>1 DEF Still, Live
<1>4. Closing(x) => Closing(x)'
  <2>1. Live(x)'
    BY <1>1, <1>2, HomeIsLive
  <2> QED BY <1>1, <2>1, ClosingStays
<1> QED BY <1>1, <1>2, <1>3, <1>4 DEF Apart

LEMMA ApartCalm ==
  ASSUME Basic, [Next]_vars, \A x \in Contexts : Apart(x), NEW c \in Contexts,
         \/ LoadMessages(c) \/ RefusedDaemon(c) \/ RefusedOpen(c) \/ AppendMessage(c)
         \/ RefreshRead(c) \/ RefreshWrite(c) \/ ReleaseRead(c) \/ ReleaseRemove(c)
         \/ Publish(c) \/ OnMessage(c) \/ Leave(c) \/ Destroy(c) \/ Joined(c)
  PROVE  \A x \in Contexts : Apart(x)'
<1>0. ctx \in [Contexts -> AnyContext] /\ Shape(c)
  BY TypeParts DEF Basic
<1>1. /\ exists' = exists /\ alone' \subseteq alone
      /\ disputed \intersect alone' \subseteq disputed'
  BY DEF LoadMessages, RefusedDaemon, RefusedOpen, AppendMessage, RefreshRead, RefreshWrite, ReleaseRead,
         ReleaseRemove, Publish, OnMessage, Leave, Destroy, Joined, Ends, Remembered, historyVars
<1>2. ASSUME ctx' = [ctx EXCEPT ![c] = Free], Remembered({c}) PROVE \A x \in Contexts : Still(x)
  BY <1>0, <1>2 DEF Still, Remembered
<1>3. ASSUME NEW r, ctx[c].at # "free", ctx' = [ctx EXCEPT ![c] = r],
             r.home = ctx[c].home, r.created = ctx[c].created, r.at # "claim",
             r.at = "open" => ctx[c].created \/ c \notin alone'
      PROVE  \A x \in Contexts : Still(x)
  <2>1. Live(c) /\ ctx'[c] = r /\ \A x \in Contexts \ {c} : ctx'[x] = ctx[x]
    BY <1>0, <1>3, AtIsLive
  <2> QED BY <1>3, <2>1 DEF Still
<1>12. ASSUME ctx[c].at # "free", NEW at
       PROVE  LET r == [ctx[c] EXCEPT !.at = at]
              IN  r.home = ctx[c].home /\ r.created = ctx[c].created /\ r.at = at
  BY <1>12, AtIsLive DEF Context
<1>13. ASSUME ctx[c].at # "free", NEW at, NEW why
       PROVE  LET r == [ctx[c] EXCEPT !.at = at, !.why = why]
              IN  r.home = ctx[c].home /\ r.created = ctx[c].created /\ r.at = at
  BY <1>13, AtIsLive DEF Context
<1>14. ASSUME ctx[c].at # "free", NEW at, NEW active
       PROVE  LET r == [ctx[c] EXCEPT !.at = at, !.active = active]
              IN  r.home = ctx[c].home /\ r.created = ctx[c].created /\ r.at = at
  BY <1>14, AtIsLive DEF Context
<1>4. CASE Publish(c) \/ Destroy(c)
  BY <1>1, <1>4, ApartStill DEF Publish, Destroy, Still
<1>5. CASE LoadMessages(c)
  <2> DEFINE r == [ctx[c] EXCEPT !.at = "acquire"]
  <2>1. ctx[c].at # "free" /\ ctx' = [ctx EXCEPT ![c] = r]
    BY <1>5 DEF LoadMessages, Moves, Goes
  <2>2. \A x \in Contexts : Still(x)
    <3>1. r.home = ctx[c].home /\ r.created = ctx[c].created /\ r.at = "acquire"
      BY <1>12, <2>1
    <3> HIDE DEF r
    <3> QED BY <1>3, <2>1, <3>1
  <2> QED BY <1>1, <2>2, ApartStill
<1>6. CASE RefusedOpen(c)
  <2> DEFINE r == [ctx[c] EXCEPT !.at = "open"]
  <2>1. ctx[c].at # "free" /\ ctx' = [ctx EXCEPT ![c] = r] /\ c \notin alone'
    BY <1>6 DEF RefusedOpen, Moves, Goes
  <2>2. \A x \in Contexts : Still(x)
    <3>1. r.home = ctx[c].home /\ r.created = ctx[c].created /\ r.at = "open"
      BY <1>12, <2>1
    <3> HIDE DEF r
    <3> QED BY <1>3, <2>1, <3>1
  <2> QED BY <1>1, <2>2, ApartStill
<1>7. CASE AppendMessage(c)
  <2> DEFINE r == [ctx[c] EXCEPT !.at = "refresh"]
  <2>1. ctx[c].at # "free" /\ ctx' = [ctx EXCEPT ![c] = r]
    BY <1>7 DEF AppendMessage, Moves, Goes
  <2>2. \A x \in Contexts : Still(x)
    <3>1. r.home = ctx[c].home /\ r.created = ctx[c].created /\ r.at = "refresh"
      BY <1>12, <2>1
    <3> HIDE DEF r
    <3> QED BY <1>3, <2>1, <3>1
  <2> QED BY <1>1, <2>2, ApartStill
<1>8. CASE RefreshRead(c)
  <2> DEFINE ours == ctx[c].active /\ lease.pid = ctx[c].home
             at == IF ours THEN "rewrite" ELSE After(c)
             r == [ctx[c] EXCEPT !.at = at, !.active = ours]
  <2>1. ctx[c].at # "free" /\ ctx[c].created /\ at # "claim" /\ ctx' = [ctx EXCEPT ![c] = r]
    BY <1>0, <1>8 DEF RefreshRead, Goes, Shape, After
  <2>2. \A x \in Contexts : Still(x)
    <3>1. r.home = ctx[c].home /\ r.created = ctx[c].created /\ r.at = at
      BY <1>14, <2>1
    <3> HIDE DEF r
    <3> QED BY <1>3, <2>1, <3>1
  <2> QED BY <1>1, <2>2, ApartStill
<1>9. CASE RefreshWrite(c)
  <2> DEFINE r == [ctx[c] EXCEPT !.at = After(c)]
  <2>1. ctx[c].at # "free" /\ ctx[c].created /\ After(c) # "claim" /\ ctx' = [ctx EXCEPT ![c] = r]
    BY <1>0, <1>9 DEF RefreshWrite, Moves, Goes, Shape, After
  <2>2. \A x \in Contexts : Still(x)
    <3>1. r.home = ctx[c].home /\ r.created = ctx[c].created /\ r.at = After(c)
      BY <1>12, <2>1
    <3> HIDE DEF r
    <3> QED BY <1>3, <2>1, <3>1
  <2> QED BY <1>1, <2>2, ApartStill
<1>10. CASE ReleaseRead(c)
  <2>1. CASE ctx[c].active /\ lease.pid = ctx[c].home
    <3> DEFINE r == [ctx[c] EXCEPT !.at = "remove"]
    <3>1. ctx[c].at # "free" /\ ctx' = [ctx EXCEPT ![c] = r]
      BY <1>10, <2>1 DEF ReleaseRead, Moves, Goes
    <3>2. r.home = ctx[c].home /\ r.created = ctx[c].created /\ r.at = "remove"
      BY <1>12, <3>1
    <3> HIDE DEF r
    <3>3. \A x \in Contexts : Still(x)
      BY <1>3, <3>1, <3>2
    <3> QED BY <1>1, <3>3, ApartStill
  <2>2. CASE ~(ctx[c].active /\ lease.pid = ctx[c].home)
    <3>1. \A x \in Contexts : Still(x)
      BY <1>2, <1>10, <2>2 DEF ReleaseRead, Ends, Goes
    <3> QED BY <1>1, <3>1, ApartStill
  <2> QED BY <2>1, <2>2
<1>15. CASE OnMessage(c)
  <2> DEFINE at == IF ctx[c].created THEN "append" ELSE "acquire"
             r == [ctx[c] EXCEPT !.at = at, !.why = "message"]
  <2>1. ctx[c].at # "free" /\ at \notin {"claim", "open"} /\ ctx' = [ctx EXCEPT ![c] = r]
    BY <1>15 DEF OnMessage, Goes
  <2>2. \A x \in Contexts : Still(x)
    <3>1. r.home = ctx[c].home /\ r.created = ctx[c].created /\ r.at = at
      BY <1>13, <2>1
    <3> HIDE DEF r
    <3> QED BY <1>3, <2>1, <3>1
  <2> QED BY <1>1, <2>2, ApartStill
<1>16. CASE Leave(c) /\ ctx[c].created
  <2> DEFINE r == [ctx[c] EXCEPT !.at = "refresh", !.why = "leave"]
  <2>1. ctx[c].at # "free" /\ ctx' = [ctx EXCEPT ![c] = r]
    BY <1>16 DEF Leave, Goes
  <2>2. \A x \in Contexts : Still(x)
    <3>1. r.home = ctx[c].home /\ r.created = ctx[c].created /\ r.at = "refresh"
      BY <1>13, <2>1
    <3> HIDE DEF r
    <3> QED BY <1>3, <2>1, <3>1
  <2> QED BY <1>1, <2>2, ApartStill
<1>17. CASE Leave(c) /\ ~ctx[c].created
  <2>1. \A x \in Contexts : Still(x)
    BY <1>2, <1>17 DEF Leave, Goes, Ends
  <2> QED BY <1>1, <2>1, ApartStill
<1>11. CASE RefusedDaemon(c) \/ ReleaseRemove(c) \/ Joined(c)
  <2>1. \A x \in Contexts : Still(x)
    BY <1>2, <1>11 DEF RefusedDaemon, ReleaseRemove, Joined, Goes, Ends
  <2> QED BY <1>1, <2>1, ApartStill
<1> QED BY <1>4, <1>5, <1>6, <1>7, <1>8, <1>9, <1>10, <1>11, <1>15, <1>16, <1>17

LEMMA ApartWorld ==
  ASSUME Basic, [Next]_vars, \A x \in Contexts : Apart(x),
         (\E p \in Processes : ProcessEnds(p)) \/ LeaseAges \/ UNCHANGED vars
  PROVE  \A x \in Contexts : Apart(x)'
<1>1. CASE LeaseAges \/ UNCHANGED vars
  BY <1>1, ApartStill DEF LeaseAges, vars, historyVars, Still
<1>2. ASSUME NEW p \in Processes, ProcessEnds(p) PROVE \A x \in Contexts : Apart(x)'
  BY <1>2, ApartStill DEF ProcessEnds, Remembered, Still
<1> QED BY <1>1, <1>2

(* A daemon looks at entries_ and the resume in flight first; a session that *)
(* waits for its first message has no files to resume.                       *)
LEMMA ApartOpens ==
  ASSUME Basic, [Next]_vars, \A x \in Contexts : Apart(x), NEW c \in Contexts,
         \/ \E d \in Daemons : RegistryResume(c, d) \/ RegistryCreate(c, d)
         \/ \E t \in Tuis : TuiResume(c, t)
  PROVE  \A x \in Contexts : Apart(x)'
<1>0. ctx \in [Contexts -> AnyContext] /\ NoContext \notin Contexts /\ Daemons \intersect Tuis = {}
  BY TypeParts, ProcessesAssumption DEF Basic, NoContext, Contexts
<1>1. PICK p \in Processes, at \in {"load", "open"} :
        /\ Opens(c, p, at)
        /\ \/ (\A x \in Contexts : ~Live(x)) /\ (at = "open" => ~exists)
           \/ exists /\ at = "load" /\ \A x \in Contexts : ctx[x].home = p => Closing(x)
  <2>1. ASSUME NEW d \in Daemons, RegistryResume(c, d)
        PROVE  \A x \in Contexts : ctx[x].home = d => Closing(x)
    BY <1>0, <2>1 DEF RegistryResume, Vacant, Of, Closing
  <2>2. ASSUME NEW t \in Tuis, TuiResume(c, t)
        PROVE  \A x \in Contexts : ctx[x].home = t => Closing(x)
    BY <2>2 DEF TuiResume, Of
  <2> QED BY <2>1, <2>2 DEF RegistryResume, RegistryCreate, TuiResume, Processes
<1> DEFINE q == [Free EXCEPT !.home = p, !.at = at]
<1>2. q.home = p /\ q.at = at /\ ~q.created
  BY DEF Free
<1>3. /\ ctx'[c] = q /\ \A x \in Contexts \ {c} : ctx'[x] = ctx[x]
      /\ ~Live(c) /\ alone' = AloneWith(c) /\ exists' = exists /\ disputed' = disputed
  BY <1>0, <1>1 DEF Opens, Goes
<1> HIDE DEF q
<1>4. CASE \A x \in Contexts : ~Live(x)
  <2>1. \A x \in Contexts \ {c} : ~Live(x)' /\ x \notin alone'
    BY <1>3, <1>4, TypeParts DEF Live, AloneWith, Basic, HistoryType
  <2>2. exists' => ctx'[c].at # "open"
    BY <1>1, <1>2, <1>3
  <2> QED BY <1>2, <1>3, <2>1, <2>2 DEF Apart
<1>5. CASE /\ exists /\ at = "load" /\ \A x \in Contexts : ctx[x].home = p => Closing(x)
           /\ ~\A x \in Contexts : ~Live(x)
  <2>1. c \notin alone' /\ alone' \subseteq {x \in alone : ctx[x].at \notin Opening} /\ c \notin alone
    BY <1>3, <1>5, TypeParts DEF AloneWith, Basic, HistoryType
  <2>2. ASSUME NEW x \in Contexts, x \in alone' PROVE Apart(x)'
    <3>1. x \in alone /\ x # c /\ Apart(x) /\ ctx[x].at \notin Opening /\ Live(x) /\ Live(x)'
      BY <1>3, <2>1, <2>2, TypeParts DEF Basic, HistoryType, Live
    <3>2. ctx[x].created
      BY <1>5, <3>1, LiveIsContext DEF Basic, Shape, Apart, Context, Using
    <3>3. Closing(x) => Closing(x)'
      BY <3>1, ClosingStays
    <3>4. ASSUME NEW y \in Contexts \ {x} PROVE y # c => ctx'[y] = ctx[y] /\ (Live(y)' => Live(y))
      BY <1>3 DEF Live
    <3> QED BY <1>2, <1>3, <1>5, <3>1, <3>2, <3>3, <3>4 DEF Apart
  <2> QED BY <2>2 DEF Apart
<1> QED BY <1>1, <1>4, <1>5

LEMMA ApartRead ==
  ASSUME Basic, [Next]_vars, LeaseInv, \A x \in Contexts : Apart(x), NEW c \in Contexts, ReadLease(c)
  PROVE  \A x \in Contexts : Apart(x)'
<1>0. ctx \in [Contexts -> AnyContext] /\ ctx[c] \in Context /\ ctx[c].at = "acquire"
      /\ ~ctx[c].created /\ Live(c)
  BY TypeParts, AtIsLive DEF Basic, ReadLease, Moves, Goes, Shape, Opening
<1> DEFINE q == [ctx[c] EXCEPT !.at = "claim"]
<1>1. q.at = "claim" /\ q.home = ctx[c].home /\ q.created = ctx[c].created
  BY <1>0 DEF Context
<1>2. /\ ctx'[c] = q /\ \A x \in Contexts \ {c} : ctx'[x] = ctx[x]
      /\ exists' = exists /\ alone' = alone /\ disputed' = disputed \union Rivals(c)
         \union {x \in {c} : Rivals(c) # {}}
  BY <1>0 DEF ReadLease, Moves, Goes
<1> HIDE DEF q
<1>3. ASSUME NEW x \in Contexts, ctx[x].home # ctx[c].home, ctx[x].created PROVE x \in disputed'
  <2>1. Live(x) /\ ctx[x].home \in alive /\ ctx[x].home # NoProcess
    BY <1>3, LiveIsContext, ProcessesAssumption DEF Basic, Shape, Live, Free, Processes
  <2> QED BY <1>2, <1>3, <2>1 DEF LeaseInv, Hold, ReadLease, Conflict, Rivals
<1>4. ASSUME NEW x \in Contexts, x \in alone PROVE Apart(x)'
  <2>1. Apart(x) /\ Live(x)
    BY <1>4, TypeParts DEF Basic, HistoryType
  <2>2. ctx'[x].home = ctx[x].home /\ ctx'[x].created = ctx[x].created
        /\ (ctx'[x].at = "open" => ctx[x].at = "open") /\ (ctx[x].created => x # c)
    <3>1. CASE x = c
      BY <1>0, <1>1, <1>2, <3>1
    <3>2. CASE x # c
      BY <1>2, <3>2
    <3> QED BY <1>0, <3>1, <3>2
  <2>3. \A y \in Contexts \ {x} :
          Live(y)' => Live(y) /\ ctx'[y].home = ctx[y].home /\ ctx'[y].created = ctx[y].created
                      /\ (ctx'[y].at = "claim" => ctx[y].at = "claim" \/ y = c)
    <3> SUFFICES ASSUME NEW y \in Contexts \ {x}, Live(y)'
                 PROVE  /\ Live(y) /\ ctx'[y].home = ctx[y].home /\ ctx'[y].created = ctx[y].created
                        /\ ctx'[y].at = "claim" => ctx[y].at = "claim" \/ y = c
      OBVIOUS
    <3>1. CASE y = c
      BY <1>0, <1>1, <1>2, <3>1
    <3>2. CASE y # c
      BY <1>2, <3>2 DEF Live
    <3> QED BY <3>1, <3>2
  <2>4. Closing(x) => Closing(x)'
    BY <2>1, <2>2, ClosingStays, HomeIsLive
  <2> QED BY <1>2, <1>3, <1>4, <2>1, <2>2, <2>3, <2>4 DEF Apart
<1> QED BY <1>2, <1>4 DEF Apart

LEMMA ApartWrite ==
  ASSUME Basic, [Next]_vars, \A x \in Contexts : Apart(x), NEW c \in Contexts, WriteLease(c)
  PROVE  \A x \in Contexts : Apart(x)'
<1>0. ctx \in [Contexts -> AnyContext] /\ ctx[c] \in Context /\ ctx[c].at = "claim"
      /\ ~ctx[c].created /\ Live(c)
  BY TypeParts, AtIsLive DEF Basic, WriteLease, Goes, Shape, Opening
<1> DEFINE at == IF ctx[c].why = "message" THEN "append" ELSE "refresh"
           q == [ctx[c] EXCEPT !.at = at, !.created = TRUE, !.active = TRUE]
<1>1. q.at \in {"append", "refresh"} /\ q.home = ctx[c].home /\ q.created
  BY <1>0 DEF Context
<1>2. /\ ctx'[c] = q /\ \A x \in Contexts \ {c} : ctx'[x] = ctx[x]
      /\ alone' = alone /\ disputed' = disputed
  BY <1>0 DEF WriteLease, Goes, historyVars
<1> HIDE DEF q
<1>3. ASSUME NEW x \in Contexts, x \in alone PROVE Apart(x)'
  <2>1. Apart(x) /\ Live(x) /\ Apart(c)
    BY <1>3, TypeParts DEF Basic, HistoryType
  <2>2. ctx'[x].home = ctx[x].home
    BY <1>1, <1>2
  <2>3. \A y \in Contexts : Live(y)' => Live(y) /\ ctx'[y].home = ctx[y].home
    BY <1>0, <1>1, <1>2 DEF Live
  <2>4. Closing(x) => Closing(x)'
    BY <2>1, <2>2, ClosingStays, HomeIsLive
  <2>5. CASE x = c
    BY <1>0, <1>1, <1>2, <1>3, <2>1, <2>2, <2>3, <2>4, <2>5 DEF Apart
  <2>6. CASE x # c
    <3>1. ctx[x].created /\ ctx'[x] = ctx[x]
      BY <1>0, <1>2, <1>3, <2>1, <2>6 DEF Apart
    <3>2. ctx[c].home # ctx[x].home => x \in disputed
      BY <1>0, <1>3, <2>1, <2>6, <3>1 DEF Apart
    <3> QED BY <1>2, <2>1, <2>2, <2>3, <2>4, <2>6, <3>1, <3>2 DEF Apart
  <2> QED BY <2>5, <2>6
<1> QED BY <1>2, <1>3 DEF Apart

LEMMA ApartNext ==
  ASSUME Basic, [Next]_vars, LeaseInv, \A x \in Contexts : Apart(x)
  PROVE  \A x \in Contexts : Apart(x)'
BY ApartCalm, ApartWorld, ApartOpens, ApartRead, ApartWrite DEF Next, Proceed

(* Only a saved message, or a refusal, makes a context blind.                *)
LEMMA HistoryNext ==
  ASSUME Basic, [Next]_vars, AloneInv
  PROVE  HistoryComplete'
<1> SUFFICES ASSUME NEW x \in Contexts, x \in alone', x \notin disputed', x \in blind'
             PROVE  Closing(x)'
  BY TypePartsNext, BasicNext DEF HistoryComplete, Basic, HistoryType
<1>0. blind \subseteq {c \in Contexts : Live(c)} /\ Basic'
  BY TypeParts, BasicNext DEF Basic, HistoryType
<1>1. ASSUME Live(x), Closing(x) PROVE Closing(x)'
  <2>1. Live(x)'
    BY <1>0, TypePartsNext DEF Basic, HistoryType
  <2> QED BY <1>1, <2>1, ClosingStays
<1>2. ASSUME x \in alone, x \notin disputed, x \in blind PROVE Closing(x)'
  BY <1>0, <1>1, <1>2 DEF AloneInv, HistoryComplete
<1>3. ASSUME NEW c \in Contexts, AppendMessage(c) PROVE Closing(x)'
  <2>1. CASE x \in blind
    BY <1>2, <1>3, <2>1 DEF AppendMessage
  <2>2. CASE x \notin blind
    <3>1. x # c /\ ctx[x].at # "free" /\ ctx[c].at # "free" /\ ctx[c].created /\ x \in alone \ disputed
      BY <1>3, <2>2 DEF AppendMessage, Moves, Goes, Basic, Shape
    <3>2. Live(x) /\ Live(c)
      BY <3>1, AtIsLive
    <3> QED BY <1>1, <3>1, <3>2 DEF AloneInv, Apart
  <2> QED BY <2>1, <2>2
<1>4. ASSUME NEW c \in Contexts, Proceed(c), ~AppendMessage(c) PROVE Closing(x)'
  BY <1>2, <1>4 DEF Proceed, LoadMessages, ReadLease, RefusedDaemon, RefusedOpen, WriteLease,
         RefreshRead, RefreshWrite, ReleaseRead, ReleaseRemove, Ends, Remembered, historyVars
<1>5. ASSUME NEW c \in Contexts, Publish(c) \/ OnMessage(c) \/ Leave(c) \/ Destroy(c) \/ Joined(c)
      PROVE  Closing(x)'
  BY <1>2, <1>5 DEF Publish, OnMessage, Leave, Destroy, Joined, Ends, Remembered, historyVars
<1>6. ASSUME NEW c \in Contexts, NEW p, NEW at, Opens(c, p, at) PROVE Closing(x)'
  <2>1. ~Live(c) /\ blind' = blind /\ disputed' = disputed /\ alone' \subseteq alone \union {c}
    BY <1>6 DEF Opens, AloneWith
  <2> QED BY <1>0, <1>2, <2>1
<1>7. CASE (\E p \in Processes : ProcessEnds(p)) \/ LeaseAges \/ UNCHANGED vars
  BY <1>2, <1>7 DEF ProcessEnds, LeaseAges, vars, historyVars, Remembered
<1> QED BY <1>3, <1>4, <1>5, <1>6, <1>7 DEF Next, RegistryResume, RegistryCreate, TuiResume

-----------------------------------------------------------------------------
Inv == Basic /\ OneContext /\ LeaseInv /\ AloneInv

LEMMA InvInit == Init => Inv
<1>1. Init => AloneInv
  BY DEF Init, AloneInv, Apart, HistoryComplete
<1> QED BY <1>1, InitBasic, LeaseInit DEF Inv

LEMMA InvNext == Inv /\ [Next]_vars => Inv'
BY BasicNext, OneContextNext, LeaseNext, ApartNext, HistoryNext DEF Inv, AloneInv

(* Processes, contexts, the lease file and the sets of contexts keep their   *)
(* types.                                                                    *)
THEOREM TypeCorrect == Spec => []TypeOK
<1>1. Inv => TypeOK
  BY DEF Inv, Basic
<1> QED BY <1>1, InvInit, InvNext, PTL DEF Spec

(* SessionRegistry::resume never makes a second context of a session its     *)
(* daemon serves.                                                            *)
THEOREM OneContextCorrect == Spec => []OneContext
<1>1. Inv => OneContext
  BY DEF Inv
<1> QED BY <1>1, InvInit, InvNext, PTL DEF Spec

(* A message is saved under a lease that names its process, or in a dispute. *)
THEOREM LeaseCorrect == Spec => []WritesUnderLease
<1>1. Inv => WritesUnderLease
  BY DEF Inv, Basic, Shape, LeaseInv, Hold, WritesUnderLease
<1> QED BY <1>1, InvInit, InvNext, PTL DEF Spec

(* Who took the session alone has every message in its history.              *)
THEOREM HistoryCorrect == Spec => []HistoryComplete
<1>1. Inv => HistoryComplete
  BY DEF Inv, AloneInv
<1> QED BY <1>1, InvInit, InvNext, PTL DEF Spec
=============================================================================
