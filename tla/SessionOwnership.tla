-------------------------- MODULE SessionOwnership --------------------------
(***************************************************************************)
(* One session and the processes that want to write its transcript: the     *)
(* lease file of src/session/session_writer_lease.cpp, the SessionManager   *)
(* that takes, refreshes and releases it (session_manager.cpp), and the     *)
(* resume and destroy of a daemon's SessionRegistry (session_registry.cpp). *)
(* A terminal process has one SessionManager; a daemon makes one for every  *)
(* resume.  Each such use of the session is a context.                      *)
(*                                                                          *)
(* Read and write of the lease file are steps of their own; nothing locks   *)
(* it.  Its age is fresh or not: any lease may become older than 30 s at    *)
(* any time.  A context has a turn running whenever it likes: it may save   *)
(* a message as long as its worker thread lives.  Of a message only who     *)
(* has it in its history matters.  A process that ended does not return,    *)
(* and its process id is not used again.                                    *)
(***************************************************************************)
EXTENDS Naturals, FiniteSets

CONSTANTS
  Daemons,                 \* processes with a SessionRegistry
  Tuis,                    \* terminal processes
  NoProcess,
  MaxContexts              \* bound: contexts at a time

ASSUME ProcessesAssumption ==
  /\ Daemons \intersect Tuis = {}
  /\ NoProcess \notin Daemons \union Tuis
  /\ MaxContexts \in Nat

Processes == Daemons \union Tuis
Contexts == 1..MaxContexts
NoContext == 0

VARIABLES
  alive,                   \* running processes
  exists,                  \* the session has files
  lease,                   \* the lease file: the process it names, and its age
  ctx,                     \* the contexts
  mapped,                  \* those in entries_
  inflight,                \* daemon -> the context of its running resume()
  blind,                   \* history: contexts that miss a saved message
  alone,                   \* history: took the session while nobody else was using it
  disputed                 \* history: lost or took the lease by age or in a race

registryVars == <<mapped, inflight>>
historyVars == <<blind, alone, disputed>>
vars == <<alive, exists, lease, ctx, registryVars, historyVars>>

NoLease == [pid |-> NoProcess, fresh |-> FALSE]

(* Where its SessionManager stands: before the lease is taken, while the    *)
(* session is in use, at the end.                                           *)
Opening == {"load", "acquire", "claim"}
Using == {"open", "append", "refresh", "rewrite"}
Leaving == {"release", "remove"}

(* The call it is in, created_ and writer_lease_active_.                    *)
Context == [home : Processes, at : Opening \union Using \union Leaving,
            why : {"resume", "message", "leave"}, created : BOOLEAN, active : BOOLEAN]
Free == [home |-> NoProcess, at |-> "free", why |-> "resume", created |-> FALSE, active |-> FALSE]

Live(c) == ctx[c] # Free
Of(p) == {c \in Contexts : ctx[c].home = p}
Closing(c) == ctx[c].home \in Daemons /\ c \notin mapped /\ inflight[ctx[c].home] # c

Init ==
  /\ alive = Processes
  /\ exists \in BOOLEAN
  /\ lease = NoLease
  /\ ctx = [c \in Contexts |-> Free]
  /\ mapped = {}
  /\ inflight = [d \in Daemons |-> NoContext]
  /\ blind = {}
  /\ alone = {}
  /\ disputed = {}

(* One step of a context; at its end it is forgotten.                       *)
Goes(c, from, to) ==
  /\ ctx[c].at = from
  /\ ctx' = [ctx EXCEPT ![c] = to]

Moves(c, from, to) == Goes(c, from, [ctx[c] EXCEPT !.at = to])

Remembered(cs) ==
  /\ blind' = blind \ cs
  /\ alone' = alone \ cs
  /\ disputed' = disputed \ cs

-----------------------------------------------------------------------------
(* Opening the session.                                                     *)

(* Who has not taken the lease yet is not alone any more once somebody      *)
(* else comes.                                                              *)
AloneWith(c) ==
  {x \in alone : ctx[x].at \notin Opening} \union {x \in {c} : \A y \in Contexts : ~Live(y)}

Opens(c, p, at) ==
  /\ p \in alive
  /\ ~Live(c) /\ \A x \in Contexts : ~Live(x) => c <= x
  /\ Goes(c, "free", [Free EXCEPT !.home = p, !.at = at])
  /\ alone' = AloneWith(c)
  /\ UNCHANGED <<alive, exists, lease, blind, disputed>>

(* Mutant: entries_ is not looked at again after waiting.                   *)
VacantUnchecked(d) == inflight[d] = NoContext

(* resume() waits for the one in flight and marks itself, then looks at     *)
(* entries_ in another section: it returns, or starts to load.  Only a      *)
(* resume in flight puts a session that exists into entries_, so the look   *)
(* finds what the end of the wait left, or less: one step, at the look.     *)
Vacant(d) == inflight[d] = NoContext /\ mapped \intersect Of(d) = {}

RegistryResume(c, d) ==
  /\ exists
  /\ Vacant(d)
  /\ Opens(c, d, "load")
  /\ inflight' = [inflight EXCEPT ![d] = c]
  /\ UNCHANGED mapped

(* create(): the files and the lease come with the first message.           *)
RegistryCreate(c, d) ==
  /\ ~exists
  /\ \A x \in Contexts : ~Live(x)
  /\ Opens(c, d, "open")
  /\ mapped' = mapped \union {c}
  /\ UNCHANGED inflight

TuiResume(c, t) ==
  /\ exists
  /\ Of(t) = {}
  /\ Opens(c, t, "load")
  /\ UNCHANGED registryVars

(* The transcript is read before the lease is taken.                        *)
LoadMessages(c) ==
  /\ Moves(c, "load", "acquire")
  /\ UNCHANGED <<alive, exists, lease, registryVars, historyVars>>

(* Mutant: the process id is compared, its life is looked at the wrong way. *)
ConflictWithDead(p) == lease.pid \notin {p, NoProcess} /\ lease.pid \notin alive /\ lease.fresh

(* SessionWriterLease::acquire.                                             *)
Conflict(p) == lease.pid \notin {p, NoProcess} /\ lease.pid \in alive /\ lease.fresh

(* Of other processes: about to write or remove the file too, or named by   *)
(* a lease that has become too old while they live.                         *)
Rivals(c) ==
  {x \in Contexts :
     /\ Live(x)
     /\ ctx[x].home # ctx[c].home
     /\ \/ ctx[x].at \in {"claim", "rewrite", "remove"}
        \/ lease.pid = ctx[x].home /\ ~lease.fresh}

ReadLease(c) ==
  /\ ~Conflict(ctx[c].home)
  /\ Moves(c, "acquire", "claim")
  /\ disputed' = disputed \union Rivals(c) \union {x \in {c} : Rivals(c) # {}}
  /\ UNCHANGED <<alive, exists, lease, registryVars, blind, alone>>

(* Mutant: the mark of the resume in flight is left.                        *)
UnmarkNothing(c) == inflight

(* InflightGuard.                                                           *)
Unmark(c) == [d \in Daemons |-> IF inflight[d] = c THEN NoContext ELSE inflight[d]]

(* A daemon drops what it was resuming.                                     *)
RefusedDaemon(c) ==
  /\ ctx[c].home \in Daemons /\ ctx[c].why = "resume"
  /\ Conflict(ctx[c].home)
  /\ Goes(c, "acquire", Free)
  /\ Remembered({c})
  /\ inflight' = Unmark(c)
  /\ UNCHANGED <<alive, exists, lease, mapped>>

(* A terminal keeps the id of the session, without its history.  If it was  *)
(* a message, it is not saved and nobody is told.                           *)
RefusedOpen(c) ==
  /\ ctx[c].home \in Tuis \/ ctx[c].why = "message"
  /\ Conflict(ctx[c].home)
  /\ Moves(c, "acquire", "open")
  /\ alone' = alone \ {c}
  /\ blind' = IF ctx[c].why = "resume" THEN blind \union {c} ELSE blind
  /\ UNCHANGED <<alive, exists, lease, registryVars, disputed>>

WriteLease(c) ==
  /\ Goes(c, "claim", [ctx[c] EXCEPT !.at = IF ctx[c].why = "message" THEN "append" ELSE "refresh",
                                     !.created = TRUE, !.active = TRUE])
  /\ lease' = [pid |-> ctx[c].home, fresh |-> TRUE]
  /\ exists' = TRUE
  /\ UNCHANGED <<alive, registryVars, historyVars>>

(* The end of resume(): into entries_, and the next resume may go on.  A    *)
(* goal may have started a turn before.                                     *)
Publish(c) ==
  /\ \E d \in Daemons : inflight[d] = c
  /\ ctx[c].created /\ (ctx[c].why = "resume" => ctx[c].at = "open")
  /\ inflight' = Unmark(c)
  /\ mapped' = mapped \union {c}
  /\ UNCHANGED <<alive, exists, lease, ctx, historyVars>>

-----------------------------------------------------------------------------
(* Using it.                                                                *)

(* on_message: ensure_created takes the lease only the first time.          *)
OnMessage(c) ==
  /\ Goes(c, "open", [ctx[c] EXCEPT !.at = IF ctx[c].created THEN "append" ELSE "acquire",
                                    !.why = "message"])
  /\ UNCHANGED <<alive, exists, lease, registryVars, historyVars>>

(* Whoever has loaded the session by now does not have this message.        *)
AppendMessage(c) ==
  /\ Moves(c, "append", "refresh")
  /\ blind' = blind \union {x \in Contexts \ {c} : ctx[x].at \notin {"free", "load"}}
  /\ UNCHANGED <<alive, exists, lease, registryVars, alone, disputed>>

(* update_meta, then refresh_writer_lease_locked.                           *)
After(c) == IF ctx[c].why = "leave" THEN "release" ELSE "open"

RefreshRead(c) ==
  LET ours == ctx[c].active /\ lease.pid = ctx[c].home
  IN  /\ Goes(c, "refresh", [ctx[c] EXCEPT !.at = IF ours THEN "rewrite" ELSE After(c),
                                           !.active = ours])
      /\ UNCHANGED <<alive, exists, lease, registryVars, historyVars>>

RefreshWrite(c) ==
  /\ Moves(c, "rewrite", After(c))
  /\ lease' = [pid |-> ctx[c].home, fresh |-> TRUE]
  /\ UNCHANGED <<alive, exists, registryVars, historyVars>>

-----------------------------------------------------------------------------
(* Leaving it.                                                              *)

Ends(c, from) ==
  /\ Goes(c, from, Free)
  /\ Remembered({c})

(* finalize() at the end of a terminal process, end_current_session() for   *)
(* /clear.                                                                  *)
Leave(c) ==
  /\ ctx[c].home \in Tuis
  /\ IF ctx[c].created
       THEN /\ Goes(c, "open", [ctx[c] EXCEPT !.at = "refresh", !.why = "leave"])
            /\ UNCHANGED historyVars
       ELSE Ends(c, "open")
  /\ UNCHANGED <<alive, exists, lease, registryVars>>

ReleaseRead(c) ==
  /\ IF ctx[c].active /\ lease.pid = ctx[c].home
       THEN Moves(c, "release", "remove") /\ UNCHANGED historyVars
       ELSE Ends(c, "release")
  /\ UNCHANGED <<alive, exists, lease, registryVars>>

ReleaseRemove(c) ==
  /\ Ends(c, "remove")
  /\ lease' = NoLease
  /\ UNCHANGED <<alive, exists, registryVars>>

(* destroy(): out of entries_ at once; the worker is joined outside the     *)
(* lock.  Nothing releases the lease: a SessionManager has no destructor.   *)
Destroy(c) ==
  /\ c \in mapped
  /\ mapped' = mapped \ {c}
  /\ UNCHANGED <<alive, exists, lease, ctx, inflight, historyVars>>

Joined(c) ==
  /\ Closing(c)
  /\ Ends(c, "open")
  /\ UNCHANGED <<alive, exists, lease, registryVars>>

-----------------------------------------------------------------------------
(* The world.                                                               *)

(* A process exits or crashes; a daemon that exits releases nothing.        *)
ProcessEnds(p) ==
  /\ p \in alive
  /\ alive' = alive \ {p}
  /\ ctx' = [c \in Contexts |-> IF c \in Of(p) THEN Free ELSE ctx[c]]
  /\ Remembered(Of(p))
  /\ mapped' = mapped \ Of(p)
  /\ inflight' = [d \in Daemons |-> IF d = p THEN NoContext ELSE inflight[d]]
  /\ UNCHANGED <<exists, lease>>

LeaseAges ==
  /\ lease.fresh
  /\ lease' = [lease EXCEPT !.fresh = FALSE]
  /\ UNCHANGED <<alive, exists, ctx, registryVars, historyVars>>

Proceed(c) ==
  \/ LoadMessages(c) \/ ReadLease(c) \/ RefusedDaemon(c) \/ RefusedOpen(c)
  \/ WriteLease(c) \/ AppendMessage(c) \/ RefreshRead(c) \/ RefreshWrite(c)
  \/ ReleaseRead(c) \/ ReleaseRemove(c)

Next ==
  \/ \E c \in Contexts :
       \/ \E d \in Daemons : RegistryResume(c, d) \/ RegistryCreate(c, d)
       \/ \E t \in Tuis : TuiResume(c, t)
       \/ Proceed(c) \/ Publish(c) \/ OnMessage(c) \/ Leave(c) \/ Destroy(c) \/ Joined(c)
  \/ \E p \in Processes : ProcessEnds(p)
  \/ LeaseAges

Spec == Init /\ [][Next]_vars

(* Worker and request threads of a living process go on with their calls.   *)
Fairness == \A c \in Contexts : WF_vars(Proceed(c)) /\ WF_vars(Publish(c))

FairSpec == Spec /\ Fairness

-----------------------------------------------------------------------------
TypeOK ==
  /\ alive \subseteq Processes
  /\ exists \in BOOLEAN
  /\ lease \in [pid : Processes \union {NoProcess}, fresh : BOOLEAN]
  /\ ctx \in [Contexts -> Context \union {Free}]
  /\ mapped \subseteq {c \in Contexts : ctx[c].home \in Daemons}
  /\ inflight \in [Daemons -> Contexts \union {NoContext}]
  /\ {blind, alone, disputed} \subseteq SUBSET {c \in Contexts : Live(c)}

(* A daemon has one context of the session at a time, apart from those it   *)
(* has destroyed and whose worker has not ended yet: two requests that      *)
(* resume it at once get the same one.                                      *)
OneContext ==
  \A c, x \in Contexts :
    Live(c) /\ Live(x) /\ ctx[c].home = ctx[x].home /\ ~Closing(c) /\ ~Closing(x) => c = x

(* A message is saved only while the lease file names the process that      *)
(* saves it, except by a context whose lease grew too old while it lived,   *)
(* by the one that took such a lease, and by two that took it at once.      *)
WritesUnderLease ==
  \A c \in Contexts : ctx[c].at = "append" => lease.pid = ctx[c].home \/ c \in disputed

(* Who took the session when nobody else was using it has every message in  *)
(* its history as long as it keeps it: until it is destroyed, or the lease  *)
(* is disputed as above.                                                    *)
HistoryComplete ==
  \A c \in alone \ disputed : c \in blind => Closing(c)

(* A resume does not stay in flight, whatever refuses it: the next request  *)
(* for this session would wait for ever.                                    *)
InflightEnds ==
  \A d \in Daemons : inflight[d] # NoContext ~> inflight[d] = NoContext

(* AGENT.md:188: "Writer leases under the project session directory         *)
(* serialize TUI and daemon activation of the same transcript."  Nobody     *)
(* adds to a transcript of which it has not seen every message.             *)
Serialized ==
  \A c \in Contexts : ctx[c].at = "append" => c \notin blind
=============================================================================
