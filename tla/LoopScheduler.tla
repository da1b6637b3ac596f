---------------------------- MODULE LoopScheduler ----------------------------
(***************************************************************************)
(* Scheduled runs (src/loop/loop_scheduler.cpp, loop_store.cpp): the LOOP  *)
(* definitions and the run history in one SQLite file, the daemons that    *)
(* share it, each with its scheduler thread, the sessions they start, and  *)
(* the requests that create, toggle and delete LOOPs.  A daemon may crash; *)
(* a restarted one is another daemon: owner_id_ is new in every process.   *)
(*                                                                         *)
(* One action is one transaction of LoopStore, one section under           *)
(* callbacks_->mu or wait_mu_, or one call into a session.  A schedule is  *)
(* the set of its occurrences, time counts in the smallest distance that   *)
(* matters, all processes read one clock that does not go back.            *)
(***************************************************************************)
EXTENDS Integers, FiniteSets, FiniteSetsExt

CONSTANTS
  Loops,
  Defined,                 \* those already in the store
  Occurs,                  \* the occurrences of each LOOP
  Workspace,               \* workspace_key of each LOOP, or NoWorkspace
  NoWorkspace,
  Daemons,                 \* processes, by owner_id_
  Grace,                   \* kLiveWakeGraceMs
  MaxTime,                 \* bound: the last moment, and the end of validity
  MaxEdits,                \* bound: requests that change a LOOP
  MaxEnds                  \* bound: daemons that stop or crash

Times == 1..MaxTime
Never == MaxTime + 1       \* next_run_at_ms is null
Runs == Loops \X Times     \* UNIQUE(loop_id, scheduled_at_ms)

ASSUME ConstantsAssumption ==
  /\ Defined \subseteq Loops
  /\ Occurs \in [Loops -> SUBSET Times]
  /\ DOMAIN Workspace = Loops
  /\ Grace \in Nat /\ MaxTime \in Nat /\ MaxEdits \in Nat /\ MaxEnds \in Nat
  /\ "nobody" \notin Daemons
  \* find_schedule_conflict: no two LOOPs of a workspace share an occurrence
  /\ \A l, m \in Loops :
       (l # m /\ Workspace[l] = Workspace[m] /\ Workspace[l] # NoWorkspace)
         => Occurs[l] \intersect Occurs[m] = {}

VARIABLES
  now,
  edits,                   \* requests so far
  loop,                    \* loops: enabled and next_run_at_ms
  since,                   \* when the schedule of a LOOP was last computed
  runs,                    \* loop_runs
  main,                    \* what start() and stop() have done in each daemon
  pc,                      \* where its scheduler thread stands
  seen,                    \* its clock reading, its claim, its deadline
  web,                     \* its request handler: "idle" or about to notify
  session                  \* the session of each run

threadVars == <<pc, seen>>
vars == <<now, edits, loop, since, runs, main, pc, seen, web, session>>

Unseen == [at |-> 0, run |-> <<>>, deadline |-> Never]
NoSession == [owner |-> "nobody", state |-> "none", write |-> "none"]

(* Some operators below are plausible mistakes in the code.  No action uses *)
(* them: each one, put in the place of the definition that follows it, must *)
(* break a property.                                                       *)

NextAtOrAfter(l, t) ==     \* a mistake: the occurrence at t itself comes again
  LET later == {o \in Occurs[l] : o >= t} IN IF later = {} THEN Never ELSE Min(later)

\* next_occurrence_ms
NextAfter(l, t) ==
  LET later == {o \in Occurs[l] : o > t} IN IF later = {} THEN Never ELSE Min(later)

Init ==
  /\ now = 0
  /\ edits = 0
  \* an empty history
  /\ loop = [l \in Loops |-> IF l \in Defined THEN [is |-> "on", next |-> NextAfter(l, 0)]
                                               ELSE [is |-> "absent", next |-> Never]]
  /\ since = [l \in Loops |-> 0]
  /\ runs = {}
  /\ main = [d \in Daemons |-> "off"]
  /\ pc = [d \in Daemons |-> "none"]
  /\ seen = [d \in Daemons |-> Unseen]
  /\ web = [d \in Daemons |-> "idle"]
  /\ session = [k \in Runs |-> NoSession]

Stopping(d) == main[d] # "up"                      \* stop_requested_
Listening(d) == main[d] \in {"up", "flag", "notified"}     \* callbacks active
Alive(d) == main[d] \notin {"off", "gone"}

Active(r) == r.status \in {"running", "waiting"}
-----------------------------------------------------------------------------
(* The store.                                                              *)

\* A record of loop_runs.  "settled" stands for completed and for failed, a
\* missed record has its reason for status and no owner.
Row(l, at, count, status, owner, started) ==
  [loop |-> l, at |-> at, count |-> count, status |-> status, owner |-> owner,
   started |-> started]

Missed(l, at, count, reason) == Row(l, at, count, reason, "nobody", Never)

\* record_offline_missed: what was due before the cutoff becomes one record
\* per LOOP, and the LOOP goes on after the cutoff.
RecordMissed(cutoff) ==
  LET late == {l \in Loops : loop[l].is = "on" /\ loop[l].next < cutoff}
      past(l) == {o \in Occurs[l] : loop[l].next <= o /\ o <= cutoff}
  IN  /\ runs' = runs \union
           {Missed(l, Max(past(l)), Cardinality(past(l)), "offline") : l \in late}
      /\ loop' = [l \in Loops |->
           IF l \in late THEN [loop[l] EXCEPT !.next = NextAfter(l, cutoff)] ELSE loop[l]]

\* same_workspace_active
WorkspaceActive(l) ==
  /\ Workspace[l] # NoWorkspace
  /\ \E r \in runs : Active(r) /\ Workspace[r.loop] = Workspace[l]

\* update_run_state: no row, no change; an earlier outcome is overwritten.
UpdateRun(k, status) ==
  runs' = {IF <<r.loop, r.at>> = k THEN [r EXCEPT !.status = status] ELSE r : r \in runs}

HasRow(k) == \E r \in runs : <<r.loop, r.at>> = k

\* update_loop: the schedule is computed anew and must have a future; that
\* holds for switching a LOOP off, too.
Reschedule(l, is) ==
  /\ NextAfter(l, now) # Never
  /\ loop' = [loop EXCEPT ![l] = [is |-> is,
                                  next |-> IF is = "on" THEN NextAfter(l, now) ELSE Never]]
  /\ since' = [since EXCEPT ![l] = now]

Go(d, from, to) == pc[d] = from /\ pc' = [pc EXCEPT ![d] = to]

\* The next pass of run() starts with new locals.
Again(d, from) == Go(d, from, "sweep") /\ seen' = [seen EXCEPT ![d] = Unseen]
-----------------------------------------------------------------------------
(* Requests.  The handler tells only the scheduler of its own process.     *)

Request(d) ==
  /\ main[d] = "up" /\ web[d] = "idle" /\ edits < MaxEdits
  /\ edits' = edits + 1
  /\ web' = [web EXCEPT ![d] = "notify"]
  /\ UNCHANGED <<now, main, threadVars, session>>

Create(d, l) ==
  /\ Request(d)
  /\ loop[l].is = "absent"
  /\ Reschedule(l, "on")
  /\ UNCHANGED runs

(* set_loop_enabled reads the definition in one transaction and writes it   *)
(* back with the new switch in another.  The second one finds the LOOP      *)
(* again and computes the schedule then, and what an edit in between could  *)
(* lose (a schedule or a workspace) does not change here: one step.         *)
SetEnabled(d, l) ==
  /\ Request(d)
  /\ loop[l].is \in {"on", "off"}
  /\ \E is \in {"on", "off"} : Reschedule(l, is)
  /\ UNCHANGED runs

Delete(d, l) ==
  /\ Request(d)
  /\ loop[l].is \in {"on", "off"}
  /\ loop' = [loop EXCEPT ![l] = [is |-> "deleted", next |-> Never]]
  /\ runs' = {r \in runs : r.loop # l}
  /\ UNCHANGED since

\* notify_all without wait_mu_: it reaches a thread that waits now.
Wake(d) ==
  \/ Again(d, "wait")
  \/ pc[d] # "wait" /\ UNCHANGED threadVars

Notify(d) ==
  /\ web[d] = "notify"
  /\ web' = [web EXCEPT ![d] = "idle"]
  /\ Wake(d)
  /\ UNCHANGED <<now, edits, loop, since, runs, main, session>>
-----------------------------------------------------------------------------
(* The scheduler thread: run() and launch().                               *)

Start(d) ==
  /\ main[d] = "off"
  /\ main' = [main EXCEPT ![d] = "up"]
  /\ RecordMissed(now)
  /\ Go(d, "none", "sweep")
  /\ UNCHANGED <<now, edits, since, seen, web, session>>

SweepNothing(d) ==         \* a mistake: late occurrences are swept at start only
  /\ ~Stopping(d)
  /\ Go(d, "sweep", "claim")
  /\ seen' = [seen EXCEPT ![d] = [Unseen EXCEPT !.at = now]]
  /\ UNCHANGED <<now, edits, loop, since, runs, main, web, session>>

Sweep(d) ==
  /\ \/ Stopping(d) /\ Go(d, "sweep", "end") /\ UNCHANGED <<loop, runs, seen>>
     \/ /\ ~Stopping(d)
        /\ Go(d, "sweep", "claim")
        /\ seen' = [seen EXCEPT ![d] = [Unseen EXCEPT !.at = now]]
        /\ RecordMissed(now - Grace)
  /\ UNCHANGED <<now, edits, since, main, web, session>>

\* claim_due, with the clock reading of this pass.
Claim(d) ==
  LET due == {l \in Loops : loop[l].is = "on" /\ loop[l].next <= seen[d].at}
      first == {l \in due : \A m \in due : loop[l].next <= loop[m].next}
  IN  /\ \/ /\ due = {}
            /\ Go(d, "claim", "look")
            /\ seen' = [seen EXCEPT ![d] = Unseen]
            /\ UNCHANGED <<loop, runs>>
         \/ \E l \in first :
              LET at == loop[l].next IN
              /\ loop' = [loop EXCEPT ![l].next = NextAfter(l, at)]
              /\ \/ /\ WorkspaceActive(l)
                    /\ runs' = runs \union {Missed(l, at, 1, "busy")}
                    /\ Again(d, "claim")
                 \/ /\ ~WorkspaceActive(l)
                    /\ runs' = runs \union {Row(l, at, 1, "running", d, seen[d].at)}
                    /\ seen' = [seen EXCEPT ![d] = [Unseen EXCEPT !.run = <<l, at>>]]
                    /\ Go(d, "claim", "launch")
      /\ UNCHANGED <<now, edits, since, main, web, session>>

\* The model is gone; the workspace is gone or no session can be made; the
\* run was deleted meanwhile; or it is recorded as running in a new session,
\* which nobody uses before Send.
Launch(d) ==
  LET k == seen[d].run IN
  /\ \/ Go(d, "launch", "disable") /\ UpdateRun(k, "settled") /\ UNCHANGED seen
     \/ Again(d, "launch") /\ UpdateRun(k, "settled")
     \/ HasRow(k) /\ Go(d, "launch", "send") /\ UpdateRun(k, "running") /\ UNCHANGED seen
     \/ ~HasRow(k) /\ Again(d, "launch") /\ UNCHANGED runs
  /\ UNCHANGED <<now, edits, loop, since, main, web, session>>

Disable(d) ==
  LET l == seen[d].run[1] IN
  /\ Again(d, "disable")
  /\ \/ loop[l].is \in {"on", "off"} /\ Reschedule(l, "off")
     \/ /\ loop[l].is = "deleted" \/ NextAfter(l, now) = Never
        /\ UNCHANGED <<loop, since>>
  /\ UNCHANGED <<now, edits, runs, main, web, session>>

\* Subscribe and send the prompt; both fail if the session was destroyed.
Send(d) ==
  LET k == seen[d].run IN
  /\ Again(d, "send")
  /\ \/ /\ session' = [session EXCEPT ![k] = [NoSession EXCEPT !.owner = d, !.state = "busy"]]
        /\ UNCHANGED runs
     \/ UpdateRun(k, "settled") /\ UNCHANGED session
  /\ UNCHANGED <<now, edits, loop, since, main, web>>

\* earliest_next_run_at, then the stop flag, under wait_mu_ which stop() does
\* not take.  (One step: nothing in between changes what the two lead to.)
Look(d) ==
  /\ \/ Stopping(d) /\ Go(d, "look", "end") /\ UNCHANGED seen
     \/ /\ ~Stopping(d)
        /\ Go(d, "look", "enter")
        /\ seen' = [seen EXCEPT ![d].deadline =
             Min({Never} \union {loop[l].next : l \in {m \in Loops : loop[m].is = "on"}})]
  /\ UNCHANGED <<now, edits, loop, since, runs, main, web, session>>

EnterWait(d) ==
  /\ Go(d, "enter", "wait")
  /\ UNCHANGED <<now, edits, loop, since, runs, main, seen, web, session>>

WaitElapsed(d) ==
  /\ seen[d].deadline <= now
  /\ Again(d, "wait")
  /\ UNCHANGED <<now, edits, loop, since, runs, main, web, session>>

SpuriousWake(d) ==
  /\ Again(d, "wait")
  /\ UNCHANGED <<now, edits, loop, since, runs, main, web, session>>
-----------------------------------------------------------------------------
(* A session that works for a run, and the callback on its events          *)
(* (apply_loop_session_event): a section that looks at the event, then the *)
(* update of the row.  The session waits for its callback.  A turn says    *)
(* that it is busy before it asks anything and not again after an answer,  *)
(* so the callback never sees the event that would resume the run.         *)

Event(k, from, to, status) ==
  LET s == session[k] IN
  /\ s.state \in from /\ s.write = "none" /\ Alive(s.owner)
  /\ session' = [session EXCEPT ![k].state = to,
                   ![k].write = IF Listening(s.owner) THEN status ELSE "none"]
  /\ UNCHANGED <<now, edits, loop, since, runs, main, threadVars, web>>

AskAnytime(k) ==           \* a mistake: the callback stays subscribed
  Event(k, {"busy", "over"}, "waiting", "waiting")

Ask(k) == Event(k, {"busy"}, "waiting", "waiting")
Answered(k) == Event(k, {"waiting"}, "busy", "none")
Finish(k) == Event(k, {"busy", "waiting"}, "over", "settled")

PersistWhileRunning(k) ==  \* a mistake: a waiting run cannot be settled
  /\ session[k].write # "none"
  /\ runs' = {IF <<r.loop, r.at>> = k /\ r.status = "running"
                THEN [r EXCEPT !.status = session[k].write] ELSE r : r \in runs}
  /\ session' = [session EXCEPT ![k].write = "none"]
  /\ UNCHANGED <<now, edits, loop, since, main, threadVars, web>>
Persist(k) ==
  /\ session[k].write # "none"
  /\ UpdateRun(k, session[k].write)
  /\ session' = [session EXCEPT ![k].write = "none"]
  /\ UNCHANGED <<now, edits, loop, since, main, threadVars, web>>
-----------------------------------------------------------------------------
(* stop(), the end of the process, and a crash.                            *)

EndsLeft == Cardinality({d \in Daemons : main[d] \notin {"off", "up"}}) < MaxEnds

MainGoes(d, from, to) == main[d] = from /\ main' = [main EXCEPT ![d] = to]

StopFlag(d) ==
  /\ EndsLeft
  /\ MainGoes(d, "up", "flag")
  /\ web[d] = "idle"       \* the HTTP server has been stopped before
  /\ UNCHANGED <<now, edits, loop, since, runs, threadVars, web, session>>

StopNotify(d) ==
  /\ MainGoes(d, "flag", "notified")
  /\ Wake(d)
  /\ UNCHANGED <<now, edits, loop, since, runs, web, session>>

\* The thread is joined, the callbacks are switched off, the sessions are
\* aborted, and their runs are interrupted (interrupt_owner_runs).  A
\* callback that is past its section is not waited for.
StopJoined(d) ==
  /\ pc[d] = "end"
  /\ MainGoes(d, "notified", "stopped")
  /\ session' = [k \in Runs |-> IF session[k].owner = d
                                THEN [session[k] EXCEPT !.state = "over"] ELSE session[k]]
  /\ runs' = {IF Active(r) /\ r.owner = d THEN [r EXCEPT !.status = "settled"] ELSE r : r \in runs}
  /\ UNCHANGED <<now, edits, loop, since, threadVars, web>>

Gone(d) ==
  /\ main' = [main EXCEPT ![d] = "gone"]
  /\ pc' = [pc EXCEPT ![d] = "none"]
  /\ seen' = [seen EXCEPT ![d] = Unseen]
  /\ web' = [web EXCEPT ![d] = "idle"]
  /\ session' = [k \in Runs |-> IF session[k].owner = d THEN NoSession ELSE session[k]]
  /\ UNCHANGED <<now, edits, loop, since, runs>>

Exit(d) == main[d] = "stopped" /\ Gone(d)

Crash(d) == Alive(d) /\ (main[d] = "up" => EndsLeft) /\ Gone(d)

Tick ==
  /\ now < MaxTime
  /\ now' = now + 1
  /\ UNCHANGED <<edits, loop, since, runs, main, threadVars, web, session>>
-----------------------------------------------------------------------------
Thread(d) ==
  \/ Sweep(d) \/ Claim(d) \/ Launch(d) \/ Disable(d) \/ Send(d)
  \/ Look(d) \/ EnterWait(d) \/ WaitElapsed(d)

Stop(d) == StopNotify(d) \/ StopJoined(d) \/ Exit(d)

Next ==
  \/ Tick
  \/ \E d \in Daemons :
       Start(d) \/ Thread(d) \/ SpuriousWake(d) \/ StopFlag(d) \/ Stop(d)
         \/ Crash(d) \/ Notify(d)
  \/ \E d \in Daemons, l \in Loops : Create(d, l) \/ SetEnabled(d, l) \/ Delete(d, l)
  \/ \E k \in Runs : Ask(k) \/ Answered(k) \/ Finish(k) \/ Persist(k)

Spec == Init /\ [][Next]_vars
-----------------------------------------------------------------------------
TypeOK ==
  /\ now \in 0..MaxTime /\ edits \in 0..MaxEdits
  /\ loop \in [Loops -> [is : {"absent", "on", "off", "deleted"}, next : 1..Never]]
  /\ since \in [Loops -> 0..MaxTime]
  /\ \A r \in runs :
       /\ r.loop \in Loops /\ r.at \in Occurs[r.loop]
       /\ r.owner \in Daemons \union {"nobody"}
       /\ r.status \in {"running", "waiting", "settled", "offline", "busy"}
       /\ r.count \in 1..MaxTime /\ r.started \in 0..Never
       /\ loop[r.loop].is \in {"on", "off"}
  /\ main \in [Daemons -> {"off", "up", "flag", "notified", "stopped", "gone"}]
  /\ pc \in [Daemons -> {"none", "sweep", "claim", "launch", "disable", "send",
                         "look", "enter", "wait", "end"}]
  /\ \A d \in Daemons : seen[d].at \in 0..MaxTime /\ seen[d].deadline \in 1..Never
  /\ web \in [Daemons -> {"idle", "notify"}]
  /\ session \in [Runs -> [owner : Daemons \union {"nobody"},
                           state : {"none", "busy", "waiting", "over"},
                           write : {"none", "waiting", "settled"}]]

\* The occurrences a record stands for: its own and those before it that
\* were missed with it.
Covers(r, o) ==
  /\ o <= r.at
  /\ Cardinality({p \in Occurs[r.loop] : o < p /\ p <= r.at}) < r.count

(* Missed occurrences are recorded (docs/daemon-api.md): whatever daemons  *)
(* crash, restart, stall or run side by side, every occurrence a LOOP has  *)
(* gone past since its schedule was computed is in exactly one record, and *)
(* the table never gets a second record of an occurrence.                  *)
AccountedOnce ==
  \A l \in Loops : \A o \in Occurs[l] :
    LET records == {r \in runs : r.loop = l /\ Covers(r, o)} IN
    /\ Cardinality(records) <= 1
    /\ (loop[l].is = "on" /\ since[l] < o /\ o < loop[l].next)
         => records # {}

(* Missed occurrences are never caught up: a run that was started was late *)
(* by at most the grace, even after sleep, a stall or a restart.           *)
NoCatchUp ==
  \A r \in runs : r.owner \in Daemons => r.started - r.at <= Grace

(* What the history says of a run follows its session as long as its       *)
(* daemon runs: a session that asks shows as waiting, one that is over is  *)
(* settled, and one that works is not settled.                             *)
StatusFollowsSession ==
  \A r \in runs :
    LET s == session[<<r.loop, r.at>>] IN
    (r.owner \in Daemons /\ Listening(r.owner) /\ s.write = "none") =>
      /\ s.state = "waiting" => r.status = "waiting"
      /\ s.state = "busy" => Active(r)
      /\ s.state = "over" => ~Active(r)

(* A settled run is not opened again, by its launch or by a late event,    *)
(* before the daemon stops.                                                *)
SettledStays ==
  [][\A r \in runs, s \in runs' :
       (/\ ~Active(r) /\ r.loop = s.loop /\ r.at = s.at
        /\ r.owner \in Daemons => main[r.owner] # "stopped")
         => s.status = r.status]_vars
=============================================================================
