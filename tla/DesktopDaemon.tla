---------------------------- MODULE DesktopDaemon ----------------------------
(***************************************************************************)
(* The desktop shell and the daemon it shares between its workspaces: the  *)
(* one slot of src/desktop/daemon_pool.cpp with the POSIX supervisor of    *)
(* daemon_supervisor.cpp, the runtime files of src/daemon/runtime_files.cpp *)
(* and the boot, heartbeat, owner monitor and exit of a Desktop-managed    *)
(* worker (src/daemon/worker.cpp).  Desktops start, quit and crash one     *)
(* after the other (desktop/single_instance.hpp); daemons outlive them.    *)
(*                                                                         *)
(* A daemon is named once for its process id and its generation GUID: the  *)
(* desktop makes a fresh GUID for each process it spawns.  After its death *)
(* another program may be given its process id; this is assumed not to     *)
(* happen while an activation is looking at it.  One snapshot of the       *)
(* runtime files is one step, and so is one file written or removed; token *)
(* and port are written and removed together and told apart by no reader.  *)
(* Time is left out: a wait may end at any moment.  A write that fails is  *)
(* a crash of the worker; its clean-up when the manifest or the owner      *)
(* record cannot be written is left out.                                   *)
(***************************************************************************)
EXTENDS Naturals, FiniteSets

CONSTANTS
  Occupants,               \* kinds of programs that may get a dead daemon's id
  MaxDesktops,             \* bound: desktops started, one after the other
  MaxSpawns,               \* bound: daemons spawned
  MaxToggles               \* bound: changes of continue_background_process

ASSUME DesktopAssumption ==
  /\ Occupants \subseteq {"other", "acecode", "recent", "hidden", "unknown"}
  /\ {MaxDesktops, MaxSpawns, MaxToggles} \subseteq Nat

Desktops == 1..MaxDesktops
Daemons == 1..MaxSpawns
NoDesktop == 0
NoDaemon == 0

VARIABLES
  desktop,                 \* the latest desktop
  up,                      \* whether it still runs
  owner,                   \* the Desktop owner record
  keepAlive,               \* continue_background_process
  toggles,
  slot,                    \* DaemonState of the shared slot
  sup,                     \* the process its supervisor holds
  act,                     \* where the desktop's main thread stands
  snap,                    \* the runtime snapshot activate() looks at
  files,                   \* runtime file -> the daemon it names
  proc,                    \* where each daemon process stands
  parent,                  \* the desktop that spawned it
  spawned,                 \* how many have been spawned
  hung,                    \* daemons that no longer answer
  occupant,                \* who has a dead daemon's process id
  monitor,                 \* its owner monitor; in current, before it starts,
                           \* the owner it is about to write
  bootRace,                \* history: a desktop vanished before its child's GUID was written
  overlap,                 \* history: a daemon was spawned while another had its
                           \* GUID still to remove
  doomed,                  \* history: daemons that miss the current owner
  victims                  \* history: foreign processes signalled

desktopVars == <<desktop, up, owner, keepAlive, toggles>>
poolVars == <<slot, sup, act, snap>>
bornVars == <<parent, spawned>>
stateVars == <<proc, monitor, hung>>
historyVars == <<bootRace, overlap, doomed, victims>>
vars == <<desktopVars, poolVars, files, stateVars, bornVars, occupant, historyVars>>

FileNames == {"guid", "pid", "port", "manifest", "heartbeat"}
NoFiles == [f \in FileNames |-> NoDaemon]

(* The phases of a worker, in order.  A booting one has not installed its  *)
(* handler for SIGTERM, a terminating one still answers requests.  One     *)
(* that has removed its files still runs its destructors, and one that was *)
(* sent SIGKILL runs nothing any more but may take its time to be gone.    *)
Booting == {"check", "guid", "pid", "port", "manifest", "ownerRead", "ownerWrite", "heartbeat"}
Beating == {"serving", "terminating"}
Removing == {"removePid", "removePort", "removeHeartbeat", "removeManifest", "removeGuid"}
Exiting == {"stopping"} \union Removing \union {"leaving"}
Live == Booting \union Beating \union Exiting \union {"killed"}
Phases == {"unborn", "dead"} \union Live

IsUp(x) == up /\ x = desktop
Acting(at) == up /\ act = at

NoMonitor == [at |-> "look", current |-> NoDesktop, handled |-> NoDesktop]

(* A process that dies takes its threads with it.                          *)
Becomes(d, phase) ==
  /\ proc' = [proc EXCEPT ![d] = phase]
  /\ monitor' = IF phase = "dead" THEN [monitor EXCEPT ![d] = NoMonitor] ELSE monitor
  /\ hung' = IF phase = "dead" THEN hung \ {d} ELSE hung

Running(d) == proc[d] \in Live
IsPidAlive(d) == d # NoDaemon /\ (Running(d) \/ occupant[d] # "none")
PortOpen(d) == d # NoDaemon /\ proc[d] \in Beating

(* The same program may have been started again under the id: "recent" is  *)
(* one whose start is within timestamp_tolerance_ms (2 s) of the dead       *)
(* daemon's last heartbeat or cannot be read, "unknown" one whose           *)
(* executable cannot be read either.                                        *)
Identity(d) ==
  IF Running(d) \/ occupant[d] \in {"acecode", "recent"} THEN "match"
  ELSE IF occupant[d] = "other" THEN "mismatch" ELSE "unknown"

-----------------------------------------------------------------------------
(* Classification of a snapshot s (inspect_existing_daemon).               *)

HasBundle(s) == \E f \in FileNames : s[f] # NoDaemon
ManifestMatches(s) == s.pid # NoDaemon /\ s.guid = s.pid /\ s.manifest = s.pid

Reusable(s) ==
  /\ s.port # NoDaemon
  /\ IsPidAlive(s.pid)
  /\ s.heartbeat = s.pid
  /\ PortOpen(s.port)
  /\ Identity(s.pid) = "match"

(* Mutant: the start time of the process is not looked at.                 *)
ReuseProvenByName(s) == Identity(s.pid) = "mismatch"

(* Whoever has the id of a dead daemon started after its last heartbeat,   *)
(* which shows when its start can be read and the tolerance is over.       *)
StartsLate(d) == ~Running(d) /\ occupant[d] \notin {"recent", "unknown"}

ReuseProven(s) ==
  \/ Identity(s.pid) = "mismatch"
  \/ s.heartbeat = s.pid /\ StartsLate(s.pid)

(* Mutant: only the process id file counts.                                *)
StillReferencedByPid(s) == IsPidAlive(s.pid)

(* A snapshot without a process id may still speak of a live process.      *)
StillReferenced(s) ==
  IsPidAlive(s.heartbeat) \/ IsPidAlive(s.manifest) \/ PortOpen(s.port)

(* Of two desktop versions "same" tells whether they speak one protocol.   *)
Verdict(s, same) ==
  IF ~HasBundle(s) THEN "none"
  ELSE IF s.pid = NoDaemon THEN
    IF StillReferenced(s) THEN "unsafe" ELSE IF s.guid # NoDaemon THEN "clean" ELSE "none"
  ELSE IF s.guid = NoDaemon THEN
    IF IsPidAlive(s.pid) THEN "unsafe" ELSE "none"
  ELSE IF ~Reusable(s) THEN
    IF ~IsPidAlive(s.pid) THEN "clean"
    ELSE IF ManifestMatches(s) /\ ReuseProven(s) THEN "discard"
    ELSE IF ManifestMatches(s) /\ Identity(s.pid) = "match" THEN "replace" ELSE "unsafe"
  ELSE IF s.pid \in hung THEN
    IF ManifestMatches(s) THEN "replace" ELSE "unsafe"
  ELSE IF ManifestMatches(s) /\ s.port = s.pid THEN
    IF same \/ parent[s.pid] = desktop THEN "reuse" ELSE "replace"
  ELSE "unsafe"

(* cleanup_runtime_files_if_owned, with remove_guid, for p's generation g. *)
Owned(g, p) ==
  files.guid = g /\ g # NoDaemon /\ files.pid \in {p, NoDaemon}

Init ==
  /\ desktop = NoDesktop
  /\ up = FALSE
  /\ owner = NoDesktop
  /\ keepAlive \in BOOLEAN
  /\ toggles = 0
  /\ slot = "stopped"
  /\ sup = NoDaemon
  /\ act = "idle"
  /\ snap = NoFiles
  /\ files = NoFiles
  /\ proc = [d \in Daemons |-> "unborn"]
  /\ parent = [d \in Daemons |-> NoDesktop]
  /\ spawned = 0
  /\ hung = {}
  /\ occupant = [d \in Daemons |-> "none"]
  /\ monitor = [d \in Daemons |-> NoMonitor]
  /\ bootRace = FALSE
  /\ overlap = FALSE
  /\ doomed = {}
  /\ victims = {}

-----------------------------------------------------------------------------
(* The desktop.                                                            *)

(* A daemon whose monitor has taken its last look, or has been told to     *)
(* stop, will not see the owner that is published now.                     *)
PastLastLook == {d \in Daemons :
  proc[d] \in Exiting \union {"terminating"} \/ (proc[d] = "serving" /\ monitor[d].at = "decide")}

(* The singleton is taken and the owner record published.                  *)
Launch ==
  /\ ~up
  /\ desktop < MaxDesktops
  /\ desktop' = desktop + 1
  /\ up' = TRUE
  /\ owner' = desktop + 1
  /\ doomed' = doomed \union PastLastLook
  /\ UNCHANGED <<keepAlive, toggles, poolVars, files, stateVars, bornVars, occupant, bootRace, overlap, victims>>

(* aceDesktop_setBackgroundProcessPreference: pool and configuration.      *)
SetKeepAlive ==
  /\ Acting("idle")
  /\ toggles < MaxToggles
  /\ keepAlive' = ~keepAlive
  /\ toggles' = toggles + 1
  /\ UNCHANGED <<desktop, up, owner, poolVars, files, stateVars, bornVars, occupant, historyVars>>

(* activate(): a slot that is Running or Failed is answered from the cache. *)
Activate ==
  /\ Acting("idle")
  /\ slot = "stopped"
  /\ slot' = "starting"
  /\ act' = "probe"
  /\ UNCHANGED <<desktopVars, sup, snap, files, stateVars, bornVars, occupant, historyVars>>

(* read_settled_runtime_snapshot gives up waiting for a complete bundle.   *)
ReadSnapshot ==
  /\ Acting("probe")
  /\ snap' = files
  /\ act' = "inspect"
  /\ UNCHANGED <<desktopVars, slot, sup, files, stateVars, bornVars, occupant, historyVars>>

After(verdict) ==
  CASE verdict = "none" -> "spawn"
    [] verdict \in {"clean", "discard"} -> verdict
    [] verdict = "reuse" -> "attach"
    [] verdict = "replace" -> "takeOver"
    [] verdict = "unsafe" -> "fail"

Inspect ==
  /\ Acting("inspect")
  /\ \E same \in BOOLEAN : act' = After(Verdict(snap, same))
  /\ UNCHANGED <<desktopVars, slot, sup, snap, files, stateVars, bornVars, occupant, historyVars>>

(* Files of a generation that is gone: compared, then removed one by one,  *)
(* the process id first and the GUID last.  A discarded generation must    *)
(* still be the recorded one; for a stopped one it does not matter.        *)
CleanCompare ==
  /\ up /\ act \in {"clean", "discard"}
  /\ act' = IF Owned(snap.guid, snap.pid) THEN "removePid"
            ELSE IF act = "discard" THEN "fail" ELSE "spawn"
  /\ UNCHANGED <<desktopVars, slot, sup, snap, files, stateVars, bornVars, occupant, historyVars>>

(* Mutant: the port outlives the files that name a live process.            *)
RemovedAtPortLate ==
  [removePid |-> "pid", removePort |-> "manifest", removeHeartbeat |-> "heartbeat",
   removeManifest |-> "port", removeGuid |-> "guid"]

(* The file removed in each phase of a removal, and the phase after it.     *)
RemovedAt ==
  [removePid |-> "pid", removePort |-> "port", removeHeartbeat |-> "heartbeat",
   removeManifest |-> "manifest", removeGuid |-> "guid"]

AfterRemoval ==
  [removePid |-> "removePort", removePort |-> "removeHeartbeat",
   removeHeartbeat |-> "removeManifest", removeManifest |-> "removeGuid"]

Removes(at) == files' = [files EXCEPT ![RemovedAt[at]] = NoDaemon]

(* Mutant: remove_guid is forgotten.                                       *)
CleanFileKeepsGuid ==
  /\ up /\ act \in Removing
  /\ Removes(act)
  /\ act' = IF act = "removeManifest" THEN "spawn" ELSE AfterRemoval[act]
  /\ UNCHANGED <<desktopVars, slot, sup, snap, stateVars, bornVars, occupant, historyVars>>

CleanFile ==
  /\ up /\ act \in Removing
  /\ Removes(act)
  /\ act' = IF act = "removeGuid" THEN "spawn" ELSE AfterRemoval[act]
  /\ UNCHANGED <<desktopVars, slot, sup, snap, stateVars, bornVars, occupant, historyVars>>

(* attach() only asks whether the process exists.                          *)
Attach ==
  /\ up /\ act \in {"attach", "takeOver"}
  /\ IF ~IsPidAlive(snap.pid)
       THEN act' = "fail" /\ UNCHANGED <<slot, sup, snap>>
       ELSE /\ sup' = snap.pid
            /\ IF act = "attach"
                 THEN slot' = "running" /\ act' = "idle" /\ snap' = NoFiles
                 ELSE act' = "replaceTerm" /\ UNCHANGED <<slot, snap>>
  /\ UNCHANGED <<desktopVars, files, stateVars, bornVars, occupant, historyVars>>

(* DaemonSupervisor::stop(): SIGTERM, and SIGKILL when the wait is over.   *)
(* A process without the handlers dies of the SIGTERM.                     *)
Terminate ==
  /\ \/ Acting("replaceTerm") /\ act' = "replaceWait"
     \/ Acting("failTerm") /\ act' = "failWait"
     \/ Acting("quitTerm") /\ act' = "quitWait"
  /\ IF sup # NoDaemon /\ Running(sup)
       THEN /\ Becomes(sup, IF proc[sup] \in Booting THEN "dead"
                            ELSE IF proc[sup] = "serving" THEN "terminating" ELSE proc[sup])
            /\ UNCHANGED <<occupant, victims>>
       ELSE /\ victims' = IF IsPidAlive(sup) THEN victims \union {sup} ELSE victims
            /\ occupant' = IF IsPidAlive(sup) THEN [occupant EXCEPT ![sup] = "none"] ELSE occupant
            /\ UNCHANGED stateVars
  /\ UNCHANGED <<desktopVars, slot, sup, snap, files, bornVars, bootRace, overlap, doomed>>

Kill ==
  /\ up /\ act \in {"replaceWait", "failWait", "quitWait"}
  /\ sup # NoDaemon /\ Running(sup)
  /\ Becomes(sup, "killed")
  /\ UNCHANGED <<desktopVars, poolVars, files, bornVars, occupant, historyVars>>

(* stop() waits for the process to be gone; after SIGKILL, one second if   *)
(* it is not a child of this desktop.                                      *)
Stopped(at) ==
  /\ Acting(at)
  /\ ~IsPidAlive(sup) \/ (sup # NoDaemon /\ proc[sup] = "killed" /\ parent[sup] # desktop)

Replaced ==
  /\ Stopped("replaceWait")
  /\ sup' = NoDaemon
  /\ act' = IF IsPidAlive(snap.pid) THEN "fail" ELSE "clean"
  /\ UNCHANGED <<desktopVars, slot, snap, files, stateVars, bornVars, occupant, historyVars>>

Spawn ==
  /\ Acting("spawn")
  /\ \/ /\ spawned < MaxSpawns
        /\ spawned' = spawned + 1
        /\ Becomes(spawned + 1, "check")
        /\ parent' = [parent EXCEPT ![spawned + 1] = desktop]
        /\ sup' = spawned + 1
        /\ act' = "ready"
     \/ act' = "fail" /\ UNCHANGED <<stateVars, bornVars, sup>>    \* no port, or fork failed
  /\ snap' = NoFiles
  /\ overlap' = (overlap \/ \E d \in Daemons : proc[d] = "removeGuid")
  /\ UNCHANGED <<desktopVars, slot, files, occupant, bootRace, doomed, victims>>

(* wait_until_ready: the port answers, the child is gone, or time is up.   *)
Ready ==
  /\ Acting("ready")
  /\ \/ PortOpen(sup) /\ slot' = "running" /\ act' = "idle"
     \/ act' = "fail" /\ UNCHANGED slot
  /\ UNCHANGED <<desktopVars, sup, snap, files, stateVars, bornVars, occupant, historyVars>>

Fail ==
  /\ Acting("fail")
  /\ slot' = "failed"
  /\ act' = "failTerm"
  /\ snap' = NoFiles
  /\ UNCHANGED <<desktopVars, sup, files, stateVars, bornVars, occupant, historyVars>>

Failed ==
  /\ Stopped("failWait")
  /\ act' = "idle"
  /\ sup' = NoDaemon
  /\ UNCHANGED <<desktopVars, slot, snap, files, stateVars, bornVars, occupant, historyVars>>

(* The process ends and its pool with it.                                  *)
Gone ==
  /\ up' = FALSE
  /\ slot' = "stopped" /\ sup' = NoDaemon /\ act' = "idle" /\ snap' = NoFiles
  /\ UNCHANGED <<desktop, owner, keepAlive, toggles>>

(* shutdown_all: released when it may go on in the background.             *)
Quit ==
  /\ Acting("idle")
  /\ IF keepAlive
       THEN Gone
       ELSE act' = "quitTerm" /\ UNCHANGED <<slot, sup, snap, desktopVars>>
  /\ UNCHANGED <<files, stateVars, bornVars, occupant, historyVars>>

QuitDone ==
  /\ Stopped("quitWait")
  /\ Gone
  /\ UNCHANGED <<files, stateVars, bornVars, occupant, historyVars>>

(* On POSIX a child outlives the desktop that crashes.                     *)
Crash ==
  /\ up
  /\ Gone
  /\ bootRace' = (bootRace \/ \E d \in Daemons :
       parent[d] = desktop /\ proc[d] \in {"check", "guid", "pid"})
  /\ UNCHANGED <<files, stateVars, bornVars, occupant, overlap, doomed, victims>>

-----------------------------------------------------------------------------
(* The daemon.                                                             *)

Step(d, from, to) == proc[d] = from /\ Becomes(d, to)
Writes(f, d) == files' = [files EXCEPT ![f] = d]

(* validate_can_start of a supervised worker.                              *)
ValidateCanStart(d) ==
  /\ Step(d, "check", IF files.guid \in {d, NoDaemon} THEN "guid" ELSE "dead")
  /\ UNCHANGED <<desktopVars, poolVars, files, bornVars, occupant, historyVars>>

WriteFiles(d) ==
  /\ \/ Step(d, "guid", "pid") /\ Writes("guid", d)
     \/ Step(d, "pid", "port") /\ Writes("pid", d)
     \/ Step(d, "port", "manifest") /\ Writes("port", d)
     \/ Step(d, "manifest", "ownerRead") /\ Writes("manifest", d)
     \/ Step(d, "heartbeat", "serving") /\ Writes("heartbeat", d)
  /\ UNCHANGED <<desktopVars, poolVars, bornVars, occupant, historyVars>>

(* The record of another desktop that is alive is kept, that of the        *)
(* launch arguments is written otherwise.                                  *)
Boots(d, from, to, m) ==
  /\ proc[d] = from
  /\ proc' = [proc EXCEPT ![d] = to]
  /\ monitor' = [monitor EXCEPT ![d].current = m]
  /\ UNCHANGED <<poolVars, files, hung, bornVars, occupant, bootRace, overlap, victims>>

ReadOwner(d) ==
  /\ Boots(d, "ownerRead", "ownerWrite", IF IsUp(owner) THEN owner ELSE parent[d])
  /\ UNCHANGED <<desktopVars, doomed>>

WriteOwner(d) ==
  /\ Boots(d, "ownerWrite", "heartbeat", parent[d])
  /\ owner' = monitor[d].current
  /\ doomed' = IF owner # monitor[d].current /\ IsUp(owner)
                 THEN doomed \union {e \in Daemons : e = d \/ (Running(e) /\ monitor[e].current # owner)}
                 ELSE doomed
  /\ UNCHANGED <<desktop, up, keepAlive, toggles>>

Beat(d) ==
  /\ proc[d] \in Beating
  /\ files.heartbeat # d
  /\ Writes("heartbeat", d)
  /\ UNCHANGED <<desktopVars, poolVars, stateVars, bornVars, occupant, historyVars>>

(* Mutant: the record is not read again.                                   *)
AdoptsNever(d) == FALSE

(* The owner monitor.  A new owner is adopted when it is alive.            *)
Adopts(d) ==
  /\ IsUp(owner)
  /\ owner \notin {monitor[d].current, monitor[d].handled}

MonitorSteps(d, m) ==
  /\ proc[d] = "serving"
  /\ monitor' = [monitor EXCEPT ![d] = m]
  /\ UNCHANGED <<desktopVars, poolVars, files, hung, bornVars, occupant, historyVars>>

Adopt(d) ==
  /\ Adopts(d)
  /\ monitor[d].at \in {"look", "grace"}
  /\ MonitorSteps(d, [monitor[d] EXCEPT !.at = "look", !.current = owner])
  /\ UNCHANGED proc

(* Mutant: without an owner of its own it only waits for the next.         *)
OwnerGoneIfKnown(d) ==
  /\ ~Adopts(d)
  /\ monitor[d].current # NoDesktop
  /\ \/ monitor[d].at = "look" /\ ~IsUp(monitor[d].current)
     \/ monitor[d].at = "grace"
  /\ MonitorSteps(d, [monitor[d] EXCEPT !.at = IF @ = "look" THEN "grace" ELSE "decide"])
  /\ UNCHANGED proc

OwnerGone(d) ==
  /\ ~Adopts(d)
  /\ \/ monitor[d].at = "look" /\ ~IsUp(monitor[d].current)
     \/ monitor[d].at = "grace"
  /\ MonitorSteps(d, [monitor[d] EXCEPT !.at = IF @ = "look" THEN "grace" ELSE "decide"])
  /\ UNCHANGED proc

Decide(d) ==
  /\ monitor[d].at = "decide"
  /\ IF keepAlive
       THEN /\ MonitorSteps(d, [at |-> "look", current |-> NoDesktop, handled |-> monitor[d].current])
            /\ UNCHANGED proc
       ELSE /\ MonitorSteps(d, [monitor[d] EXCEPT !.at = "look"])
            /\ proc' = [proc EXCEPT ![d] = "terminating"]

(* The end of run_worker: the server and the heartbeat stop, the files are  *)
(* removed one by one if they are still this generation's, and the sessions *)
(* are destroyed before the process ends.                                   *)
Exit(d) ==
  /\ \/ Step(d, "terminating", "stopping") /\ UNCHANGED files
     \/ Step(d, "stopping", IF Owned(d, d) THEN "removePid" ELSE "leaving")
          /\ UNCHANGED files
     \/ /\ proc[d] \in Removing
        /\ Removes(proc[d])
        /\ Becomes(d, IF proc[d] = "removeGuid" THEN "leaving" ELSE AfterRemoval[proc[d]])
     \/ Step(d, "leaving", "dead") /\ UNCHANGED files
  /\ UNCHANGED <<desktopVars, poolVars, bornVars, occupant, historyVars>>

(* A process that was sent SIGKILL is gone.                                 *)
Dies(d) ==
  /\ Step(d, "killed", "dead")
  /\ UNCHANGED <<desktopVars, poolVars, files, bornVars, occupant, historyVars>>

DaemonCrash(d) ==
  /\ Running(d)
  /\ Becomes(d, "dead")
  /\ UNCHANGED <<desktopVars, poolVars, files, bornVars, occupant, historyVars>>

Hang(d) ==
  /\ proc[d] = "serving"
  /\ hung' = hung \union {d}
  /\ UNCHANGED <<desktopVars, poolVars, files, proc, monitor, bornVars, occupant, historyVars>>

(* Another program gets the process id of a dead daemon.                   *)
PidReused(d) ==
  /\ proc[d] = "dead" /\ occupant[d] = "none"
  /\ act = "idle"
  /\ ~(sup = d /\ parent[d] = desktop)               \* a child is still to be reaped
  /\ sup = d \/ \E f \in FileNames : files[f] = d     \* somebody has it on record
  /\ \E k \in Occupants : occupant' = [occupant EXCEPT ![d] = k]
  /\ UNCHANGED <<desktopVars, poolVars, files, stateVars, bornVars, historyVars>>

Boot(d) == ValidateCanStart(d) \/ WriteFiles(d) \/ ReadOwner(d) \/ WriteOwner(d)
Watch(d) == Adopt(d) \/ OwnerGone(d) \/ Decide(d)

DesktopNext ==
  \/ Launch
  \/ SetKeepAlive \/ Activate \/ ReadSnapshot \/ Inspect
  \/ CleanCompare \/ CleanFile
  \/ Attach \/ Terminate \/ Kill \/ Replaced \/ Spawn \/ Ready
  \/ Fail \/ Failed \/ Quit \/ QuitDone \/ Crash

DaemonNext == \E d \in Daemons :
  \/ Boot(d) \/ Beat(d) \/ Watch(d) \/ Exit(d)
  \/ Dies(d) \/ DaemonCrash(d) \/ Hang(d) \/ PidReused(d)

Next == DesktopNext \/ DaemonNext

Spec == Init /\ [][Next]_vars

(* A daemon goes on booting, watching and, unless it hangs, exiting; the   *)
(* system ends a killed process.                                           *)
Fairness == \A d \in Daemons :
  WF_vars(Boot(d)) /\ WF_vars(Watch(d)) /\ WF_vars(d \notin hung /\ Exit(d))
  /\ WF_vars(Dies(d))

FairSpec == Spec /\ Fairness

-----------------------------------------------------------------------------
Acts == {"idle", "probe", "inspect", "clean", "discard",
         "attach", "takeOver", "replaceTerm", "replaceWait", "spawn", "ready",
         "fail", "failTerm", "failWait", "quitTerm", "quitWait"} \union Removing

TypeOK ==
  /\ desktop \in Desktops \union {NoDesktop}
  /\ up \in BOOLEAN
  /\ owner \in Desktops \union {NoDesktop}
  /\ keepAlive \in BOOLEAN
  /\ toggles \in 0..MaxToggles
  /\ slot \in {"stopped", "starting", "running", "failed"}
  /\ sup \in Daemons \union {NoDaemon}
  /\ act \in Acts
  /\ {snap, files} \subseteq [FileNames -> Daemons \union {NoDaemon}]
  /\ proc \in [Daemons -> Phases]
  /\ parent \in [Daemons -> Desktops \union {NoDesktop}]
  /\ spawned \in 0..MaxSpawns
  /\ hung \subseteq Daemons
  /\ occupant \in [Daemons -> Occupants \union {"none"}]
  /\ monitor \in [Daemons -> [at : {"look", "grace", "decide"},
                               current : Desktops \union {NoDesktop},
                               handled : Desktops \union {NoDesktop}]]
  /\ bootRace \in BOOLEAN /\ overlap \in BOOLEAN
  /\ doomed \subseteq Daemons
  /\ victims \subseteq Daemons

(* A daemon that serves nobody any more and has nothing to write: at most   *)
(* its GUID is still to be removed.                                         *)
Retired == {"removeGuid", "leaving", "killed"}
Working(d) == proc[d] \in Live \ Retired

(* A desktop spawns a daemon only when no other is left at work, however    *)
(* the desktops and daemons before it ended.  The one way round it: a       *)
(* desktop crashed before its child had recorded a process id.              *)
SpawnsAlone ==
  act = "spawn" => bootRace \/ \A d \in Daemons : ~Working(d)

(* The runtime files of a serving daemon name it and nobody else: neither   *)
(* a cleanup nor a late write of another generation touches them.  The      *)
(* other way round it: it was spawned while the last one had compared the   *)
(* files and its GUID was all it had still to remove.                       *)
FilesOfServing ==
  bootRace \/ overlap \/ \A d \in Daemons :
    proc[d] = "serving" => \A f \in FileNames : files[f] = d

(* What a dead generation left on disk never makes a new daemon refuse to  *)
(* start: it refuses beside a live one only.                               *)
RefusesOnlyBesideLive ==
  bootRace \/ \A d \in Daemons :
    proc[d] = "check" /\ files.guid \notin {d, NoDaemon}
      => \E e \in Daemons \ {d} : Running(e)

(* The daemon a desktop holds does not stop on account of an earlier       *)
(* owner, unless it had taken its last look at the owner record before     *)
(* the desktop published itself or a booting daemon overwrote the record.  *)
HeldServes ==
  slot = "running" /\ act = "idle" =>
    sup \in doomed \/ proc[sup] \in {"serving", "dead"}

(* A replacement signals no other program that was given the process id of  *)
(* a daemon, and the same one only if its start does not show that it is    *)
(* not that daemon: it is within the tolerance or cannot be read, or there  *)
(* is no heartbeat to compare it with.                                      *)
SparesStrangers ==
  [][\A d \in victims' \ victims : act = "replaceTerm" =>
       /\ occupant[d] \in {"acecode", "recent"}
       /\ snap.heartbeat = d => occupant[d] = "recent"]_vars

(* Without a desktop, and unless it is to go on in the background, every   *)
(* daemon that still responds ends.                                        *)
CoupledExit ==
  <>[](~up /\ ~keepAlive) => <>[](\A d \in Daemons : Running(d) => d \in hung)
=============================================================================
