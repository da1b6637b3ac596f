------------------------- MODULE DesktopDaemonProofs -------------------------
(***************************************************************************)
(* Proofs about DesktopDaemon: types, one daemon at a time with runtime    *)
(* files of its own, no stranger signalled by a replacement, and a held    *)
(* daemon that does not stop on account of an earlier owner.               *)
(***************************************************************************)
EXTENDS DesktopDaemon, TLAPS

Young == {"check", "guid", "pid"}           \* no process id is recorded yet
Ending == {"terminating"} \union Exiting
Early == {"check", "guid", "pid", "port", "manifest", "ownerRead"}

-----------------------------------------------------------------------------
(* Desktops and daemons are numbered in the order they start, and nothing  *)
(* refers to a later one.                                                  *)
Shut ==
  /\ ~up => act = "idle" /\ slot = "stopped" /\ sup = NoDaemon
  /\ up => desktop # NoDesktop
  /\ owner <= desktop

Ranked ==
  \A d \in Daemons :
    /\ parent[d] <= desktop
    /\ monitor[d].current <= desktop /\ monitor[d].handled <= desktop
    /\ d > spawned => proc[d] = "unborn"
    /\ proc[d] \in Booting \union {"unborn"} =>
         monitor[d].at = "look" /\ monitor[d].handled = NoDesktop
    /\ proc[d] \in Early \union {"unborn"} => monitor[d].current = NoDesktop

Numbered == Shut /\ Ranked

-----------------------------------------------------------------------------
(* One daemon at work at a time.                                           *)
Alone == \A d, e \in Daemons : Working(d) /\ Working(e) => d = e

(* A desktop waits for a child that has not recorded its process id.       *)
Cradle ==
  \A d \in Daemons : proc[d] \in Young =>
    /\ up /\ sup = d /\ parent[d] = desktop
    /\ act \in {"ready", "fail", "failTerm", "failWait"}

(* The files a daemon has written and not removed yet, phase by phase.     *)
Work == Live \ Retired

Row(d) ==
  /\ proc[d] = "check" => files.guid = NoDaemon
  /\ proc[d] \in Work \ {"check", "guid"} =>
       files.guid = d \/ (overlap /\ files.guid = NoDaemon)
  /\ proc[d] \in Work \ ({"check", "guid", "pid"} \union Removing) => files.pid = d
  /\ proc[d] \in {"removePort", "removeHeartbeat", "removeManifest"} => files.pid = NoDaemon
  /\ proc[d] \in Work \ ({"check", "guid", "pid", "port"} \union Removing) => files.port = d
  /\ proc[d] \in Work \ {"check", "guid", "pid", "port", "manifest"} => files.manifest = d
  /\ proc[d] \in Beating \union {"stopping", "removePid", "removePort", "removeHeartbeat"} =>
       files.heartbeat = d
  /\ proc[d] = "removePid" => files.pid = d /\ files.port = d

Table == \A d \in Daemons : Row(d)

(* Beside a daemon at work no other has its GUID to remove, unless the     *)
(* history shows it.                                                       *)
Lapse == \A d, e \in Daemons : Working(d) /\ proc[e] = "removeGuid" => overlap

(* What activate() has seen.  A daemon at work is in the snapshot, so that *)
(* where one is to be cleaned up after or spawned none is at work.         *)
Seen(s, d) ==
  s.pid = d \/ (s.pid = NoDaemon /\ (s.heartbeat = d \/ s.manifest = d))

Sighted ==
  /\ act = "inspect" => \A d \in Daemons : Working(d) => Seen(snap, d)
  /\ act \in {"takeOver", "replaceTerm", "replaceWait"} =>
       \A d \in Daemons : Working(d) => snap.pid = d
  /\ act \in {"clean", "discard", "spawn"} \union Removing =>
       \A d \in Daemons : ~Working(d)

(* Since the snapshot was taken files have only been removed.              *)
Current ==
  /\ act \in {"inspect", "takeOver", "replaceTerm", "replaceWait", "clean", "discard"} =>
       /\ files.guid \in {snap.guid, NoDaemon}
       /\ files.pid \in {snap.pid, NoDaemon}
  /\ act = "spawn" => files.guid = NoDaemon

Replacing ==
  /\ act \in {"attach", "takeOver"} => snap.pid # NoDaemon
  /\ act \in {"replaceTerm", "replaceWait"} => snap.pid # NoDaemon /\ sup = snap.pid

Safe == Alone /\ Cradle /\ Table /\ Lapse /\ Sighted /\ Current

Handed == bootRace \/ Safe

(* Only a dead daemon has lost its process id, only a running one hangs.   *)
Bodies ==
  /\ \A d \in Daemons : proc[d] # "dead" => occupant[d] = "none"
  /\ \A d \in hung : Running(d)

(* Of a process a replacement looks at: it may be signalled.               *)
MayBeTaken(s) ==
  /\ occupant[s.pid] \in {"acecode", "recent"}
  /\ s.heartbeat = s.pid => occupant[s.pid] = "recent"

(* A process a replacement looks at runs, has left its id to nobody, or    *)
(* cannot be told from the daemon.                                         *)
Spared ==
  act \in {"takeOver", "replaceTerm"} =>
    Running(snap.pid) \/ occupant[snap.pid] = "none" \/ MayBeTaken(snap)

-----------------------------------------------------------------------------
(* The owner.  Beside a desktop that is up, a daemon that is not doomed    *)
(* knows it as its owner, or will see it in the record before it decides.  *)
Knows(d) == monitor[d].current = desktop

Waiting == {"replaceWait", "failWait", "quitWait"}

Minds(d) ==
  /\ proc[d] \in Early => owner = desktop \/ parent[d] = desktop
  /\ proc[d] \in {"ownerWrite", "heartbeat"} => Knows(d) \/ owner = desktop
  /\ proc[d] = "serving" =>
       /\ monitor[d].at # "decide"
       /\ monitor[d].at = "grace" => ~Knows(d)
       /\ Knows(d) \/ (owner = desktop /\ monitor[d].handled # desktop)
  /\ proc[d] \in Ending => sup = d /\ act \in Waiting

Heeds == up => \A d \in Daemons \ doomed : Minds(d)

(* What a desktop holds has once answered; it is killed on quitting only.  *)
Answered == {"serving", "dead"} \union Ending

Held ==
  /\ slot = "running" =>
       /\ act \in {"idle", "quitTerm", "quitWait"}
       /\ sup # NoDaemon
       /\ proc[sup] \in Answered \/ (act = "quitWait" /\ proc[sup] = "killed")
  /\ act = "attach" => snap.pid # NoDaemon /\ proc[snap.pid] \in Answered

-----------------------------------------------------------------------------
(* Types.                                                                  *)
FileMaps == [FileNames -> Daemons \union {NoDaemon}]
Monitors == [at : {"look", "grace", "decide"}, current : Desktops \union {NoDesktop},
             handled : Desktops \union {NoDesktop}]

(* TypeOK in parts: the desktop, the files, the processes.                 *)
Shelled ==
  /\ desktop \in Desktops \union {NoDesktop} /\ owner \in Desktops \union {NoDesktop}
  /\ up \in BOOLEAN /\ keepAlive \in BOOLEAN /\ bootRace \in BOOLEAN /\ overlap \in BOOLEAN
  /\ toggles \in 0..MaxToggles /\ spawned \in 0..MaxSpawns
  /\ slot \in {"stopped", "starting", "running", "failed"}
  /\ sup \in Daemons \union {NoDaemon}
  /\ act \in Acts
  /\ doomed \subseteq Daemons /\ victims \subseteq Daemons

Filed == snap \in FileMaps /\ files \in FileMaps

Lived ==
  /\ proc \in [Daemons -> Phases]
  /\ parent \in [Daemons -> Desktops \union {NoDesktop}]
  /\ hung \subseteq Daemons
  /\ occupant \in [Daemons -> Occupants \union {"none"}]
  /\ monitor \in [Daemons -> Monitors]

Typed == Shelled /\ Filed /\ Lived

LEMMA BoundsIs == MaxDesktops \in Nat /\ MaxSpawns \in Nat /\ MaxToggles \in Nat
BY DesktopAssumption

LEMMA TypedIs == Typed <=> TypeOK
BY DEF Typed, Shelled, Filed, Lived, TypeOK, FileMaps, Monitors

LEMMA FilesType ==
  /\ NoFiles \in FileMaps
  /\ \A f \in FileNames : NoFiles[f] = NoDaemon
  /\ \A s \in FileMaps, f \in FileNames, v \in Daemons \union {NoDaemon} :
       /\ [s EXCEPT ![f] = v] \in FileMaps
       /\ [s EXCEPT ![f] = v][f] = v
       /\ \A g \in FileNames \ {f} : [s EXCEPT ![f] = v][g] = s[g]
BY DEF NoFiles, FileMaps

Verdicts == {"none", "clean", "discard", "reuse", "replace", "unsafe"}

LEMMA VerdictIs == ASSUME NEW s, NEW same \in BOOLEAN PROVE Verdict(s, same) \in Verdicts
BY DEF Verdict, Verdicts

LEMMA AfterIs ==
  ASSUME NEW v \in Verdicts
  PROVE  /\ After(v) \in {"spawn", "clean", "discard", "attach", "takeOver", "fail"}
         /\ After(v) = "spawn" => v = "none"
         /\ After(v) = "clean" => v = "clean"
         /\ After(v) = "discard" => v = "discard"
         /\ After(v) = "attach" => v = "reuse"
         /\ After(v) = "takeOver" => v = "replace"
BY DEF After, Verdicts

(* What a removal removes, and how it goes on.                             *)
LEMMA RemovalIs ==
  /\ RemovedAt["removePid"] = "pid" /\ RemovedAt["removePort"] = "port"
  /\ RemovedAt["removeHeartbeat"] = "heartbeat" /\ RemovedAt["removeManifest"] = "manifest"
  /\ RemovedAt["removeGuid"] = "guid"
  /\ AfterRemoval["removePid"] = "removePort" /\ AfterRemoval["removePort"] = "removeHeartbeat"
  /\ AfterRemoval["removeHeartbeat"] = "removeManifest"
  /\ AfterRemoval["removeManifest"] = "removeGuid"
  /\ \A at \in Removing : RemovedAt[at] \in FileNames
  /\ \A at \in Removing \ {"removeGuid"} : AfterRemoval[at] \in Removing
BY DEF RemovedAt, AfterRemoval, Removing, FileNames

LEMMA PhaseIs ==
  /\ Live \subseteq Phases /\ Phases = Live \union {"unborn", "dead"}
  /\ Booting \subseteq Live /\ Beating \subseteq Live /\ Exiting \subseteq Live
  /\ "dead" \notin Live /\ "unborn" \notin Live
BY DEF Phases, Live, Booting, Beating, Exiting, Removing

LEMMA MonitorType ==
  ASSUME NEW m \in Monitors, NEW at \in {"look", "grace", "decide"},
         NEW c \in Desktops \union {NoDesktop}
  PROVE  /\ [m EXCEPT !.at = at] \in Monitors
         /\ [m EXCEPT !.current = c] \in Monitors
         /\ [m EXCEPT !.at = at, !.current = c] \in Monitors
         /\ [at |-> "look", current |-> NoDesktop, handled |-> m.current] \in Monitors
BY DEF Monitors

(* What changes when a process enters a phase.                             *)
LEMMA BecomesIs ==
  ASSUME Typed, NEW d \in Daemons, NEW phase \in Phases, Becomes(d, phase)
  PROVE  /\ proc' \in [Daemons -> Phases] /\ monitor' \in [Daemons -> Monitors]
         /\ hung' \subseteq Daemons
         /\ proc'[d] = phase /\ \A e \in Daemons \ {d} : proc'[e] = proc[e]
         /\ phase # "dead" => UNCHANGED <<monitor, hung>>
         /\ monitor'[d] = IF phase = "dead" THEN NoMonitor ELSE monitor[d]
         /\ \A e \in Daemons \ {d} : monitor'[e] = monitor[e]
BY DEF Typed, Lived, Becomes, NoMonitor, Monitors

LEMMA TypeInit == Init => Typed
<1> SUFFICES ASSUME Init PROVE Typed
  OBVIOUS
<1>1. Shelled
  <2>1. toggles \in 0..MaxToggles /\ spawned \in 0..MaxSpawns
    BY BoundsIs DEF Init
  <2> QED BY <2>1 DEF Init, Shelled, Acts
<1>2. Filed
  BY FilesType DEF Init, Filed
<1>3. Lived
  BY DEF Init, Lived, NoMonitor, Monitors, Phases, Live
<1> QED BY <1>1, <1>2, <1>3 DEF Typed

LEMMA TypeStep ==
  ASSUME Typed, [Next]_vars
  PROVE  Typed'
<1> USE DEF desktopVars, poolVars, bornVars, stateVars, historyVars
<1>1. CASE UNCHANGED vars
  BY <1>1 DEF vars, Typed, Shelled, Filed, Lived
<1>2. CASE Launch
  <2>1. Shelled'
    BY <1>2, BoundsIs DEF Typed, Shelled, Launch, PastLastLook, Desktops, NoDesktop
  <2>2. Filed'
    BY <1>2, FilesType DEF Typed, Shelled, Filed, FileNames, Launch
  <2>3. Lived'
    BY <1>2, BecomesIs, PhaseIs DEF Typed, Shelled, Lived, Launch
  <2> QED BY <2>1, <2>2, <2>3 DEF Typed
<1>3. CASE SetKeepAlive
  <2>1. Shelled'
    BY <1>3, DesktopAssumption DEF Typed, Shelled, Lived, Filed, Acts, SetKeepAlive,
       Acting
  <2>2. Filed'
    BY <1>3, FilesType DEF Typed, Shelled, Filed, FileNames, SetKeepAlive, Acting
  <2>3. Lived'
    BY <1>3, BecomesIs, PhaseIs DEF Typed, Shelled, Lived, SetKeepAlive, Acting
  <2> QED BY <2>1, <2>2, <2>3 DEF Typed
<1>4. CASE Activate
  <2>1. Shelled'
    BY <1>4, DesktopAssumption DEF Typed, Shelled, Lived, Filed, Acts, Activate, Acting
  <2>2. Filed'
    BY <1>4, FilesType DEF Typed, Shelled, Filed, FileNames, Activate, Acting
  <2>3. Lived'
    BY <1>4, BecomesIs, PhaseIs DEF Typed, Shelled, Lived, Activate, Acting
  <2> QED BY <2>1, <2>2, <2>3 DEF Typed
<1>5. CASE ReadSnapshot
  <2>1. Shelled'
    BY <1>5, DesktopAssumption DEF Typed, Shelled, Lived, Filed, Acts, ReadSnapshot,
       Acting
  <2>2. Filed'
    BY <1>5, FilesType DEF Typed, Shelled, Filed, FileNames, ReadSnapshot, Acting
  <2>3. Lived'
    BY <1>5, BecomesIs, PhaseIs DEF Typed, Shelled, Lived, ReadSnapshot, Acting
  <2> QED BY <2>1, <2>2, <2>3 DEF Typed
<1>6. CASE Inspect
  <2>1. Shelled'
    <3>1. PICK same \in BOOLEAN : act' = After(Verdict(snap, same))
      BY <1>6 DEF Inspect
    <3> QED BY <1>6, <3>1, VerdictIs, AfterIs DEF Typed, Shelled, Acts, Inspect
  <2>2. Filed'
    BY <1>6, FilesType DEF Typed, Shelled, Filed, FileNames, Inspect, Acting
  <2>3. Lived'
    BY <1>6, BecomesIs, PhaseIs DEF Typed, Shelled, Lived, Inspect, Acting
  <2> QED BY <2>1, <2>2, <2>3 DEF Typed
<1>7. CASE CleanCompare
  <2>1. Shelled'
    BY <1>7 DEF Typed, Shelled, Acts, Removing, CleanCompare
  <2>2. Filed'
    BY <1>7, FilesType DEF Typed, Shelled, Filed, FileNames, CleanCompare
  <2>3. Lived'
    BY <1>7, BecomesIs, PhaseIs DEF Typed, Shelled, Lived, CleanCompare
  <2> QED BY <2>1, <2>2, <2>3 DEF Typed
<1>8. CASE CleanFile
  <2>1. Shelled'
    BY <1>8, RemovalIs DEF Typed, Shelled, Acts, CleanFile
  <2>2. Filed'
    <3>1. files' = [files EXCEPT ![RemovedAt[act]] = NoDaemon] /\ RemovedAt[act] \in FileNames
      BY <1>8, RemovalIs DEF CleanFile, Removes
    <3> QED BY <1>8, <3>1, FilesType DEF Typed, Filed, CleanFile
  <2>3. Lived'
    BY <1>8 DEF Typed, Lived, CleanFile
  <2> QED BY <2>1, <2>2, <2>3 DEF Typed
<1>9. ASSUME NEW d \in Daemons, Dies(d) PROVE Typed'
  <2>1. Shelled'
    BY <1>9, DesktopAssumption DEF Typed, Shelled, Lived, Filed, Acts, Dies
  <2>2. Filed'
    BY <1>9, FilesType DEF Typed, Shelled, Filed, FileNames, Dies
  <2>3. Lived'
    BY <1>9, BecomesIs, PhaseIs DEF Typed, Shelled, Lived, Dies, Step
  <2> QED BY <2>1, <2>2, <2>3 DEF Typed
<1>10. CASE Attach
  <2>1. Shelled'
    <3>1. snap.pid \in Daemons \union {NoDaemon}
      BY DEF Typed, Filed, FileMaps, FileNames
    <3> QED BY <1>10, <3>1 DEF Typed, Shelled, Acts, Attach
  <2>2. Filed'
    BY <1>10, FilesType DEF Typed, Shelled, Filed, FileNames, Attach
  <2>3. Lived'
    BY <1>10, BecomesIs, PhaseIs DEF Typed, Shelled, Lived, Attach
  <2> QED BY <2>1, <2>2, <2>3 DEF Typed
<1>11. CASE Terminate
  <2>1. Shelled'
    <3>1. sup \in Daemons \union {NoDaemon} /\ (IsPidAlive(sup) => sup # NoDaemon)
      BY DEF Typed, Shelled, IsPidAlive
    <3>2. victims' \subseteq Daemons
      BY <1>11, <3>1 DEF Typed, Shelled, Terminate
    <3> QED BY <1>11, <3>2 DEF Typed, Shelled, Acts, Terminate, Acting
  <2>2. Filed'
    BY <1>11, FilesType DEF Typed, Shelled, Filed, FileNames, Terminate, Acting
  <2>3. Lived'
    <3>1. CASE sup # NoDaemon /\ Running(sup)
      <4>1. PICK phase \in Phases : Becomes(sup, phase)
        BY <1>11, <3>1, PhaseIs DEF Terminate, Typed, Lived, Shelled, Exiting, Booting,
           Beating, Removing
      <4>2. sup \in Daemons
        BY <3>1 DEF Typed, Shelled
      <4> QED BY <1>11, <3>1, <4>1, <4>2, BecomesIs DEF Typed, Lived, Terminate
    <3>2. CASE ~(sup # NoDaemon /\ Running(sup))
      <4>1. UNCHANGED stateVars
        BY <1>11, <3>2 DEF Terminate
      <4>2. occupant' \in [Daemons -> Occupants \union {"none"}]
        BY <1>11, <3>2 DEF Terminate, Typed, Lived
      <4> QED BY <1>11, <4>1, <4>2 DEF Typed, Lived, Terminate
    <3> QED BY <3>1, <3>2
  <2> QED BY <2>1, <2>2, <2>3 DEF Typed
<1>12. CASE Kill
  <2>1. Shelled'
    BY <1>12, DesktopAssumption DEF Typed, Shelled, Lived, Filed, Acts, Kill
  <2>2. Filed'
    BY <1>12, FilesType DEF Typed, Shelled, Filed, FileNames, Kill
  <2>3. Lived'
    BY <1>12, BecomesIs, PhaseIs DEF Typed, Shelled, Lived, Kill, Live
  <2> QED BY <2>1, <2>2, <2>3 DEF Typed
<1>13. CASE Replaced
  <2>1. Shelled'
    BY <1>13, DesktopAssumption DEF Typed, Shelled, Lived, Filed, Acts, Replaced,
       Stopped, Acting
  <2>2. Filed'
    BY <1>13, FilesType DEF Typed, Shelled, Filed, FileNames, Replaced, Stopped, Acting
  <2>3. Lived'
    BY <1>13, BecomesIs, PhaseIs DEF Typed, Shelled, Lived, Replaced, Stopped, Acting
  <2> QED BY <2>1, <2>2, <2>3 DEF Typed
<1>14. CASE Spawn
  <2>1. Shelled'
    <3>1. spawned' \in 0..MaxSpawns /\ sup' \in Daemons \union {NoDaemon}
      BY <1>14, BoundsIs DEF Typed, Shelled, Spawn, Daemons
    <3> QED BY <1>14, <3>1 DEF Typed, Shelled, Acts, Spawn
  <2>2. Filed'
    BY <1>14, FilesType DEF Typed, Shelled, Filed, FileNames, Spawn, Acting
  <2>3. Lived'
    <3>1. CASE spawned < MaxSpawns /\ Becomes(spawned + 1, "check") /\ parent' = [parent EXCEPT ![spawned + 1] = desktop]
      <4>1. spawned + 1 \in Daemons /\ "check" \in Phases
        BY <3>1, BoundsIs, PhaseIs DEF Typed, Shelled, Daemons, Booting
      <4>2. /\ proc' \in [Daemons -> Phases] /\ monitor' \in [Daemons -> Monitors]
            /\ hung' \subseteq Daemons
        BY <3>1, <4>1, BecomesIs
      <4>3. parent' \in [Daemons -> Desktops \union {NoDesktop}]
        BY <3>1 DEF Typed, Lived, Shelled
      <4> QED BY <1>14, <4>2, <4>3 DEF Typed, Lived, Spawn
    <3>2. CASE UNCHANGED <<stateVars, bornVars>>
      BY <1>14, <3>2 DEF Typed, Lived, Spawn
    <3> QED BY <1>14, <3>1, <3>2 DEF Spawn
  <2> QED BY <2>1, <2>2, <2>3 DEF Typed
<1>15. CASE Ready
  <2>1. Shelled'
    BY <1>15, DesktopAssumption DEF Typed, Shelled, Lived, Filed, Acts, Ready, Acting
  <2>2. Filed'
    BY <1>15, FilesType DEF Typed, Shelled, Filed, FileNames, Ready, Acting
  <2>3. Lived'
    BY <1>15, BecomesIs, PhaseIs DEF Typed, Shelled, Lived, Ready, Acting
  <2> QED BY <2>1, <2>2, <2>3 DEF Typed
<1>16. CASE Fail
  <2>1. Shelled'
    BY <1>16, DesktopAssumption DEF Typed, Shelled, Lived, Filed, Acts, Fail, Acting
  <2>2. Filed'
    BY <1>16, FilesType DEF Typed, Shelled, Filed, FileNames, Fail, Acting
  <2>3. Lived'
    BY <1>16, BecomesIs, PhaseIs DEF Typed, Shelled, Lived, Fail, Acting
  <2> QED BY <2>1, <2>2, <2>3 DEF Typed
<1>17. CASE Failed
  <2>1. Shelled'
    BY <1>17, DesktopAssumption DEF Typed, Shelled, Lived, Filed, Acts, Failed, Stopped,
       Acting
  <2>2. Filed'
    BY <1>17, FilesType DEF Typed, Shelled, Filed, FileNames, Failed, Stopped, Acting
  <2>3. Lived'
    BY <1>17, BecomesIs, PhaseIs DEF Typed, Shelled, Lived, Failed, Stopped, Acting
  <2> QED BY <2>1, <2>2, <2>3 DEF Typed
<1>18. CASE Quit
  <2>1. Shelled'
    BY <1>18, DesktopAssumption DEF Typed, Shelled, Lived, Filed, Acts, Quit, Acting, Gone
  <2>2. Filed'
    BY <1>18, FilesType DEF Typed, Shelled, Filed, FileNames, Quit, Acting, Gone
  <2>3. Lived'
    BY <1>18, BecomesIs, PhaseIs DEF Typed, Shelled, Lived, Quit, Acting, Gone
  <2> QED BY <2>1, <2>2, <2>3 DEF Typed
<1>19. CASE QuitDone
  <2>1. Shelled'
    BY <1>19, DesktopAssumption DEF Typed, Shelled, Lived, Filed, Acts, QuitDone,
       Stopped, Acting, Gone
  <2>2. Filed'
    BY <1>19, FilesType DEF Typed, Shelled, Filed, FileNames, QuitDone, Stopped, Acting,
       Gone
  <2>3. Lived'
    BY <1>19, BecomesIs, PhaseIs DEF Typed, Shelled, Lived, QuitDone, Stopped, Acting,
       Gone
  <2> QED BY <2>1, <2>2, <2>3 DEF Typed
<1>20. CASE Crash
  <2>1. Shelled'
    BY <1>20, DesktopAssumption DEF Typed, Shelled, Lived, Filed, Acts, Crash, Gone
  <2>2. Filed'
    BY <1>20, FilesType DEF Typed, Shelled, Filed, FileNames, Crash, Gone
  <2>3. Lived'
    BY <1>20, BecomesIs, PhaseIs DEF Typed, Shelled, Lived, Crash, Gone
  <2> QED BY <2>1, <2>2, <2>3 DEF Typed
<1>21. ASSUME NEW d \in Daemons, ValidateCanStart(d) PROVE Typed'
  <2>1. Shelled'
    BY <1>21, DesktopAssumption DEF Typed, Shelled, Lived, Filed, Acts,
       ValidateCanStart, Step
  <2>2. Filed'
    BY <1>21, FilesType DEF Typed, Shelled, Filed, FileNames, ValidateCanStart, Step
  <2>3. Lived'
    <3>1. PICK phase \in {"guid", "dead"} : Becomes(d, phase)
      BY <1>21 DEF ValidateCanStart, Step
    <3>2. phase \in Phases
      BY PhaseIs DEF Booting
    <3> QED BY <1>21, <3>1, <3>2, BecomesIs DEF Typed, Lived, ValidateCanStart
  <2> QED BY <2>1, <2>2, <2>3 DEF Typed
<1>22. ASSUME NEW d \in Daemons, WriteFiles(d) PROVE Typed'
  <2>1. Shelled'
    BY <1>22, DesktopAssumption DEF Typed, Shelled, Lived, Filed, Acts, WriteFiles,
       Step, Writes
  <2>2. Filed'
    BY <1>22, FilesType DEF Typed, Shelled, Filed, FileNames, WriteFiles, Step, Writes
  <2>3. Lived'
    <3>1. PICK phase \in Booting \union Beating : Becomes(d, phase)
      BY <1>22 DEF WriteFiles, Step, Booting, Beating
    <3>2. phase \in Phases
      BY PhaseIs
    <3> QED BY <1>22, <3>1, <3>2, BecomesIs DEF Typed, Lived, WriteFiles
  <2> QED BY <2>1, <2>2, <2>3 DEF Typed
<1>23. ASSUME NEW d \in Daemons, ReadOwner(d) PROVE Typed'
  <2>1. Shelled'
    BY <1>23, DesktopAssumption DEF Typed, Shelled, Lived, Filed, Acts, ReadOwner, Boots
  <2>2. Filed'
    BY <1>23, FilesType DEF Typed, Shelled, Filed, FileNames, ReadOwner, Boots
  <2>3. Lived'
    <3>1. monitor[d] \in Monitors /\ owner \in Desktops \union {NoDesktop}
      BY DEF Typed, Shelled, Lived
    <3>2. {"ownerWrite", "heartbeat"} \subseteq Phases
      BY PhaseIs DEF Booting
    <3> QED BY <1>23, <3>1, <3>2, MonitorType DEF Typed, Lived, ReadOwner, Boots
  <2> QED BY <2>1, <2>2, <2>3 DEF Typed
<1>24. ASSUME NEW d \in Daemons, WriteOwner(d) PROVE Typed'
  <2>1. Shelled'
    <3>1. monitor[d].current \in Desktops \union {NoDesktop}
      BY DEF Typed, Lived, Monitors
    <3> QED BY <1>24, <3>1 DEF Typed, Shelled, WriteOwner, Boots
  <2>2. Filed'
    BY <1>24, FilesType DEF Typed, Shelled, Filed, FileNames, WriteOwner, Boots
  <2>3. Lived'
    <3>1. monitor[d] \in Monitors /\ owner \in Desktops \union {NoDesktop}
      BY DEF Typed, Shelled, Lived
    <3>2. {"ownerWrite", "heartbeat"} \subseteq Phases
      BY PhaseIs DEF Booting
    <3> QED BY <1>24, <3>1, <3>2, MonitorType DEF Typed, Lived, WriteOwner, Boots
  <2> QED BY <2>1, <2>2, <2>3 DEF Typed
<1>25. ASSUME NEW d \in Daemons, Beat(d) PROVE Typed'
  <2>1. Shelled'
    BY <1>25, DesktopAssumption DEF Typed, Shelled, Lived, Filed, Acts, Beat, Writes
  <2>2. Filed'
    BY <1>25, FilesType DEF Typed, Shelled, Filed, FileNames, Beat, Writes
  <2>3. Lived'
    BY <1>25, BecomesIs, PhaseIs DEF Typed, Shelled, Lived, Beat, Writes
  <2> QED BY <2>1, <2>2, <2>3 DEF Typed
<1>26. ASSUME NEW d \in Daemons, Adopt(d) PROVE Typed'
  <2>1. Shelled'
    BY <1>26, DesktopAssumption DEF Typed, Shelled, Lived, Filed, Acts, Adopt, Adopts,
       MonitorSteps
  <2>2. Filed'
    BY <1>26, FilesType DEF Typed, Shelled, Filed, FileNames, Adopt, Adopts, MonitorSteps
  <2>3. Lived'
    <3>1. monitor[d] \in Monitors /\ owner \in Desktops \union {NoDesktop}
      BY DEF Typed, Shelled, Lived
    <3> QED BY <1>26, <3>1, MonitorType DEF Typed, Lived, Adopt, MonitorSteps
  <2> QED BY <2>1, <2>2, <2>3 DEF Typed
<1>27. ASSUME NEW d \in Daemons, OwnerGone(d) PROVE Typed'
  <2>1. Shelled'
    BY <1>27, DesktopAssumption DEF Typed, Shelled, Lived, Filed, Acts, OwnerGone,
       Adopts, MonitorSteps
  <2>2. Filed'
    BY <1>27, FilesType DEF Typed, Shelled, Filed, FileNames, OwnerGone, Adopts,
       MonitorSteps
  <2>3. Lived'
    <3>1. monitor[d] \in Monitors /\ owner \in Desktops \union {NoDesktop}
      BY DEF Typed, Shelled, Lived
    <3> QED BY <1>27, <3>1, MonitorType DEF Typed, Lived, OwnerGone, MonitorSteps
  <2> QED BY <2>1, <2>2, <2>3 DEF Typed
<1>28. ASSUME NEW d \in Daemons, Decide(d) PROVE Typed'
  <2>1. Shelled'
    BY <1>28, DesktopAssumption DEF Typed, Shelled, Lived, Filed, Acts, Decide,
       MonitorSteps
  <2>2. Filed'
    BY <1>28, FilesType DEF Typed, Shelled, Filed, FileNames, Decide, MonitorSteps
  <2>3. Lived'
    <3>1. monitor[d] \in Monitors /\ owner \in Desktops \union {NoDesktop}
      BY DEF Typed, Shelled, Lived
    <3>2. "terminating" \in Phases
      BY PhaseIs DEF Beating
    <3> QED BY <1>28, <3>1, <3>2, MonitorType DEF Typed, Lived, Decide, MonitorSteps
  <2> QED BY <2>1, <2>2, <2>3 DEF Typed
<1>29. ASSUME NEW d \in Daemons, Exit(d) PROVE Typed'
  <2>1. Shelled'
    BY <1>29 DEF Typed, Shelled, Exit
  <2>2. Filed'
    <3>1. CASE UNCHANGED files
      BY <1>29, <3>1 DEF Typed, Filed, Exit
    <3>2. CASE proc[d] \in Removing /\ Removes(proc[d])
      BY <1>29, <3>2, RemovalIs, FilesType DEF Typed, Filed, Exit, Removes
    <3> QED BY <1>29, <3>1, <3>2 DEF Exit
  <2>3. Lived'
    <3>1. PICK phase \in Exiting \union {"dead"} : Becomes(d, phase)
      BY <1>29, RemovalIs DEF Exit, Step, Exiting, Removing
    <3>2. phase \in Phases
      BY PhaseIs
    <3> QED BY <1>29, <3>1, <3>2, BecomesIs DEF Typed, Lived, Exit
  <2> QED BY <2>1, <2>2, <2>3 DEF Typed
<1>30. ASSUME NEW d \in Daemons, DaemonCrash(d) PROVE Typed'
  <2>1. Shelled'
    BY <1>30, DesktopAssumption DEF Typed, Shelled, Lived, Filed, Acts, DaemonCrash
  <2>2. Filed'
    BY <1>30, FilesType DEF Typed, Shelled, Filed, FileNames, DaemonCrash
  <2>3. Lived'
    BY <1>30, BecomesIs, PhaseIs DEF Typed, Shelled, Lived, DaemonCrash
  <2> QED BY <2>1, <2>2, <2>3 DEF Typed
<1>31. ASSUME NEW d \in Daemons, Hang(d) PROVE Typed'
  <2>1. Shelled'
    BY <1>31, DesktopAssumption DEF Typed, Shelled, Lived, Filed, Acts, Hang
  <2>2. Filed'
    BY <1>31, FilesType DEF Typed, Shelled, Filed, FileNames, Hang
  <2>3. Lived'
    BY <1>31, BecomesIs, PhaseIs DEF Typed, Shelled, Lived, Hang
  <2> QED BY <2>1, <2>2, <2>3 DEF Typed
<1>32. ASSUME NEW d \in Daemons, PidReused(d) PROVE Typed'
  <2>1. Shelled'
    BY <1>32, DesktopAssumption DEF Typed, Shelled, Lived, Filed, Acts, PidReused
  <2>2. Filed'
    BY <1>32, FilesType DEF Typed, Shelled, Filed, FileNames, PidReused
  <2>3. Lived'
    BY <1>32, BecomesIs, PhaseIs DEF Typed, Shelled, Lived, PidReused
  <2> QED BY <2>1, <2>2, <2>3 DEF Typed
<1> QED BY <1>1, <1>2, <1>3, <1>4, <1>5, <1>6, <1>7, <1>8, <1>9, <1>10,
         <1>11, <1>12, <1>13, <1>14, <1>15, <1>16, <1>17, <1>18, <1>19,
         <1>20, <1>21, <1>22, <1>23, <1>24, <1>25, <1>26, <1>27, <1>28,
         <1>29, <1>30, <1>31, <1>32 DEF Next, DesktopNext, DaemonNext, Boot,
         Watch

LEMMA AlwaysTyped == Spec => []Typed
BY TypeInit, TypeStep, PTL DEF Spec

(* Every variable keeps its type: no action of the shell or of a worker    *)
(* leaves the phases and files the code knows.                             *)
THEOREM TypeCorrect == Spec => []TypeOK
<1>1. Typed => TypeOK
  BY TypedIs
<1> QED BY <1>1, AlwaysTyped, PTL
-----------------------------------------------------------------------------
(* Numbers only grow.                                                      *)
LEMMA Counting ==
  ASSUME Typed
  PROVE  /\ desktop \in Nat /\ owner \in Nat /\ spawned \in Nat /\ sup \in Nat
         /\ Daemons \subseteq Nat \ {NoDaemon} /\ Desktops \subseteq Nat \ {NoDesktop}
         /\ \A d \in Daemons : /\ parent[d] \in Nat /\ monitor[d] \in Monitors
                             /\ monitor[d].current \in Nat /\ monitor[d].handled \in Nat
<1>1. Daemons \subseteq Nat \ {NoDaemon} /\ Desktops \subseteq Nat \ {NoDesktop}
  BY BoundsIs DEF Desktops, Daemons, NoDesktop, NoDaemon
<1>2. Daemons \union {NoDaemon} \subseteq Nat /\ Desktops \union {NoDesktop} \subseteq Nat
  BY <1>1 DEF NoDesktop, NoDaemon
<1>3. desktop \in Nat /\ owner \in Nat /\ spawned \in Nat /\ sup \in Nat
  BY <1>2, BoundsIs DEF Typed, Shelled
<1>4. ASSUME NEW d \in Daemons
      PROVE  /\ parent[d] \in Nat /\ monitor[d] \in Monitors
             /\ monitor[d].current \in Nat /\ monitor[d].handled \in Nat
  BY <1>2 DEF Typed, Lived, Monitors
<1> QED BY <1>1, <1>3, <1>4

LEMMA NumberedInit == Init => Numbered
BY DEF Init, Numbered, Shut, Ranked, NoMonitor, NoDesktop, NoDaemon, Booting, Early,
   Daemons

LEMMA ShutStep ==
  ASSUME Typed, Typed', Numbered, [Next]_vars
  PROVE  Shut'
<1> USE DEF desktopVars, poolVars, bornVars, stateVars, historyVars
<1>1. CASE UNCHANGED vars
  BY <1>1 DEF vars, Numbered, Shut, Ranked
<1>2. CASE Launch
  <2>1. desktop' = desktop + 1 /\ owner' = desktop + 1 /\ up'
    BY <1>2 DEF Launch
  <2> QED BY <2>1, Counting DEF Shut, NoDesktop
<1>3. CASE SetKeepAlive
  BY <1>3, Counting DEF SetKeepAlive, Acting, Numbered, Shut, Ranked
<1>4. CASE Activate
  BY <1>4, Counting DEF Activate, Acting, Numbered, Shut, Ranked
<1>5. CASE ReadSnapshot
  BY <1>5, Counting DEF ReadSnapshot, Acting, Numbered, Shut, Ranked
<1>6. CASE Inspect
  BY <1>6, Counting DEF Inspect, Acting, Numbered, Shut, Ranked
<1>7. CASE CleanCompare
  BY <1>7, Counting DEF CleanCompare, Numbered, Shut, Ranked
<1>8. CASE CleanFile
  BY <1>8, Counting DEF CleanFile, Removes, Numbered, Shut, Ranked
<1>9. ASSUME NEW d \in Daemons, Dies(d) PROVE Shut'
  BY <1>9, Counting DEF Dies, Step, Numbered, Shut, Ranked
<1>10. CASE Attach
  BY <1>10, Counting DEF Attach, Numbered, Shut, Ranked
<1>11. CASE Terminate
  BY <1>11, Counting DEF Terminate, Acting, Numbered, Shut, Ranked
<1>12. CASE Kill
  BY <1>12, Counting DEF Kill, Numbered, Shut, Ranked
<1>13. CASE Replaced
  BY <1>13, Counting DEF Replaced, Stopped, Acting, Numbered, Shut, Ranked
<1>14. CASE Spawn
  BY <1>14, Counting DEF Spawn, Acting, Numbered, Shut, Ranked
<1>15. CASE Ready
  BY <1>15, Counting DEF Ready, Acting, Numbered, Shut, Ranked
<1>16. CASE Fail
  BY <1>16, Counting DEF Fail, Acting, Numbered, Shut, Ranked
<1>17. CASE Failed
  BY <1>17, Counting DEF Failed, Stopped, Acting, Numbered, Shut, Ranked
<1>18. CASE Quit
  BY <1>18, Counting DEF Quit, Acting, Gone, Numbered, Shut, Ranked
<1>19. CASE QuitDone
  BY <1>19, Counting DEF QuitDone, Stopped, Acting, Gone, Numbered, Shut, Ranked
<1>20. CASE Crash
  BY <1>20, Counting DEF Crash, Gone, Numbered, Shut, Ranked
<1>21. ASSUME NEW d \in Daemons, ValidateCanStart(d) PROVE Shut'
  BY <1>21, Counting DEF ValidateCanStart, Step, Numbered, Shut, Ranked
<1>22. ASSUME NEW d \in Daemons, WriteFiles(d) PROVE Shut'
  BY <1>22, Counting DEF WriteFiles, Step, Writes, Numbered, Shut, Ranked
<1>23. ASSUME NEW d \in Daemons, ReadOwner(d) PROVE Shut'
  BY <1>23, Counting DEF ReadOwner, Boots, Numbered, Shut, Ranked
<1>24. ASSUME NEW d \in Daemons, WriteOwner(d) PROVE Shut'
  BY <1>24, Counting DEF WriteOwner, Boots, Numbered, Shut, Ranked
<1>25. ASSUME NEW d \in Daemons, Beat(d) PROVE Shut'
  BY <1>25, Counting DEF Beat, Writes, Numbered, Shut, Ranked
<1>26. ASSUME NEW d \in Daemons, Adopt(d) PROVE Shut'
  BY <1>26, Counting DEF Adopt, Adopts, MonitorSteps, Numbered, Shut, Ranked
<1>27. ASSUME NEW d \in Daemons, OwnerGone(d) PROVE Shut'
  BY <1>27, Counting DEF OwnerGone, Adopts, MonitorSteps, Numbered, Shut, Ranked
<1>28. ASSUME NEW d \in Daemons, Decide(d) PROVE Shut'
  BY <1>28, Counting DEF Decide, MonitorSteps, Numbered, Shut, Ranked
<1>29. ASSUME NEW d \in Daemons, Exit(d) PROVE Shut'
  BY <1>29, Counting DEF Exit, Removes, Step, Numbered, Shut, Ranked
<1>30. ASSUME NEW d \in Daemons, DaemonCrash(d) PROVE Shut'
  BY <1>30, Counting DEF DaemonCrash, Numbered, Shut, Ranked
<1>31. ASSUME NEW d \in Daemons, Hang(d) PROVE Shut'
  BY <1>31, Counting DEF Hang, Numbered, Shut, Ranked
<1>32. ASSUME NEW d \in Daemons, PidReused(d) PROVE Shut'
  BY <1>32, Counting DEF PidReused, Numbered, Shut, Ranked
<1> QED BY <1>1, <1>2, <1>3, <1>4, <1>5, <1>6, <1>7, <1>8, <1>9, <1>10,
         <1>11, <1>12, <1>13, <1>14, <1>15, <1>16, <1>17, <1>18, <1>19,
         <1>20, <1>21, <1>22, <1>23, <1>24, <1>25, <1>26, <1>27, <1>28,
         <1>29, <1>30, <1>31, <1>32 DEF Next, DesktopNext, DaemonNext, Boot,
         Watch

(* A process that goes on, or dies.                                        *)
LEMMA RankedGoesOn ==
  ASSUME Typed, Ranked, NEW d \in Daemons, NEW phase \in Phases \ {"unborn"}, Running(d),
         Becomes(d, phase), UNCHANGED <<desktop, bornVars>>,
         phase \in Booting => proc[d] \in Booting, phase \in Early => proc[d] \in Early
  PROVE  Ranked'
<1>1. d <= spawned
  BY PhaseIs, Counting DEF Ranked, Running
<1>2. /\ proc'[d] = phase /\ \A e \in Daemons \ {d} : proc'[e] = proc[e]
      /\ monitor'[d] = IF phase = "dead" THEN NoMonitor ELSE monitor[d]
      /\ \A e \in Daemons \ {d} : monitor'[e] = monitor[e]
  BY BecomesIs
<1>3. NoMonitor.current = NoDesktop /\ NoMonitor.handled = NoDesktop /\ NoMonitor.at = "look"
  BY DEF NoMonitor
<1>4. ASSUME NEW e \in Daemons, e # d
      PROVE  /\ parent'[e] <= desktop'
             /\ monitor'[e].current <= desktop' /\ monitor'[e].handled <= desktop'
             /\ e > spawned' => proc'[e] = "unborn"
             /\ proc'[e] \in Booting \union {"unborn"} =>
                  monitor'[e].at = "look" /\ monitor'[e].handled = NoDesktop
             /\ proc'[e] \in Early \union {"unborn"} => monitor'[e].current = NoDesktop
  BY <1>2, <1>4 DEF Ranked, bornVars
<1>5. /\ parent'[d] <= desktop'
      /\ monitor'[d].current <= desktop' /\ monitor'[d].handled <= desktop'
      /\ ~(d > spawned')
      /\ proc'[d] \in Booting \union {"unborn"} =>
           monitor'[d].at = "look" /\ monitor'[d].handled = NoDesktop
      /\ proc'[d] \in Early \union {"unborn"} => monitor'[d].current = NoDesktop
  BY <1>1, <1>2, <1>3, Counting DEF Ranked, bornVars, NoDesktop
<1> QED BY <1>4, <1>5 DEF Ranked

(* What the steps of one process do to its phase.                          *)
GoesOn(d) ==
  /\ Running(d)
  /\ \E phase \in Phases \ {"unborn"} :
       /\ Becomes(d, phase)
       /\ phase \in Booting => proc[d] \in Booting
       /\ phase \in Early => proc[d] \in Early

LEMMA RankedGoes ==
  ASSUME Typed, Ranked, NEW d \in Daemons, GoesOn(d), UNCHANGED <<desktop, bornVars>>
  PROVE  Ranked'
BY RankedGoesOn DEF GoesOn

LEMMA OfOneProcess ==
  ASSUME Typed, NEW d \in Daemons
  PROVE  /\ ValidateCanStart(d) \/ WriteFiles(d) \/ Exit(d) \/ Dies(d) \/ DaemonCrash(d) => GoesOn(d)
         /\ Kill => sup \in Daemons /\ GoesOn(sup)
         /\ Terminate => \/ sup \in Daemons /\ GoesOn(sup)
                         \/ UNCHANGED stateVars /\ ~(sup # NoDaemon /\ Running(sup))
<1> USE DEF Step
<1>1. ASSUME Terminate, sup # NoDaemon, Running(sup) PROVE sup \in Daemons /\ GoesOn(sup)
  <2>1. sup \in Daemons
    BY <1>1 DEF Typed, Shelled
  <2>2. CASE proc[sup] \in Booting
    BY <1>1, <2>1, <2>2 DEF GoesOn, Terminate, Booting, Early, Phases
  <2>3. CASE proc[sup] = "serving"
    BY <1>1, <2>1, <2>3 DEF GoesOn, Terminate, Booting, Beating, Early, Phases, Live
  <2>4. CASE proc[sup] \in {"terminating", "killed"} \union Exiting
    BY <1>1, <2>1, <2>4 DEF GoesOn, Terminate, Booting, Beating, Exiting, Early, Phases,
       Live, Removing
  <2> QED BY <1>1, <2>1, <2>2, <2>3, <2>4 DEF Running, Live, Beating
<1>2. Kill => sup \in Daemons /\ GoesOn(sup)
  BY DEF Kill, GoesOn, Typed, Shelled, Phases, Live, Booting, Early
<1>3. DaemonCrash(d) => GoesOn(d)
  BY DEF DaemonCrash, GoesOn, Phases, Booting, Early
<1>4. ValidateCanStart(d) => GoesOn(d)
  BY DEF ValidateCanStart, GoesOn, Phases, Live, Booting, Early, Running
<1>5. WriteFiles(d) => GoesOn(d)
  BY DEF WriteFiles, GoesOn, Phases, Live, Booting, Beating, Early, Running
<1>6. Exit(d) => GoesOn(d)
  BY RemovalIs DEF Exit, GoesOn, Phases, Live, Booting, Beating, Exiting, Removing, Early,
       Running
<1>7. Terminate /\ ~(sup # NoDaemon /\ Running(sup)) => UNCHANGED stateVars
  BY DEF Terminate, stateVars
<1>8. Dies(d) => GoesOn(d)
  BY DEF Dies, GoesOn, Phases, Live, Booting, Early, Running
<1> QED BY <1>1, <1>2, <1>3, <1>4, <1>5, <1>6, <1>7, <1>8

LEMMA RankedStep ==
  ASSUME Typed, Typed', Numbered, [Next]_vars
  PROVE  Ranked'
<1> USE DEF desktopVars, poolVars, bornVars, stateVars, historyVars
<1>1. CASE UNCHANGED vars
  BY <1>1 DEF vars, Numbered, Shut, Ranked, Booting, Early
<1>2. CASE Launch
  BY <1>2, Counting, BecomesIs, PhaseIs DEF Launch, Numbered, Shut, Ranked, Booting, Early
<1>3. CASE SetKeepAlive
  BY <1>3, Counting, BecomesIs, PhaseIs DEF SetKeepAlive, Acting, Numbered, Shut,
     Ranked, Booting, Early
<1>4. CASE Activate
  BY <1>4, Counting, BecomesIs, PhaseIs DEF Activate, Acting, Numbered, Shut, Ranked,
     Booting, Early
<1>5. CASE ReadSnapshot
  BY <1>5, Counting, BecomesIs, PhaseIs DEF ReadSnapshot, Acting, Numbered, Shut,
     Ranked, Booting, Early
<1>6. CASE Inspect
  BY <1>6, Counting, BecomesIs, PhaseIs DEF Inspect, Acting, Numbered, Shut, Ranked,
     Booting, Early
<1>7. CASE CleanCompare
  BY <1>7, Counting, BecomesIs, PhaseIs DEF CleanCompare, Numbered, Shut, Ranked,
     Booting, Early
<1>8. CASE CleanFile
  BY <1>8, Counting, BecomesIs, PhaseIs DEF CleanFile, Removes, Numbered, Shut, Ranked,
     Booting, Early
<1>9. ASSUME NEW d \in Daemons, Dies(d) PROVE Ranked'
  BY <1>9, OfOneProcess, RankedGoes DEF Dies, Step, Numbered
<1>10. CASE Attach
  BY <1>10, Counting, BecomesIs, PhaseIs DEF Attach, Numbered, Shut, Ranked, Booting,
     Early
<1>11. CASE Terminate
  <2>1. CASE sup \in Daemons /\ GoesOn(sup)
    BY <1>11, <2>1, RankedGoes DEF Terminate, Numbered
  <2>2. CASE UNCHANGED stateVars
    BY <1>11, <2>2 DEF Terminate, Numbered, Ranked
  <2>3. Daemons # {} => (sup \in Daemons /\ GoesOn(sup)) \/ UNCHANGED stateVars
    BY <1>11, OfOneProcess
  <2> QED BY <2>1, <2>2, <2>3 DEF Ranked
<1>12. CASE Kill
  <2>1. sup \in Daemons
    BY <1>12 DEF Kill, Typed, Shelled
  <2> QED BY <1>12, <2>1, OfOneProcess, RankedGoes DEF Kill, Numbered
<1>13. CASE Replaced
  BY <1>13, Counting, BecomesIs, PhaseIs DEF Replaced, Stopped, Acting, Numbered, Shut,
     Ranked, Booting, Early
<1>14. CASE Spawn
  <2>1. CASE UNCHANGED <<stateVars, bornVars>>
    BY <1>14, <2>1 DEF Spawn, Numbered, Ranked
  <2>2. CASE /\ spawned < MaxSpawns /\ spawned' = spawned + 1
             /\ Becomes(spawned + 1, "check")
             /\ parent' = [parent EXCEPT ![spawned + 1] = desktop]
    <3> DEFINE n == spawned + 1
    <3>1. n \in Daemons /\ n > spawned /\ "check" \in Phases
      BY <2>2, BoundsIs, Counting, PhaseIs DEF Daemons, Booting
    <3>2. proc'[n] = "check" /\ UNCHANGED monitor /\ \A e \in Daemons \ {n} : proc'[e] = proc[e]
      BY <2>2, <3>1, BecomesIs
    <3>3. proc[n] = "unborn"
      BY <3>1 DEF Numbered, Ranked
    <3>4. parent'[n] = desktop /\ \A e \in Daemons \ {n} : parent'[e] = parent[e]
      BY <2>2, <3>1 DEF Typed, Lived
    <3>5. UNCHANGED desktop /\ \A e \in Daemons \ {n} : e > spawned' => e > spawned
      BY <1>14, <2>2, Counting DEF Spawn
    <3> HIDE DEF n
    <3>6. ASSUME NEW e \in Daemons \ {n}
          PROVE  /\ parent'[e] <= desktop'
                 /\ monitor'[e].current <= desktop' /\ monitor'[e].handled <= desktop'
                 /\ e > spawned' => proc'[e] = "unborn"
                 /\ proc'[e] \in Booting \union {"unborn"} =>
                      monitor'[e].at = "look" /\ monitor'[e].handled = NoDesktop
                 /\ proc'[e] \in Early \union {"unborn"} => monitor'[e].current = NoDesktop
      BY <3>2, <3>4, <3>5 DEF Numbered, Ranked
    <3>7. /\ parent'[n] <= desktop'
          /\ monitor'[n].current <= desktop' /\ monitor'[n].handled <= desktop'
          /\ monitor'[n].at = "look" /\ monitor'[n].handled = NoDesktop
          /\ monitor'[n].current = NoDesktop
      BY <3>1, <3>2, <3>3, <3>4, <3>5, Counting DEF Numbered, Ranked
    <3>8. ~(n > spawned')
      BY <2>2, Counting DEF n
    <3> QED BY <3>6, <3>7, <3>8 DEF Ranked
  <2> QED BY <1>14, <2>1, <2>2 DEF Spawn
<1>15. CASE Ready
  BY <1>15, Counting, BecomesIs, PhaseIs DEF Ready, Acting, Numbered, Shut, Ranked,
     Booting, Early
<1>16. CASE Fail
  BY <1>16, Counting, BecomesIs, PhaseIs DEF Fail, Acting, Numbered, Shut, Ranked,
     Booting, Early
<1>17. CASE Failed
  BY <1>17, Counting, BecomesIs, PhaseIs DEF Failed, Stopped, Acting, Numbered, Shut,
     Ranked, Booting, Early
<1>18. CASE Quit
  <2>1. UNCHANGED <<desktop, bornVars, stateVars>>
    BY <1>18 DEF Quit, Gone
  <2> QED BY <2>1 DEF Numbered, Ranked
<1>19. CASE QuitDone
  BY <1>19, Counting, BecomesIs, PhaseIs DEF QuitDone, Stopped, Acting, Gone, Numbered,
     Shut, Ranked, Booting, Early
<1>20. CASE Crash
  BY <1>20, Counting, BecomesIs, PhaseIs DEF Crash, Gone, Numbered, Shut, Ranked,
     Booting, Early
<1>21. ASSUME NEW d \in Daemons, ValidateCanStart(d) PROVE Ranked'
  BY <1>21, OfOneProcess, RankedGoes DEF ValidateCanStart, Numbered
<1>22. ASSUME NEW d \in Daemons, WriteFiles(d) PROVE Ranked'
  BY <1>22, OfOneProcess, RankedGoes DEF WriteFiles, Numbered
<1>23. ASSUME NEW d \in Daemons, ReadOwner(d) PROVE Ranked'
  <2>1. monitor[d] \in Monitors
    BY Counting
  <2>2. /\ monitor'[d].current <= desktop /\ monitor'[d].at = monitor[d].at
        /\ monitor'[d].handled = monitor[d].handled
    BY <1>23, <2>1, Counting DEF ReadOwner, Numbered, Shut, Ranked, Boots, Typed, Lived,
       Monitors
  <2> QED BY <1>23, <2>1, <2>2, Counting DEF ReadOwner, Boots, Numbered, Ranked,
             Booting, Early, Typed, Lived
<1>24. ASSUME NEW d \in Daemons, WriteOwner(d) PROVE Ranked'
  BY <1>24, Counting, BecomesIs, PhaseIs DEF WriteOwner, Boots, Numbered, Shut, Ranked,
     Booting, Early
<1>25. ASSUME NEW d \in Daemons, Beat(d) PROVE Ranked'
  BY <1>25, Counting, BecomesIs, PhaseIs DEF Beat, Writes, Numbered, Shut, Ranked,
     Booting, Early
<1>26. ASSUME NEW d \in Daemons, Adopt(d) PROVE Ranked'
  BY <1>26, Counting, BecomesIs, PhaseIs DEF Adopt, Adopts, MonitorSteps, Numbered,
     Shut, Ranked, Booting, Early
<1>27. ASSUME NEW d \in Daemons, OwnerGone(d) PROVE Ranked'
  BY <1>27, Counting, BecomesIs, PhaseIs DEF OwnerGone, Adopts, MonitorSteps, Numbered,
     Shut, Ranked, Booting, Early
<1>28. ASSUME NEW d \in Daemons, Decide(d) PROVE Ranked'
  <2>1. monitor[d] \in Monitors
    BY Counting
  <2>2. /\ monitor'[d].current <= desktop /\ monitor'[d].handled <= desktop
    BY <1>28, <2>1, Counting DEF Decide, MonitorSteps, NoDesktop, Numbered, Shut,
       Ranked, Boots, Typed, Lived, Monitors
  <2> QED BY <1>28, <2>1, <2>2, Counting DEF Decide, MonitorSteps, Numbered, Ranked,
             Booting, Early, Typed, Lived
<1>29. ASSUME NEW d \in Daemons, Exit(d) PROVE Ranked'
  BY <1>29, OfOneProcess, RankedGoes DEF Exit, Removes, Numbered
<1>30. ASSUME NEW d \in Daemons, DaemonCrash(d) PROVE Ranked'
  BY <1>30, OfOneProcess, RankedGoes DEF DaemonCrash, Numbered
<1>31. ASSUME NEW d \in Daemons, Hang(d) PROVE Ranked'
  BY <1>31, Counting, BecomesIs, PhaseIs DEF Hang, Numbered, Shut, Ranked, Booting, Early
<1>32. ASSUME NEW d \in Daemons, PidReused(d) PROVE Ranked'
  BY <1>32, Counting, BecomesIs, PhaseIs DEF PidReused, Numbered, Shut, Ranked, Booting,
     Early
<1> QED BY <1>1, <1>2, <1>3, <1>4, <1>5, <1>6, <1>7, <1>8, <1>9, <1>10,
         <1>11, <1>12, <1>13, <1>14, <1>15, <1>16, <1>17, <1>18, <1>19,
         <1>20, <1>21, <1>22, <1>23, <1>24, <1>25, <1>26, <1>27, <1>28,
         <1>29, <1>30, <1>31, <1>32 DEF Next, DesktopNext, DaemonNext, Boot,
         Watch

LEMMA AlwaysNumbered == Spec => []Numbered
<1>1. Typed /\ Typed' /\ Numbered /\ [Next]_vars => Numbered'
  BY ShutStep, RankedStep DEF Numbered
<1> QED BY <1>1, NumberedInit, AlwaysTyped, PTL DEF Spec
-----------------------------------------------------------------------------
(* One daemon at work at a time, with files of its own.                    *)
LEMMA SafeInit == Init => Safe
BY DEF Init, Safe, Alone, Cradle, Table, Row, Lapse, Sighted, Current, Working, Work,
       Live, Retired, Booting, Beating, Exiting, Removing, Young

LEMMA FilesAre ==
  ASSUME Typed
  PROVE  /\ files \in FileMaps /\ snap \in FileMaps /\ NoFiles \in FileMaps
         /\ proc \in [Daemons -> Phases] /\ sup \in Daemons \union {NoDaemon}
         /\ parent \in [Daemons -> Desktops \union {NoDesktop}]
         /\ NoDaemon \notin Daemons
         /\ NoFiles.guid = NoDaemon
BY FilesType, Counting DEF Typed, Filed, Lived, Shelled, FileNames

LEMMA WorkIs ==
  /\ Work \subseteq Live /\ Young \subseteq Work /\ Booting \subseteq Work
  /\ Beating \subseteq Work /\ Removing \ {"removeGuid"} \subseteq Work
  /\ "dead" \notin Work /\ "unborn" \notin Work /\ "stopping" \in Work
  /\ \A p \in Retired : p \notin Work /\ p \notin Young /\ p \in Live
  /\ \A d \in Daemons : Working(d) <=> proc[d] \in Work
  /\ \A d \in Daemons : Working(d) => Running(d)
BY DEF Work, Working, Running, Retired, Live, Booting, Beating, Exiting, Removing, Young

(* What the verdict on a snapshot says of the processes it names.          *)
LEMMA VerdictTells ==
  ASSUME NEW s \in FileMaps, NEW same \in BOOLEAN
  PROVE  /\ Verdict(s, same) = "none" => s.guid = NoDaemon
         /\ Verdict(s, same) \in {"reuse", "replace"} => s.pid # NoDaemon
<1>1. ~HasBundle(s) => s.guid = NoDaemon
  BY DEF HasBundle, FileNames
<1> QED BY <1>1 DEF Verdict

LEMMA VerdictSees ==
  ASSUME NEW s \in FileMaps, NEW same \in BOOLEAN, NEW d \in Daemons, NoDaemon \notin Daemons,
         Running(d), Seen(s, d)
  PROVE  /\ Verdict(s, same) \notin {"none", "clean", "discard"}
         /\ Verdict(s, same) = "replace" => s.pid = d
<1>1. HasBundle(s) /\ d # NoDaemon /\ IsPidAlive(d)
  BY DEF HasBundle, FileNames, IsPidAlive, Seen
<1>2. CASE s.pid = d
  <2>1. ~ReuseProven(s)
    BY <1>2 DEF ReuseProven, Identity, StartsLate
  <2> QED BY <1>1, <1>2, <2>1 DEF Verdict
<1>3. CASE s.pid = NoDaemon /\ (s.heartbeat = d \/ s.manifest = d)
  <2>1. StillReferenced(s)
    BY <1>1, <1>3 DEF StillReferenced
  <2> QED BY <1>1, <1>3, <2>1 DEF Verdict
<1> QED BY <1>2, <1>3 DEF Seen

(* Fewer daemons are at work, and what has been seen is the same.          *)
LEMMA FewerWork ==
  ASSUME Sighted, \A d \in Daemons : Working(d)' => Working(d), UNCHANGED <<snap, act>>
  PROVE  Sighted'
BY DEF Sighted, Seen

(* A step of the desktop under which no daemon and no file changes.        *)
LEMMA Still ==
  ASSUME Alone, Table, Lapse, UNCHANGED <<proc, files, overlap>>
  PROVE  /\ Alone' /\ Table' /\ Lapse'
         /\ \A d \in Daemons : Working(d)' <=> Working(d)
BY DEF Alone, Table, Row, Lapse, Working

(* The step of a process at work leaves it the only one.                   *)
LEMMA OneGoes ==
  ASSUME Typed, Alone, Lapse, NEW d \in Daemons, GoesOn(d), Working(d), UNCHANGED overlap
  PROVE  /\ \A e \in Daemons : Working(e)' => Working(e)
         /\ \A e \in Daemons \ {d} : proc'[e] = proc[e] /\ ~Working(e)
         /\ Alone' /\ Lapse'
         /\ Row(d)' => Table'
<1>1. \A e \in Daemons \ {d} : proc'[e] = proc[e]
  BY BecomesIs DEF GoesOn
<1>2. \A e \in Daemons \ {d} : ~Working(e)
  BY DEF Alone
<1>3. \A e \in Daemons : Working(e)' => Working(e)
  BY <1>1 DEF Working
<1>4. \A e \in Daemons \ {d} : Row(e)'
  BY <1>1, <1>2 DEF Row, Working, Work, Retired, Live, Beating, Exiting, Booting, Removing
<1>5. Lapse'
  <2> SUFFICES ASSUME NEW e \in Daemons, NEW f \in Daemons, Working(e)', proc'[f] = "removeGuid"
               PROVE  overlap
    BY DEF Lapse
  <2>1. e = d
    BY <1>2, <1>3
  <2>2. f # d
    BY <2>1 DEF Working, Retired
  <2> QED BY <1>1, <2>2 DEF Lapse
<1> QED BY <1>1, <1>2, <1>3, <1>4, <1>5 DEF Table, Alone

(* The step of a retired one touches nobody else's files but the GUID.     *)
LEMMA RetiredGoes ==
  ASSUME Typed, Safe, NEW d \in Daemons, proc[d] \in Retired, NEW phase \in Retired \union {"dead"},
         Becomes(d, phase), phase = "removeGuid" => proc[d] = "removeGuid",
         \/ UNCHANGED files
         \/ proc[d] = "removeGuid" /\ files' = [files EXCEPT !.guid = NoDaemon],
         UNCHANGED <<desktop, up, sup, act, snap, parent, overlap>>
  PROVE  Safe'
<1>1. /\ proc'[d] = phase /\ \A e \in Daemons \ {d} : proc'[e] = proc[e]
      /\ phase \notin Work /\ phase \notin Young /\ proc[d] \notin Work
  BY BecomesIs, WorkIs, PhaseIs
<1>2. \A e \in Daemons : Working(e)' <=> Working(e)
  BY <1>1 DEF Working, Work
<1>3. /\ files'.guid \in {files.guid, NoDaemon}
      /\ files'.guid # files.guid => proc[d] = "removeGuid"
      /\ \A f \in FileNames \ {"guid"} : files'[f] = files[f]
  BY FilesAre, FilesType DEF FileNames
<1>4. Alone' /\ Lapse' /\ Sighted'
  BY <1>1, <1>2, FewerWork DEF Safe, Alone, Lapse
<1>5. Cradle'
  BY <1>1 DEF Safe, Cradle
<1>6. Current'
  BY <1>3 DEF Safe, Current, FileNames
<1>7. Table'
  <2> SUFFICES ASSUME NEW e \in Daemons, proc'[e] \in Work PROVE Row(e)'
    BY DEF Table, Row, Work, Retired, Live, Booting, Beating, Exiting, Removing
  <2>1. e # d /\ proc'[e] = proc[e] /\ Row(e) /\ Working(e)
    BY <1>1, WorkIs DEF Safe, Table
  <2>2. files'.guid # files.guid => overlap
    BY <1>3, <2>1 DEF Safe, Lapse
  <2> QED BY <1>3, <2>1, <2>2 DEF Row, FileNames
<1> QED BY <1>4, <1>5, <1>6, <1>7 DEF Safe

LEMMA SafeStep ==
  ASSUME Typed, Typed', Numbered, Replacing, Safe, ~bootRace, ~bootRace', [Next]_vars
  PROVE  Safe'
<1> USE DEF desktopVars, poolVars, bornVars, stateVars, historyVars
<1>t. /\ files \in FileMaps /\ snap \in FileMaps /\ NoFiles \in FileMaps
      /\ proc \in [Daemons -> Phases] /\ sup \in Daemons \union {NoDaemon}
      /\ parent \in [Daemons -> Desktops \union {NoDesktop}]
      /\ NoDaemon \notin Daemons /\ NoFiles.guid = NoDaemon
  BY FilesAre
<1>s. UNCHANGED <<proc, files, overlap>> =>
        Alone' /\ Table' /\ Lapse' /\ \A d \in Daemons : Working(d)' <=> Working(d)
  BY Still DEF Safe
<1>1. CASE UNCHANGED vars
  BY <1>1, <1>s DEF vars, Safe, Cradle, Sighted, Seen, Current
<1>2. CASE Launch
  <2>1. Alone' /\ Table' /\ Lapse' /\ \A d \in Daemons : Working(d)' <=> Working(d)
    BY <1>2, <1>s DEF Launch
  <2>2. Cradle'
    BY <1>2 DEF Launch, Safe, Cradle
  <2>3. Sighted'
    BY <1>2, <2>1 DEF Launch, Safe, Sighted, Seen, Removing
  <2>4. Current'
    BY <1>2 DEF Launch, Safe, Current
  <2> QED BY <2>1, <2>2, <2>3, <2>4 DEF Safe
<1>3. CASE SetKeepAlive
  <2>1. Alone' /\ Table' /\ Lapse' /\ \A d \in Daemons : Working(d)' <=> Working(d)
    BY <1>3, <1>s DEF SetKeepAlive, Acting
  <2>2. Cradle'
    BY <1>3 DEF SetKeepAlive, Acting, Safe, Cradle
  <2>3. Sighted'
    BY <1>3, <2>1 DEF SetKeepAlive, Acting, Safe, Sighted, Seen, Removing
  <2>4. Current'
    BY <1>3 DEF SetKeepAlive, Acting, Safe, Current
  <2> QED BY <2>1, <2>2, <2>3, <2>4 DEF Safe
<1>4. CASE Activate
  <2>1. Alone' /\ Table' /\ Lapse' /\ \A d \in Daemons : Working(d)' <=> Working(d)
    BY <1>4, <1>s DEF Activate, Acting
  <2>2. Cradle'
    BY <1>4 DEF Activate, Acting, Safe, Cradle
  <2>3. Sighted'
    BY <1>4, <2>1 DEF Activate, Acting, Safe, Sighted, Seen, Removing
  <2>4. Current'
    BY <1>4 DEF Activate, Acting, Safe, Current
  <2> QED BY <2>1, <2>2, <2>3, <2>4 DEF Safe
<1>5. CASE ReadSnapshot
  <2>1. Alone' /\ Table' /\ Lapse' /\ \A d \in Daemons : Working(d)' <=> Working(d)
    BY <1>5, <1>s DEF ReadSnapshot, Acting
  <2>2. Cradle'
    BY <1>5 DEF ReadSnapshot, Acting, Safe, Cradle
  <2>3. Sighted'
    <3> SUFFICES ASSUME NEW d \in Daemons, Working(d) PROVE Seen(files, d)
      BY <1>5, <2>1 DEF ReadSnapshot, Sighted, Seen, Removing
    <3>1. proc[d] \in Work \ Young
      BY <1>5, WorkIs DEF ReadSnapshot, Acting, Safe, Cradle
    <3>2. Row(d)
      BY DEF Safe, Table
    <3>3. CASE proc[d] \in {"removePort", "removeHeartbeat"}
      BY <3>2, <3>3 DEF Row, Seen
    <3>4. CASE proc[d] = "removeManifest"
      BY <3>2, <3>4 DEF Row, Seen, Work, Live, Retired, Exiting, Removing
    <3>5. CASE proc[d] \notin {"removePort", "removeHeartbeat", "removeManifest"}
      BY <3>1, <3>2, <3>5 DEF Row, Seen, Work, Young, Removing, Retired
    <3> QED BY <3>3, <3>4, <3>5
  <2>4. Current'
    BY <1>5 DEF ReadSnapshot, Acting, Safe, Current
  <2> QED BY <2>1, <2>2, <2>3, <2>4 DEF Safe
<1>6. CASE Inspect
  <2>1. Alone' /\ Table' /\ Lapse' /\ \A d \in Daemons : Working(d)' <=> Working(d)
    BY <1>6, <1>s DEF Inspect, Acting
  <2>2. Cradle'
    BY <1>6 DEF Inspect, Acting, Safe, Cradle
  <2>3. Sighted'
    <3>1. PICK same \in BOOLEAN : act' = After(Verdict(snap, same))
      BY <1>6 DEF Inspect
    <3>2. \A d \in Daemons : Working(d) => Running(d) /\ Seen(snap, d)
      BY <1>6, WorkIs DEF Inspect, Acting, Safe, Sighted
    <3>3. \A d \in Daemons : Working(d) =>
            /\ Verdict(snap, same) \notin {"none", "clean", "discard"}
            /\ Verdict(snap, same) = "replace" => snap.pid = d
      BY <1>t, <3>2, VerdictSees
    <3>4. UNCHANGED snap
      BY <1>6 DEF Inspect
    <3> QED BY <2>1, <3>1, <3>3, <3>4, VerdictIs, AfterIs DEF Sighted, Removing
  <2>4. Current'
    <3>1. PICK same \in BOOLEAN : act' = After(Verdict(snap, same))
      BY <1>6 DEF Inspect
    <3>2. /\ files.guid \in {snap.guid, NoDaemon} /\ files.pid \in {snap.pid, NoDaemon}
          /\ UNCHANGED <<snap, files>>
      BY <1>6 DEF Inspect, Acting, Safe, Current
    <3>3. act' = "spawn" => snap.guid = NoDaemon
      BY <1>t, <3>1, VerdictIs, AfterIs, VerdictTells
    <3> QED BY <3>2, <3>3 DEF Current
  <2> QED BY <2>1, <2>2, <2>3, <2>4 DEF Safe
<1>7. CASE CleanCompare
  <2>1. Alone' /\ Table' /\ Lapse' /\ \A d \in Daemons : Working(d)' <=> Working(d)
    BY <1>7, <1>s DEF CleanCompare
  <2>2. Cradle'
    BY <1>7 DEF CleanCompare, Safe, Cradle
  <2>3. Sighted'
    BY <1>7, <2>1 DEF CleanCompare, Safe, Sighted, Removing
  <2>4. Current'
    BY <1>7 DEF CleanCompare, Owned, Safe, Current
  <2> QED BY <2>1, <2>2, <2>3, <2>4 DEF Safe
<1>8. CASE CleanFile
  <2>1. /\ \A d \in Daemons : ~Working(d) /\ UNCHANGED <<proc, sup, up, desktop, parent, snap, overlap>>
        /\ act \in Removing /\ act' \in Removing \union {"spawn"}
    BY <1>8, RemovalIs DEF CleanFile, Safe, Sighted
  <2>2. \A d \in Daemons : proc[d] \notin Work /\ ~Working(d)'
    BY <2>1, WorkIs DEF Working
  <2>3. Alone' /\ Lapse' /\ Cradle' /\ Table'
    BY <2>1, <2>2, WorkIs DEF Alone, Lapse, Cradle, Table, Row, Work, Retired, Live, Booting,
       Beating, Exiting, Removing, Young
  <2>4. Sighted'
    BY <2>1, <2>2 DEF Sighted, Removing
  <2>5. ASSUME act' = "spawn" PROVE files'.guid = NoDaemon
    <3>1. act = "removeGuid"
      BY <1>8, <2>1, <2>5, RemovalIs DEF CleanFile, Removing
    <3> QED BY <1>8, <1>t, <3>1, RemovalIs, FilesType DEF CleanFile, Removes, FileNames
  <2> QED BY <2>1, <2>3, <2>4, <2>5 DEF Safe, Current, Removing
<1>9. ASSUME NEW d \in Daemons, Dies(d) PROVE Safe'
  BY <1>9, RetiredGoes DEF Dies, Step, Retired
<1>10. CASE Attach
  <2>1. Alone' /\ Table' /\ Lapse' /\ \A d \in Daemons : Working(d)' <=> Working(d)
    BY <1>10, <1>s DEF Attach
  <2>2. Cradle'
    BY <1>10 DEF Attach, Safe, Cradle
  <2>3. Sighted'
    BY <1>10, <2>1 DEF Attach, Safe, Sighted, Seen, Removing
  <2>4. Current'
    BY <1>10 DEF Attach, Safe, Current
  <2> QED BY <2>1, <2>2, <2>3, <2>4 DEF Safe
<1>11. CASE Terminate
  <2>f. \/ act = "replaceTerm" /\ act' = "replaceWait"
        \/ act = "failTerm" /\ act' = "failWait"
        \/ act = "quitTerm" /\ act' = "quitWait"
    BY <1>11 DEF Terminate, Acting
  <2>u. UNCHANGED <<desktop, up, sup, snap, parent, files, overlap>>
    BY <1>11 DEF Terminate
  <2>5. Current'
    BY <2>f, <2>u DEF Safe, Current
  <2>6. CASE UNCHANGED proc
    BY <1>s, <2>f, <2>u, <2>5, <2>6 DEF Safe, Cradle, Sighted, Removing
  <2>7. ASSUME NEW d \in Daemons, d = sup, Running(d) PROVE Safe'
    <3>p. \/ proc[d] \in Booting /\ proc'[d] = "dead"
          \/ proc[d] = "serving" /\ proc'[d] = "terminating"
          \/ proc[d] \in Live \ Booting /\ proc' = proc
      BY <1>11, <2>7, <1>t, BecomesIs, PhaseIs DEF Terminate, Running, Booting, Beating, Becomes
    <3>0. CASE proc' # proc
      <4>g. GoesOn(d) /\ Working(d)
        BY <1>11, <1>t, <2>7, <3>0, <3>p, OfOneProcess, WorkIs DEF Beating
      <4>r. /\ \A e \in Daemons : Working(e)' => Working(e)
            /\ \A e \in Daemons \ {d} : proc'[e] = proc[e] /\ ~Working(e)
            /\ Alone' /\ Lapse' /\ (Row(d)' => Table')
        BY <2>u, <4>g, OneGoes DEF Safe
      <4>2. Cradle'
        BY <2>f, <2>u, <3>p, <3>0, <4>r DEF Safe, Cradle, Young
      <4>3. Table'
        BY <2>u, <3>p, <3>0, <4>r DEF Safe, Table, Row, Work, Retired, Live, Booting, Beating,
           Exiting, Removing
      <4>4. Sighted'
        BY <2>f, <2>u, <4>r DEF Safe, Sighted, Removing
      <4> QED BY <2>5, <4>r, <4>2, <4>3, <4>4 DEF Safe
    <3> QED BY <2>6, <3>0
  <2>8. CASE ~(sup # NoDaemon /\ Running(sup))
    BY <1>11, <2>6, <2>8 DEF Terminate
  <2> QED BY <1>t, <2>7, <2>8
<1>12. CASE Kill
  <2>0. PICK d \in Daemons : d = sup /\ Running(d)
    BY <1>12, <1>t DEF Kill
  <2>u. UNCHANGED <<desktop, up, sup, act, snap, parent, files, overlap>> /\ Becomes(d, "killed")
    BY <1>12, <2>0 DEF Kill
  <2>1. CASE proc[d] \in Retired
    BY <2>u, <2>1, RetiredGoes DEF Retired
  <2>2. CASE Working(d)
    <3>g. GoesOn(d) /\ proc'[d] = "killed"
      BY <1>12, <2>0, <2>u, OfOneProcess, BecomesIs, PhaseIs DEF Live
    <3>r. /\ \A e \in Daemons : Working(e)' => Working(e)
          /\ \A e \in Daemons \ {d} : proc'[e] = proc[e] /\ ~Working(e)
          /\ Alone' /\ Lapse' /\ (Row(d)' => Table')
      BY <2>u, <2>2, <3>g, OneGoes DEF Safe
    <3>2. Cradle'
      BY <2>u, <3>g, <3>r DEF Safe, Cradle, Young
    <3>3. Table'
      BY <2>u, <3>g, <3>r DEF Row, Work, Retired, Live, Booting, Beating, Exiting, Removing
    <3>4. Sighted' /\ Current'
      BY <2>u, <3>r, FewerWork DEF Safe, Current
    <3> QED BY <3>r, <3>2, <3>3, <3>4 DEF Safe
  <2> QED BY <2>0, <2>1, <2>2 DEF Running, Working
<1>13. CASE Replaced
  <2>1. Alone' /\ Table' /\ Lapse' /\ \A d \in Daemons : Working(d)' <=> Working(d)
    BY <1>13, <1>s DEF Replaced, Stopped, Acting
  <2>2. Cradle'
    BY <1>13 DEF Replaced, Stopped, Acting, Safe, Cradle
  <2>3. Sighted'
    <3>1. act = "replaceWait" /\ UNCHANGED snap /\ act' \in {"fail", "clean"}
      BY <1>13 DEF Replaced, Stopped, Acting
    <3>2. ASSUME act' = "clean", NEW d \in Daemons PROVE ~Working(d)
      <4>1. ~IsPidAlive(snap.pid)
        BY <1>13, <3>2 DEF Replaced
      <4>2. Working(d) => d = snap.pid /\ Running(d) /\ d # NoDaemon
        BY <1>t, <3>1, WorkIs DEF Safe, Sighted
      <4> QED BY <4>1, <4>2 DEF IsPidAlive
    <3> QED BY <2>1, <3>1, <3>2 DEF Sighted, Removing
  <2>4. Current'
    BY <1>13 DEF Replaced, Stopped, Acting, Safe, Current
  <2> QED BY <2>1, <2>2, <2>3, <2>4 DEF Safe
<1>14. CASE Spawn
  <2>u. /\ UNCHANGED <<desktop, up, files>> /\ up /\ act = "spawn"
        /\ \A d \in Daemons : ~Working(d) /\ proc[d] \notin Work
        /\ \A d \in Daemons : proc[d] = "removeGuid" => overlap'
    BY <1>14, WorkIs DEF Spawn, Acting, Safe, Sighted
  <2>1. CASE UNCHANGED <<stateVars, bornVars, sup>> /\ act' = "fail"
    <3>1. \A d \in Daemons : ~Working(d)' /\ proc'[d] \notin Work
      BY <2>u, <2>1 DEF Working
    <3> QED BY <2>1, <3>1 DEF Safe, Alone, Cradle, Table, Row, Lapse, Sighted, Current, Work,
               Retired, Live, Booting, Beating, Exiting, Removing, Young
  <2>2. CASE /\ spawned < MaxSpawns /\ act' = "ready" /\ sup' = spawned + 1
             /\ Becomes(spawned + 1, "check")
             /\ parent' = [parent EXCEPT ![spawned + 1] = desktop]
    <3>1. PICK n \in Daemons : n = spawned + 1
      BY <2>2, BoundsIs, Counting DEF Daemons
    <3>2. "check" \in Phases
      BY PhaseIs DEF Booting
    <3>3. /\ proc'[n] = "check" /\ \A e \in Daemons \ {n} : proc'[e] = proc[e]
          /\ sup' = n /\ parent'[n] = desktop
      BY <1>t, <2>2, <3>1, <3>2, BecomesIs
    <3>4. \A e \in Daemons \ {n} : proc'[e] \notin Work /\ ~Working(e)'
      BY <2>u, <3>3 DEF Working
    <3>5. Alone'
      BY <3>4 DEF Alone
    <3>6. Cradle'
      BY <2>u, <2>2, <3>3, <3>4, WorkIs DEF Cradle
    <3>7. files.guid = NoDaemon
      BY <2>u DEF Safe, Current
    <3>8. Table'
      BY <2>u, <3>3, <3>4, <3>7 DEF Table, Row, Work, Retired, Live, Booting, Beating,
         Exiting, Removing
    <3>9. Sighted' /\ Current'
      BY <2>2 DEF Sighted, Current, Removing
    <3>10. Lapse'
      BY <2>u, <3>3 DEF Lapse
    <3> QED BY <3>5, <3>6, <3>8, <3>9, <3>10 DEF Safe
  <2> QED BY <1>14, <2>1, <2>2 DEF Spawn
<1>15. CASE Ready
  <2>1. Alone' /\ Table' /\ Lapse' /\ \A d \in Daemons : Working(d)' <=> Working(d)
    BY <1>15, <1>s DEF Ready, Acting, PortOpen
  <2>2. Cradle'
    BY <1>15 DEF Ready, Acting, PortOpen, Safe, Cradle, Beating, Young
  <2>3. Sighted'
    BY <1>15, <2>1 DEF Ready, Acting, PortOpen, Safe, Sighted, Seen, Removing
  <2>4. Current'
    BY <1>15 DEF Ready, Acting, PortOpen, Safe, Current
  <2> QED BY <2>1, <2>2, <2>3, <2>4 DEF Safe
<1>16. CASE Fail
  <2>1. Alone' /\ Table' /\ Lapse' /\ \A d \in Daemons : Working(d)' <=> Working(d)
    BY <1>16, <1>s DEF Fail, Acting
  <2>2. Cradle'
    BY <1>16 DEF Fail, Acting, Safe, Cradle
  <2>3. Sighted'
    BY <1>16, <2>1 DEF Fail, Acting, Safe, Sighted, Seen, Removing
  <2>4. Current'
    BY <1>16 DEF Fail, Acting, Safe, Current
  <2> QED BY <2>1, <2>2, <2>3, <2>4 DEF Safe
<1>17. CASE Failed
  <2>1. Alone' /\ Table' /\ Lapse' /\ \A d \in Daemons : Working(d)' <=> Working(d)
    BY <1>17, <1>s DEF Failed, Stopped, Acting
  <2>2. Cradle'
    <3>1. ASSUME NEW d \in Daemons, proc[d] \in Young PROVE FALSE
      <4>1. sup = d /\ parent[d] = desktop /\ Running(d) /\ d # NoDaemon /\ proc[d] # "killed"
        BY <1>t, <3>1, WorkIs DEF Safe, Cradle, Young, Running
      <4> QED BY <1>17, <4>1 DEF Failed, Stopped, IsPidAlive
    <3> QED BY <1>17, <3>1 DEF Failed, Cradle
  <2>3. Sighted'
    BY <1>17, <2>1 DEF Failed, Stopped, Acting, Safe, Sighted, Seen, Removing
  <2>4. Current'
    BY <1>17 DEF Failed, Stopped, Acting, Safe, Current
  <2> QED BY <2>1, <2>2, <2>3, <2>4 DEF Safe
<1>18. CASE Quit
  <2>1. Alone' /\ Table' /\ Lapse' /\ \A d \in Daemons : Working(d)' <=> Working(d)
    BY <1>18, <1>s DEF Quit, Acting, Gone
  <2>2. Cradle'
    BY <1>18 DEF Quit, Acting, Gone, Safe, Cradle
  <2>3. Sighted'
    BY <1>18, <2>1 DEF Quit, Acting, Gone, Safe, Sighted, Seen, Removing
  <2>4. Current'
    BY <1>18 DEF Quit, Acting, Gone, Safe, Current
  <2> QED BY <2>1, <2>2, <2>3, <2>4 DEF Safe
<1>19. CASE QuitDone
  <2>1. Alone' /\ Table' /\ Lapse' /\ \A d \in Daemons : Working(d)' <=> Working(d)
    BY <1>19, <1>s DEF QuitDone, Stopped, Acting, Gone
  <2>2. Cradle'
    BY <1>19 DEF QuitDone, Stopped, Acting, Gone, Safe, Cradle
  <2>3. Sighted'
    BY <1>19, <2>1 DEF QuitDone, Stopped, Acting, Gone, Safe, Sighted, Seen, Removing
  <2>4. Current'
    BY <1>19 DEF QuitDone, Stopped, Acting, Gone, Safe, Current
  <2> QED BY <2>1, <2>2, <2>3, <2>4 DEF Safe
<1>20. CASE Crash
  <2>1. Alone' /\ Table' /\ Lapse' /\ \A d \in Daemons : Working(d)' <=> Working(d)
    BY <1>20, <1>s DEF Crash, Gone
  <2>2. Cradle'
    BY <1>20 DEF Crash, Gone, Safe, Cradle, Young
  <2>3. Sighted'
    BY <1>20, <2>1 DEF Crash, Gone, Safe, Sighted, Seen, Removing
  <2>4. Current'
    BY <1>20 DEF Crash, Gone, Safe, Current
  <2> QED BY <2>1, <2>2, <2>3, <2>4 DEF Safe
<1>21. ASSUME NEW d \in Daemons, ValidateCanStart(d) PROVE Safe'
  <2>g. GoesOn(d) /\ Working(d)
    BY <1>21, OfOneProcess, WorkIs DEF ValidateCanStart, Step, Booting
  <2>u. UNCHANGED <<desktop, up, sup, act, snap, parent, overlap, files>>
    BY <1>21 DEF ValidateCanStart
  <2>r. /\ \A e \in Daemons : Working(e)' => Working(e)
        /\ \A e \in Daemons \ {d} : proc'[e] = proc[e] /\ ~Working(e)
        /\ Alone' /\ Lapse' /\ (Row(d)' => Table')
    BY <2>g, <2>u, OneGoes DEF Safe
  <2>p. proc[d] = "check" /\ proc'[d] \in {"guid", "dead"}
    BY <1>21, BecomesIs, PhaseIs DEF ValidateCanStart, Step, Booting
  <2>2. Cradle'
    BY <2>r, <2>p, <2>u DEF Safe, Cradle, Young
  <2>3. Table'
    BY <1>t, <2>r, <2>p, <2>u DEF Safe, Table, Row, Work, Retired, Live, Booting, Beating,
       Exiting, Removing, FileMaps, FileNames
  <2>4. Sighted'
    BY <2>r, <2>u, FewerWork DEF Safe
  <2>5. Current'
    BY <1>t, <2>p, <2>u DEF Safe, Current, Cradle, FileMaps, FileNames, Young
  <2> QED BY <2>r, <2>2, <2>3, <2>4, <2>5 DEF Safe
<1>22. ASSUME NEW d \in Daemons, WriteFiles(d) PROVE Safe'
  <2>g. GoesOn(d) /\ Working(d)
    BY <1>22, OfOneProcess, WorkIs DEF WriteFiles, Step, Booting
  <2>u. UNCHANGED <<desktop, up, sup, act, snap, parent, overlap>>
    BY <1>22 DEF WriteFiles
  <2>r. /\ \A e \in Daemons : Working(e)' => Working(e)
        /\ \A e \in Daemons \ {d} : proc'[e] = proc[e] /\ ~Working(e)
        /\ Alone' /\ Lapse' /\ (Row(d)' => Table')
    BY <2>g, <2>u, OneGoes DEF Safe
  <2>p. \/ proc[d] = "guid" /\ proc'[d] = "pid" /\ files' = [files EXCEPT !.guid = d]
        \/ proc[d] = "pid" /\ proc'[d] = "port" /\ files' = [files EXCEPT !.pid = d]
        \/ proc[d] = "port" /\ proc'[d] = "manifest" /\ files' = [files EXCEPT !.port = d]
        \/ proc[d] = "manifest" /\ proc'[d] = "ownerRead" /\ files' = [files EXCEPT !.manifest = d]
        \/ proc[d] = "heartbeat" /\ proc'[d] = "serving" /\ files' = [files EXCEPT !.heartbeat = d]
    BY <1>22, BecomesIs, PhaseIs DEF WriteFiles, Writes, Step, Booting, Beating
  <2>2. Cradle'
    BY <2>r, <2>p, <2>u DEF Safe, Cradle, Young
  <2>3. Table'
    BY <1>t, <2>r, <2>p, <2>u DEF Safe, Table, Row, Work, Retired, Live, Booting, Beating,
       Exiting, Removing, FileMaps, FileNames
  <2>4. Sighted'
    BY <2>r, <2>u, FewerWork DEF Safe
  <2>5. Current'
    BY <1>t, <2>p, <2>u DEF Safe, Current, Cradle, FileMaps, FileNames, Young
  <2> QED BY <2>r, <2>2, <2>3, <2>4, <2>5 DEF Safe
<1>23. ASSUME NEW d \in Daemons, ReadOwner(d) PROVE Safe'
  <2>1. /\ proc[d] = "ownerRead" /\ proc'[d] = "ownerWrite" /\ \A e \in Daemons \ {d} : proc'[e] = proc[e]
        /\ UNCHANGED <<desktop, up, sup, act, snap, parent, overlap, files>>
    BY <1>23, <1>t DEF ReadOwner, Boots
  <2>2. \A e \in Daemons : Working(e)' <=> Working(e)
    BY <2>1 DEF Working, Retired, Live, Booting
  <2>3. Alone' /\ Lapse'
    BY <2>1, <2>2 DEF Safe, Alone, Lapse
  <2>4. Cradle' /\ Current'
    BY <2>1 DEF Safe, Cradle, Current, Young
  <2>5. Table'
    BY <2>1 DEF Safe, Table, Row, Work, Retired, Live, Booting, Beating, Exiting, Removing
  <2>6. Sighted'
    BY <2>1, <2>2, FewerWork DEF Safe
  <2> QED BY <2>3, <2>4, <2>5, <2>6 DEF Safe
<1>24. ASSUME NEW d \in Daemons, WriteOwner(d) PROVE Safe'
  <2>1. /\ proc[d] = "ownerWrite" /\ proc'[d] = "heartbeat" /\ \A e \in Daemons \ {d} : proc'[e] = proc[e]
        /\ UNCHANGED <<desktop, up, sup, act, snap, parent, overlap, files>>
    BY <1>24, <1>t DEF WriteOwner, Boots
  <2>2. \A e \in Daemons : Working(e)' <=> Working(e)
    BY <2>1 DEF Working, Retired, Live, Booting
  <2>3. Alone' /\ Lapse'
    BY <2>1, <2>2 DEF Safe, Alone, Lapse
  <2>4. Cradle' /\ Current'
    BY <2>1 DEF Safe, Cradle, Current, Young
  <2>5. Table'
    BY <2>1 DEF Safe, Table, Row, Work, Retired, Live, Booting, Beating, Exiting, Removing
  <2>6. Sighted'
    BY <2>1, <2>2, FewerWork DEF Safe
  <2> QED BY <2>3, <2>4, <2>5, <2>6 DEF Safe
<1>25. ASSUME NEW d \in Daemons, Beat(d) PROVE Safe'
  <2>1. /\ UNCHANGED <<proc, desktop, up, sup, act, snap, parent, overlap>> /\ proc[d] \in Beating
        /\ files' = [files EXCEPT !.heartbeat = d]
    BY <1>25 DEF Beat, Writes
  <2>2. \A e \in Daemons : Working(e)' <=> Working(e)
    BY <2>1 DEF Working
  <2>3. Alone' /\ Lapse' /\ Cradle'
    BY <2>1, <2>2 DEF Safe, Alone, Lapse, Cradle
  <2>4. Current'
    BY <1>t, <2>1 DEF Safe, Current, FileMaps, FileNames
  <2>5. Table'
    <3>1. \A e \in Daemons : proc[e] \in Work => e = d
      BY <2>1, WorkIs DEF Safe, Alone
    <3>2. files'.heartbeat = d /\ \A f \in FileNames \ {"heartbeat"} : files'[f] = files[f]
      BY <1>t, <2>1, FilesType DEF FileNames
    <3>3. \A e \in Daemons : proc'[e] \notin Work => Row(e)'
      BY DEF Row, Work, Retired, Live, Booting, Beating, Exiting, Removing
    <3>4. Row(d)'
      BY <2>1, <3>2 DEF Safe, Table, Row, FileNames
    <3> QED BY <2>1, <3>1, <3>3, <3>4 DEF Table
  <2>6. Sighted'
    BY <2>1, <2>2, FewerWork DEF Safe
  <2> QED BY <2>3, <2>4, <2>5, <2>6 DEF Safe
<1>26. ASSUME NEW d \in Daemons, Adopt(d) PROVE Safe'
  BY <1>26, <1>s DEF Adopt, MonitorSteps, Safe, Cradle, Sighted, Seen, Current
<1>27. ASSUME NEW d \in Daemons, OwnerGone(d) PROVE Safe'
  BY <1>27, <1>s DEF OwnerGone, MonitorSteps, Safe, Cradle, Sighted, Seen, Current
<1>28. ASSUME NEW d \in Daemons, Decide(d) PROVE Safe'
  <2>u. UNCHANGED <<desktop, up, sup, act, snap, parent, overlap, files>> /\ proc[d] = "serving"
    BY <1>28 DEF Decide, MonitorSteps
  <2>1. CASE UNCHANGED proc
    BY <1>s, <2>u, <2>1 DEF Safe, Cradle, Sighted, Seen, Current
  <2>2. CASE proc' = [proc EXCEPT ![d] = "terminating"]
    <3>1. proc'[d] = "terminating" /\ \A e \in Daemons \ {d} : proc'[e] = proc[e]
      BY <1>t, <2>2
    <3>2. \A e \in Daemons : Working(e)' <=> Working(e)
      BY <2>u, <3>1 DEF Working, Retired, Live, Beating
    <3>3. Alone' /\ Lapse'
      BY <2>u, <3>1, <3>2 DEF Safe, Alone, Lapse
    <3>4. Cradle' /\ Current'
      BY <2>u, <3>1 DEF Safe, Cradle, Current, Young
    <3>5. Table'
      BY <2>u, <3>1 DEF Safe, Table, Row, Work, Retired, Live, Booting, Beating, Exiting,
           Removing
    <3>6. Sighted'
      BY <2>u, <3>2, FewerWork DEF Safe
    <3> QED BY <3>3, <3>4, <3>5, <3>6 DEF Safe
  <2> QED BY <1>28, <2>1, <2>2 DEF Decide
<1>29. ASSUME NEW d \in Daemons, Exit(d) PROVE Safe'
  <2>1. CASE proc[d] = "removeGuid"
    <3>1. Becomes(d, "leaving") /\ files' = [files EXCEPT !.guid = NoDaemon]
      BY <1>29, <2>1, RemovalIs DEF Exit, Removes, Step
    <3>2. UNCHANGED <<desktop, up, sup, act, snap, parent, overlap>>
      BY <1>29 DEF Exit
    <3> QED BY <2>1, <3>1, <3>2, RetiredGoes DEF Retired
  <2>2. CASE proc[d] = "leaving"
    <3>1. Becomes(d, "dead") /\ UNCHANGED <<files, desktop, up, sup, act, snap, parent, overlap>>
      BY <1>29, <2>2 DEF Exit, Removing, Step
    <3> QED BY <2>2, <3>1, RetiredGoes DEF Retired
  <2>3. CASE proc[d] \notin Retired
    <3>g. GoesOn(d) /\ Working(d)
      BY <1>29, <2>3, OfOneProcess DEF GoesOn, Running, Working
    <3>u. UNCHANGED <<desktop, up, sup, act, snap, parent, overlap>>
      BY <1>29 DEF Exit
    <3>r. /\ \A e \in Daemons : Working(e)' => Working(e)
          /\ \A e \in Daemons \ {d} : proc'[e] = proc[e] /\ ~Working(e)
          /\ Alone' /\ Lapse' /\ (Row(d)' => Table')
      BY <3>g, <3>u, OneGoes DEF Safe
    <3>p. \/ proc[d] = "terminating" /\ proc'[d] = "stopping" /\ UNCHANGED files
          \/ proc[d] = "stopping" /\ proc'[d] = "removePid" /\ files.pid \in {d, NoDaemon} /\ UNCHANGED files
          \/ proc[d] = "stopping" /\ proc'[d] = "leaving" /\ UNCHANGED files
          \/ proc[d] = "removePid" /\ proc'[d] = "removePort" /\ files' = [files EXCEPT !.pid = NoDaemon]
          \/ proc[d] = "removePort" /\ proc'[d] = "removeHeartbeat" /\ files' = [files EXCEPT !.port = NoDaemon]
          \/ proc[d] = "removeHeartbeat" /\ proc'[d] = "removeManifest" /\ files' = [files EXCEPT !.heartbeat = NoDaemon]
          \/ proc[d] = "removeManifest" /\ proc'[d] = "removeGuid" /\ files' = [files EXCEPT !.manifest = NoDaemon]
      BY <1>29, <2>3, BecomesIs, PhaseIs, RemovalIs DEF Exit, Step, Owned, Removes, Removing,
         Retired, Live, Beating, Exiting
    <3>2. Cradle'
      BY <3>r, <3>p, <3>u DEF Safe, Cradle, Young
    <3>3. Table'
      BY <1>t, <3>r, <3>p, <3>u DEF Safe, Table, Row, Work, Retired, Live, Booting, Beating,
       Exiting, Removing, FileMaps, FileNames
    <3>4. Sighted'
      BY <3>r, <3>u, FewerWork DEF Safe
    <3>5. Current'
      BY <1>t, <3>p, <3>u DEF Safe, Current, Cradle, FileMaps, FileNames, Young
    <3> QED BY <3>r, <3>2, <3>3, <3>4, <3>5 DEF Safe
  <2>4. proc[d] # "killed"
    BY <1>29 DEF Exit, Step, Removing
  <2> QED BY <2>1, <2>2, <2>3, <2>4 DEF Retired
<1>30. ASSUME NEW d \in Daemons, DaemonCrash(d) PROVE Safe'
  <2>u. UNCHANGED <<desktop, up, sup, act, snap, parent, files, overlap>> /\ Becomes(d, "dead") /\ Running(d)
    BY <1>30 DEF DaemonCrash
  <2>1. CASE proc[d] \in Retired
    BY <2>u, <2>1, RetiredGoes
  <2>2. CASE Working(d)
    <3>g. GoesOn(d) /\ proc'[d] = "dead"
      BY <1>30, <2>u, OfOneProcess, BecomesIs, PhaseIs
    <3>r. /\ \A e \in Daemons : Working(e)' => Working(e)
          /\ \A e \in Daemons \ {d} : proc'[e] = proc[e] /\ ~Working(e)
          /\ Alone' /\ Lapse' /\ (Row(d)' => Table')
      BY <2>u, <2>2, <3>g, OneGoes DEF Safe
    <3>2. Cradle'
      BY <2>u, <3>g, <3>r DEF Safe, Cradle, Young
    <3>3. Table'
      BY <2>u, <3>g, <3>r DEF Row, Work, Retired, Live, Booting, Beating, Exiting, Removing
    <3>4. Sighted' /\ Current'
      BY <2>u, <3>r, FewerWork DEF Safe, Current
    <3> QED BY <3>r, <3>2, <3>3, <3>4 DEF Safe
  <2> QED BY <2>u, <2>1, <2>2 DEF Running, Working
<1>31. ASSUME NEW d \in Daemons, Hang(d) PROVE Safe'
  BY <1>31, <1>s DEF Hang, Safe, Cradle, Sighted, Seen, Current
<1>32. ASSUME NEW d \in Daemons, PidReused(d) PROVE Safe'
  BY <1>32, <1>s DEF PidReused, Safe, Cradle, Sighted, Seen, Current
<1> QED BY <1>1, <1>2, <1>3, <1>4, <1>5, <1>6, <1>7, <1>8, <1>9, <1>10,
         <1>11, <1>12, <1>13, <1>14, <1>15, <1>16, <1>17, <1>18, <1>19,
         <1>20, <1>21, <1>22, <1>23, <1>24, <1>25, <1>26, <1>27, <1>28,
         <1>29, <1>30, <1>31, <1>32 DEF Next, DesktopNext, DaemonNext, Boot,
         Watch

-----------------------------------------------------------------------------
(* What a replacement looks at.                                            *)
LEMMA ReplacingInit == Init => Replacing
BY DEF Init, Replacing

LEMMA ReplacingStep ==
  ASSUME Typed, Replacing, [Next]_vars
  PROVE  Replacing'
<1> USE DEF desktopVars, poolVars, bornVars, stateVars, historyVars
<1>1. CASE UNCHANGED vars
  BY <1>1 DEF vars, Replacing
<1>2. CASE Launch
  BY <1>2 DEF Launch, Replacing
<1>3. CASE SetKeepAlive
  BY <1>3 DEF SetKeepAlive, Acting, Replacing
<1>4. CASE Activate
  BY <1>4 DEF Activate, Acting, Replacing
<1>5. CASE ReadSnapshot
  BY <1>5 DEF ReadSnapshot, Acting, Replacing
<1>6. CASE Inspect
  <2>1. PICK same \in BOOLEAN : act' = After(Verdict(snap, same))
    BY <1>6 DEF Inspect
  <2>2. UNCHANGED snap
    BY <1>6 DEF Inspect
  <2> QED BY <2>1, <2>2, FilesAre, VerdictIs, AfterIs, VerdictTells DEF Replacing
<1>7. CASE CleanCompare
  BY <1>7 DEF CleanCompare, Replacing
<1>8. CASE CleanFile
  BY <1>8, RemovalIs DEF CleanFile, Replacing, Removing
<1>9. ASSUME NEW d \in Daemons, Dies(d) PROVE Replacing'
  BY <1>9 DEF Dies, Step, Replacing
<1>10. CASE Attach
  BY <1>10 DEF Attach, Replacing
<1>11. CASE Terminate
  BY <1>11 DEF Terminate, Acting, Replacing
<1>12. CASE Kill
  BY <1>12 DEF Kill, Replacing
<1>13. CASE Replaced
  BY <1>13 DEF Replaced, Stopped, Acting, Replacing
<1>14. CASE Spawn
  BY <1>14 DEF Spawn, Acting, Replacing
<1>15. CASE Ready
  BY <1>15 DEF Ready, Acting, Replacing
<1>16. CASE Fail
  BY <1>16 DEF Fail, Acting, Replacing
<1>17. CASE Failed
  BY <1>17 DEF Failed, Stopped, Acting, Replacing
<1>18. CASE Quit
  BY <1>18 DEF Quit, Acting, Gone, Replacing
<1>19. CASE QuitDone
  BY <1>19 DEF QuitDone, Stopped, Acting, Gone, Replacing
<1>20. CASE Crash
  BY <1>20 DEF Crash, Gone, Replacing
<1>21. ASSUME NEW d \in Daemons, ValidateCanStart(d) PROVE Replacing'
  BY <1>21 DEF ValidateCanStart, Step, Replacing
<1>22. ASSUME NEW d \in Daemons, WriteFiles(d) PROVE Replacing'
  BY <1>22 DEF WriteFiles, Step, Writes, Replacing
<1>23. ASSUME NEW d \in Daemons, ReadOwner(d) PROVE Replacing'
  BY <1>23 DEF ReadOwner, Boots, Replacing
<1>24. ASSUME NEW d \in Daemons, WriteOwner(d) PROVE Replacing'
  BY <1>24 DEF WriteOwner, Boots, Replacing
<1>25. ASSUME NEW d \in Daemons, Beat(d) PROVE Replacing'
  BY <1>25 DEF Beat, Writes, Replacing
<1>26. ASSUME NEW d \in Daemons, Adopt(d) PROVE Replacing'
  BY <1>26 DEF Adopt, Adopts, MonitorSteps, Replacing
<1>27. ASSUME NEW d \in Daemons, OwnerGone(d) PROVE Replacing'
  BY <1>27 DEF OwnerGone, Adopts, MonitorSteps, Replacing
<1>28. ASSUME NEW d \in Daemons, Decide(d) PROVE Replacing'
  BY <1>28 DEF Decide, MonitorSteps, Replacing
<1>29. ASSUME NEW d \in Daemons, Exit(d) PROVE Replacing'
  BY <1>29 DEF Exit, Removes, Step, Replacing
<1>30. ASSUME NEW d \in Daemons, DaemonCrash(d) PROVE Replacing'
  BY <1>30 DEF DaemonCrash, Replacing
<1>31. ASSUME NEW d \in Daemons, Hang(d) PROVE Replacing'
  BY <1>31 DEF Hang, Replacing
<1>32. ASSUME NEW d \in Daemons, PidReused(d) PROVE Replacing'
  BY <1>32 DEF PidReused, Replacing
<1> QED BY <1>1, <1>2, <1>3, <1>4, <1>5, <1>6, <1>7, <1>8, <1>9, <1>10,
         <1>11, <1>12, <1>13, <1>14, <1>15, <1>16, <1>17, <1>18, <1>19,
         <1>20, <1>21, <1>22, <1>23, <1>24, <1>25, <1>26, <1>27, <1>28,
         <1>29, <1>30, <1>31, <1>32 DEF Next, DesktopNext, DaemonNext, Boot,
         Watch

LEMMA AlwaysReplacing == Spec => []Replacing
BY ReplacingInit, ReplacingStep, AlwaysTyped, PTL DEF Spec

(* Nothing but the crash that leaves a child without a record breaks Safe. *)
LEMMA HandedStep ==
  ASSUME Typed, Typed', Numbered, Replacing, Handed, [Next]_vars
  PROVE  Handed'
<1>1. bootRace => bootRace'
  BY DEF Next, DesktopNext, DaemonNext, Boot, Watch, vars, historyVars, Launch,
     SetKeepAlive,
         Activate, ReadSnapshot, Inspect, CleanCompare, CleanFile, Attach, Terminate,
         Kill, Replaced, Spawn, Ready, Fail, Failed, Quit, QuitDone, Crash, ValidateCanStart,
         WriteFiles, ReadOwner, WriteOwner, Boots, Beat, Adopt, OwnerGone, Decide, MonitorSteps,
         Exit, Dies, DaemonCrash, Hang, PidReused
<1>2. CASE bootRace
  BY <1>1, <1>2 DEF Handed
<1>3. CASE ~bootRace /\ ~bootRace'
  BY <1>3, SafeStep DEF Handed
<1>4. CASE bootRace'
  BY <1>4 DEF Handed
<1> QED BY <1>2, <1>3, <1>4

LEMMA AlwaysHanded == Spec => []Handed
<1>1. Init => Handed
  BY SafeInit DEF Handed
<1> QED BY <1>1, HandedStep, AlwaysTyped, AlwaysNumbered, AlwaysReplacing, PTL DEF Spec

(* A desktop spawns only when no daemon is left at work: one that still    *)
(* lives has at most its GUID to remove.  Unless a desktop crashed before   *)
(* its child had recorded a process id.                                    *)
THEOREM SpawnsAloneCorrect == Spec => []SpawnsAlone
<1>1. Handed => SpawnsAlone
  BY DEF Handed, Safe, Sighted, SpawnsAlone
<1> QED BY <1>1, AlwaysHanded, PTL

(* Neither a cleanup nor a late write touches the files of a daemon that   *)
(* serves, removed one by one as they are, unless it was spawned while     *)
(* another had its GUID still to remove.                                   *)
THEOREM FilesCorrect == Spec => []FilesOfServing
<1>1. Handed => FilesOfServing
  BY DEF Handed, Safe, Table, Row, FilesOfServing, FileNames, Work, Retired, Live, Beating,
       Removing
<1> QED BY <1>1, AlwaysHanded, PTL

(* What a dead generation left never makes a new daemon refuse to start.   *)
THEOREM RefusesCorrect == Spec => []RefusesOnlyBesideLive
<1>1. Handed => RefusesOnlyBesideLive
  BY DEF Handed, Safe, Table, Row, RefusesOnlyBesideLive
<1> QED BY <1>1, AlwaysHanded, PTL
-----------------------------------------------------------------------------
(* Signals.                                                                *)
LEMMA SparedInit == Init => Bodies /\ Spared
BY DEF Init, Bodies, Spared

LEMMA BodiesGoes ==
  ASSUME Typed, Bodies, NEW d \in Daemons, GoesOn(d), UNCHANGED occupant
  PROVE  Bodies'
<1>1. PICK phase \in Phases \ {"unborn"} : Becomes(d, phase)
  BY DEF GoesOn
<1>2. Running(d) /\ proc[d] # "dead" /\ occupant[d] = "none"
  BY PhaseIs DEF GoesOn, Running, Bodies
<1>3. \A e \in Daemons \ {d} : proc'[e] = proc[e]
  BY <1>1, BecomesIs
<1>4. proc'[d] = phase /\ hung' = (IF phase = "dead" THEN hung \ {d} ELSE hung)
  BY <1>1, BecomesIs DEF Becomes
<1>5. phase # "dead" => phase \in Live
  BY <1>1, PhaseIs
<1>6. hung \subseteq Daemons
  BY DEF Typed, Lived
<1> QED BY <1>2, <1>3, <1>4, <1>5, <1>6 DEF Bodies, Running

LEMMA BodiesStep ==
  ASSUME Typed, Numbered, Bodies, [Next]_vars
  PROVE  Bodies'
<1> USE DEF desktopVars, poolVars, bornVars, stateVars, historyVars
<1>1. CASE UNCHANGED vars
  BY <1>1 DEF vars, Bodies, Running
<1>2. CASE Launch
  BY <1>2, FilesAre DEF Launch, Bodies, Running
<1>3. CASE SetKeepAlive
  BY <1>3, FilesAre DEF SetKeepAlive, Acting, Bodies, Running
<1>4. CASE Activate
  BY <1>4, FilesAre DEF Activate, Acting, Bodies, Running
<1>5. CASE ReadSnapshot
  BY <1>5, FilesAre DEF ReadSnapshot, Acting, Bodies, Running
<1>6. CASE Inspect
  BY <1>6, FilesAre DEF Inspect, Acting, Bodies, Running
<1>7. CASE CleanCompare
  BY <1>7, FilesAre DEF CleanCompare, Bodies, Running
<1>8. CASE CleanFile
  BY <1>8, FilesAre DEF CleanFile, Removes, Bodies, Running
<1>9. ASSUME NEW d \in Daemons, Dies(d) PROVE Bodies'
  BY <1>9, OfOneProcess, BodiesGoes DEF Dies, Step
<1>10. CASE Attach
  BY <1>10, FilesAre DEF Attach, Bodies, Running
<1>11. CASE Terminate
  <2>1. CASE sup # NoDaemon /\ Running(sup)
    <3>1. sup \in Daemons
      BY <2>1, FilesAre
    <3> QED BY <1>11, <2>1, <3>1, OfOneProcess, BodiesGoes DEF Terminate
  <2>2. CASE ~(sup # NoDaemon /\ Running(sup))
    <3>1. \A d \in Daemons : occupant'[d] \in {occupant[d], "none"}
      BY <1>11, <2>2 DEF Terminate, Typed, Lived
    <3> QED BY <1>11, <2>2, <3>1 DEF Terminate, Bodies, Running
  <2> QED BY <2>1, <2>2
<1>12. CASE Kill
  <2>1. sup \in Daemons
    BY <1>12, FilesAre DEF Kill
  <2> QED BY <1>12, <2>1, OfOneProcess, BodiesGoes DEF Kill
<1>13. CASE Replaced
  BY <1>13, FilesAre DEF Replaced, Stopped, Acting, Bodies, Running
<1>14. CASE Spawn
  <2>1. CASE UNCHANGED stateVars
    BY <1>14, <2>1 DEF Spawn, Bodies, Running
  <2>2. CASE spawned < MaxSpawns /\ Becomes(spawned + 1, "check")
    <3>1. PICK n \in Daemons : n = spawned + 1 /\ n > spawned
      BY <2>2, BoundsIs, Counting DEF Daemons
    <3>2. proc[n] = "unborn"
      BY <3>1 DEF Numbered, Ranked
    <3>3. proc' = [proc EXCEPT ![n] = "check"] /\ UNCHANGED <<hung, occupant>>
      BY <1>14, <2>2, <3>1 DEF Spawn, Becomes
    <3> QED BY <3>2, <3>3, FilesAre DEF Bodies, Running, Live, Booting
  <2> QED BY <1>14, <2>1, <2>2 DEF Spawn
<1>15. CASE Ready
  BY <1>15, FilesAre DEF Ready, Acting, Bodies, Running
<1>16. CASE Fail
  BY <1>16, FilesAre DEF Fail, Acting, Bodies, Running
<1>17. CASE Failed
  BY <1>17, FilesAre DEF Failed, Stopped, Acting, Bodies, Running
<1>18. CASE Quit
  BY <1>18, FilesAre DEF Quit, Acting, Gone, Bodies, Running
<1>19. CASE QuitDone
  BY <1>19, FilesAre DEF QuitDone, Stopped, Acting, Gone, Bodies, Running
<1>20. CASE Crash
  BY <1>20, FilesAre DEF Crash, Gone, Bodies, Running
<1>21. ASSUME NEW d \in Daemons, ValidateCanStart(d) PROVE Bodies'
  BY <1>21, OfOneProcess, BodiesGoes DEF ValidateCanStart
<1>22. ASSUME NEW d \in Daemons, WriteFiles(d) PROVE Bodies'
  BY <1>22, OfOneProcess, BodiesGoes DEF WriteFiles
<1>23. ASSUME NEW d \in Daemons, ReadOwner(d) PROVE Bodies'
  BY <1>23, FilesAre DEF ReadOwner, Boots, Bodies, Running, Live, Booting
<1>24. ASSUME NEW d \in Daemons, WriteOwner(d) PROVE Bodies'
  BY <1>24, FilesAre DEF WriteOwner, Boots, Bodies, Running, Live, Booting
<1>25. ASSUME NEW d \in Daemons, Beat(d) PROVE Bodies'
  BY <1>25, FilesAre DEF Beat, Writes, Bodies, Running
<1>26. ASSUME NEW d \in Daemons, Adopt(d) PROVE Bodies'
  BY <1>26, FilesAre DEF Adopt, Adopts, MonitorSteps, Bodies, Running
<1>27. ASSUME NEW d \in Daemons, OwnerGone(d) PROVE Bodies'
  BY <1>27, FilesAre DEF OwnerGone, Adopts, MonitorSteps, Bodies, Running
<1>28. ASSUME NEW d \in Daemons, Decide(d) PROVE Bodies'
  <2>1. CASE UNCHANGED proc
    BY <1>28, <2>1 DEF Decide, MonitorSteps, Bodies, Running
  <2>2. CASE proc' = [proc EXCEPT ![d] = "terminating"]
    <3>1. proc[d] = "serving" /\ UNCHANGED <<hung, occupant>>
      BY <1>28 DEF Decide, MonitorSteps
    <3> QED BY <2>2, <3>1, FilesAre DEF Bodies, Running, Live, Beating
  <2> QED BY <1>28, <2>1, <2>2 DEF Decide
<1>29. ASSUME NEW d \in Daemons, Exit(d) PROVE Bodies'
  BY <1>29, OfOneProcess, BodiesGoes DEF Exit, Removes
<1>30. ASSUME NEW d \in Daemons, DaemonCrash(d) PROVE Bodies'
  BY <1>30, OfOneProcess, BodiesGoes DEF DaemonCrash
<1>31. ASSUME NEW d \in Daemons, Hang(d) PROVE Bodies'
  BY <1>31, FilesAre DEF Hang, Bodies, Running, Live, Beating
<1>32. ASSUME NEW d \in Daemons, PidReused(d) PROVE Bodies'
  <2>1. UNCHANGED <<proc, hung>> /\ proc[d] = "dead"
    BY <1>32 DEF PidReused
  <2>2. \A e \in Daemons \ {d} : occupant'[e] = occupant[e]
    BY <1>32 DEF PidReused, Typed, Lived
  <2> QED BY <2>1, <2>2 DEF Bodies, Running
<1> QED BY <1>1, <1>2, <1>3, <1>4, <1>5, <1>6, <1>7, <1>8, <1>9, <1>10,
         <1>11, <1>12, <1>13, <1>14, <1>15, <1>16, <1>17, <1>18, <1>19,
         <1>20, <1>21, <1>22, <1>23, <1>24, <1>25, <1>26, <1>27, <1>28,
         <1>29, <1>30, <1>31, <1>32 DEF Next, DesktopNext, DaemonNext, Boot,
         Watch

LEMMA VerdictSpares ==
  ASSUME Bodies, NEW s \in FileMaps, NEW same \in BOOLEAN, Verdict(s, same) = "replace"
  PROVE  Running(s.pid) \/ MayBeTaken(s)
<1>1. CASE ~Reusable(s)
  <2>1. ~ReuseProven(s) /\ Identity(s.pid) = "match"
    BY <1>1 DEF Verdict
  <2> QED BY <2>1 DEF ReuseProven, StartsLate, Identity, MayBeTaken
<1>2. CASE Reusable(s) /\ s.pid \in hung
  BY <1>2 DEF Bodies
<1>3. CASE Reusable(s) /\ s.port = s.pid
  BY <1>3 DEF Reusable, PortOpen, Running, Live
<1> QED BY <1>1, <1>2, <1>3 DEF Verdict

(* A process the replacement looks at may only die, its id unused.         *)
LEMMA SparedKept ==
  ASSUME Typed, Bodies, Replacing, Spared, UNCHANGED snap,
         act' \in {"takeOver", "replaceTerm"} => act \in {"takeOver", "replaceTerm"},
         \A d \in Daemons : occupant'[d] \in {occupant[d], "none"},
         \A d \in Daemons : Running(d) => Running(d)' \/ occupant'[d] = "none"
  PROVE  Spared'
<1>1. act \in {"takeOver", "replaceTerm"} => snap.pid \in Daemons
  BY FilesAre DEF Replacing, FileMaps, FileNames
<1>2. PICK p : p = snap.pid
  OBVIOUS
<1> QED BY <1>1, <1>2 DEF Spared, MayBeTaken, Running

LEMMA SparedStep ==
  ASSUME Typed, Bodies, Replacing, Spared, [Next]_vars
  PROVE  Spared'
<1> USE DEF desktopVars, poolVars, bornVars, stateVars, historyVars
<1>1. CASE UNCHANGED vars
  BY <1>1 DEF vars, Spared, MayBeTaken, Running
<1>2. CASE Launch
  <2>1. UNCHANGED <<snap, occupant, proc>>
    BY <1>2 DEF Launch
  <2>2. act' \in {"takeOver", "replaceTerm"} => act \in {"takeOver", "replaceTerm"}
    BY <1>2 DEF Launch
  <2> QED BY <2>1, <2>2, SparedKept DEF Running
<1>3. CASE SetKeepAlive
  <2>1. UNCHANGED <<snap, occupant, proc>>
    BY <1>3 DEF SetKeepAlive, Acting
  <2>2. act' \in {"takeOver", "replaceTerm"} => act \in {"takeOver", "replaceTerm"}
    BY <1>3 DEF SetKeepAlive, Acting
  <2> QED BY <2>1, <2>2, SparedKept DEF Running
<1>4. CASE Activate
  BY <1>4 DEF Activate, Acting, Spared
<1>5. CASE ReadSnapshot
  BY <1>5 DEF ReadSnapshot, Acting, Spared
<1>6. CASE Inspect
  <2>1. PICK same \in BOOLEAN : act' = After(Verdict(snap, same))
    BY <1>6 DEF Inspect
  <2>2. UNCHANGED <<snap, proc, occupant>>
    BY <1>6 DEF Inspect
  <2>3. act' # "replaceTerm"
    BY <2>1, VerdictIs, AfterIs
  <2>4. act' = "takeOver" => Running(snap.pid) \/ MayBeTaken(snap)
    BY <2>1, FilesAre, VerdictIs, AfterIs, VerdictSpares
  <2> QED BY <2>2, <2>3, <2>4 DEF Spared, MayBeTaken, Running
<1>7. CASE CleanCompare
  BY <1>7 DEF CleanCompare, Spared
<1>8. CASE CleanFile
  BY <1>8, RemovalIs DEF CleanFile, Spared, Removing
<1>9. ASSUME NEW d \in Daemons, Dies(d) PROVE Spared'
  <2>1. UNCHANGED <<snap, occupant, act>>
    BY <1>9 DEF Dies, Step
  <2>2. \A e \in Daemons : Running(e) => occupant[e] = "none"
    BY PhaseIs DEF Bodies, Running
  <2> QED BY <2>1, <2>2, SparedKept
<1>10. CASE Attach
  <2>1. UNCHANGED <<occupant, proc>>
    BY <1>10 DEF Attach
  <2>2. act' \in {"takeOver", "replaceTerm"} => act = "takeOver" /\ UNCHANGED snap
    BY <1>10 DEF Attach
  <2> QED BY <2>1, <2>2 DEF Spared, MayBeTaken, Running
<1>11. CASE Terminate
  BY <1>11 DEF Terminate, Acting, Spared
<1>12. CASE Kill
  <2>1. UNCHANGED <<snap, occupant, act>>
    BY <1>12 DEF Kill
  <2>2. \A e \in Daemons : Running(e) => occupant[e] = "none"
    BY PhaseIs DEF Bodies, Running
  <2> QED BY <2>1, <2>2, SparedKept
<1>13. CASE Replaced
  BY <1>13 DEF Replaced, Stopped, Acting, Spared
<1>14. CASE Spawn
  BY <1>14 DEF Spawn, Acting, Spared
<1>15. CASE Ready
  BY <1>15 DEF Ready, Acting, Spared
<1>16. CASE Fail
  BY <1>16 DEF Fail, Acting, Spared
<1>17. CASE Failed
  BY <1>17 DEF Failed, Stopped, Acting, Spared
<1>18. CASE Quit
  BY <1>18 DEF Quit, Acting, Gone, Spared
<1>19. CASE QuitDone
  BY <1>19 DEF QuitDone, Stopped, Acting, Gone, Spared
<1>20. CASE Crash
  BY <1>20 DEF Crash, Gone, Spared
<1>21. ASSUME NEW d \in Daemons, ValidateCanStart(d) PROVE Spared'
  <2>1. UNCHANGED <<snap, occupant, act>>
    BY <1>21 DEF ValidateCanStart, Step
  <2>2. \A e \in Daemons : Running(e) => occupant[e] = "none"
    BY PhaseIs DEF Bodies, Running
  <2> QED BY <2>1, <2>2, SparedKept
<1>22. ASSUME NEW d \in Daemons, WriteFiles(d) PROVE Spared'
  <2>1. UNCHANGED <<snap, occupant, act>>
    BY <1>22 DEF WriteFiles, Step, Writes
  <2>2. \A e \in Daemons : Running(e) => occupant[e] = "none"
    BY PhaseIs DEF Bodies, Running
  <2> QED BY <2>1, <2>2, SparedKept
<1>23. ASSUME NEW d \in Daemons, ReadOwner(d) PROVE Spared'
  <2>1. UNCHANGED <<snap, occupant, act>>
    BY <1>23 DEF ReadOwner, Boots
  <2>2. \A e \in Daemons : Running(e) => occupant[e] = "none"
    BY PhaseIs DEF Bodies, Running
  <2> QED BY <2>1, <2>2, SparedKept
<1>24. ASSUME NEW d \in Daemons, WriteOwner(d) PROVE Spared'
  <2>1. UNCHANGED <<snap, occupant, act>>
    BY <1>24 DEF WriteOwner, Boots
  <2>2. \A e \in Daemons : Running(e) => occupant[e] = "none"
    BY PhaseIs DEF Bodies, Running
  <2> QED BY <2>1, <2>2, SparedKept
<1>25. ASSUME NEW d \in Daemons, Beat(d) PROVE Spared'
  <2>1. UNCHANGED <<snap, occupant, proc>>
    BY <1>25 DEF Beat, Writes
  <2>2. act' \in {"takeOver", "replaceTerm"} => act \in {"takeOver", "replaceTerm"}
    BY <1>25 DEF Beat, Writes
  <2> QED BY <2>1, <2>2, SparedKept DEF Running
<1>26. ASSUME NEW d \in Daemons, Adopt(d) PROVE Spared'
  <2>1. UNCHANGED <<snap, occupant, proc>>
    BY <1>26 DEF Adopt, Adopts, MonitorSteps
  <2>2. act' \in {"takeOver", "replaceTerm"} => act \in {"takeOver", "replaceTerm"}
    BY <1>26 DEF Adopt, Adopts, MonitorSteps
  <2> QED BY <2>1, <2>2, SparedKept DEF Running
<1>27. ASSUME NEW d \in Daemons, OwnerGone(d) PROVE Spared'
  <2>1. UNCHANGED <<snap, occupant, proc>>
    BY <1>27 DEF OwnerGone, Adopts, MonitorSteps
  <2>2. act' \in {"takeOver", "replaceTerm"} => act \in {"takeOver", "replaceTerm"}
    BY <1>27 DEF OwnerGone, Adopts, MonitorSteps
  <2> QED BY <2>1, <2>2, SparedKept DEF Running
<1>28. ASSUME NEW d \in Daemons, Decide(d) PROVE Spared'
  <2>1. UNCHANGED <<snap, occupant, act>>
    BY <1>28 DEF Decide, MonitorSteps
  <2>2. \A e \in Daemons : Running(e) => occupant[e] = "none"
    BY PhaseIs DEF Bodies, Running
  <2> QED BY <2>1, <2>2, SparedKept
<1>29. ASSUME NEW d \in Daemons, Exit(d) PROVE Spared'
  <2>1. UNCHANGED <<snap, occupant, act>>
    BY <1>29 DEF Exit, Removes, Step
  <2>2. \A e \in Daemons : Running(e) => occupant[e] = "none"
    BY PhaseIs DEF Bodies, Running
  <2> QED BY <2>1, <2>2, SparedKept
<1>30. ASSUME NEW d \in Daemons, DaemonCrash(d) PROVE Spared'
  <2>1. UNCHANGED <<snap, occupant, act>>
    BY <1>30 DEF DaemonCrash
  <2>2. \A e \in Daemons : Running(e) => occupant[e] = "none"
    BY PhaseIs DEF Bodies, Running
  <2> QED BY <2>1, <2>2, SparedKept
<1>31. ASSUME NEW d \in Daemons, Hang(d) PROVE Spared'
  <2>1. UNCHANGED <<snap, occupant, proc>>
    BY <1>31 DEF Hang
  <2>2. act' \in {"takeOver", "replaceTerm"} => act \in {"takeOver", "replaceTerm"}
    BY <1>31 DEF Hang
  <2> QED BY <2>1, <2>2, SparedKept DEF Running
<1>32. ASSUME NEW d \in Daemons, PidReused(d) PROVE Spared'
  BY <1>32 DEF PidReused, Spared
<1> QED BY <1>1, <1>2, <1>3, <1>4, <1>5, <1>6, <1>7, <1>8, <1>9, <1>10,
         <1>11, <1>12, <1>13, <1>14, <1>15, <1>16, <1>17, <1>18, <1>19,
         <1>20, <1>21, <1>22, <1>23, <1>24, <1>25, <1>26, <1>27, <1>28,
         <1>29, <1>30, <1>31, <1>32 DEF Next, DesktopNext, DaemonNext, Boot,
         Watch

LEMMA AlwaysSpared == Spec => []Spared
<1>1. Typed /\ Numbered /\ Bodies /\ [Next]_vars => Bodies'
  BY BodiesStep
<1> QED BY <1>1, SparedInit, SparedStep, AlwaysTyped, AlwaysNumbered, AlwaysReplacing,
           PTL DEF Spec

(* A replacement signals no other program that was given the process id of *)
(* a daemon, and the same one only if its start does not show that it is    *)
(* not that daemon.                                                        *)
THEOREM SparesCorrect == Spec => SparesStrangers
<1>1. Replacing /\ Spared /\ [Next]_vars =>
        [\A d \in victims' \ victims : act = "replaceTerm" =>
           /\ occupant[d] \in {"acecode", "recent"}
           /\ snap.heartbeat = d => occupant[d] = "recent"]_vars
  <2> SUFFICES ASSUME Replacing, Spared, Next, NEW d \in victims' \ victims, act = "replaceTerm"
               PROVE  /\ occupant[d] \in {"acecode", "recent"}
                      /\ snap.heartbeat = d => occupant[d] = "recent"
    OBVIOUS
  <2>1. Terminate
    BY DEF Next, DesktopNext, DaemonNext, Boot, Watch, historyVars, Launch, SetKeepAlive,
           Activate, ReadSnapshot, Inspect, CleanCompare, CleanFile, Attach, Kill,
           Replaced, Spawn, Ready, Fail, Failed, Quit, QuitDone, Crash, ValidateCanStart,
           WriteFiles, ReadOwner, WriteOwner, Boots, Beat, Adopt, OwnerGone, Decide,
           MonitorSteps, Exit, Dies, DaemonCrash, Hang, PidReused
  <2>2. d = sup /\ IsPidAlive(sup) /\ ~Running(sup)
    BY <2>1 DEF Terminate, IsPidAlive
  <2>3. sup = snap.pid /\ occupant[sup] # "none"
    BY <2>2 DEF Replacing, IsPidAlive
  <2> QED BY <2>2, <2>3 DEF Spared, MayBeTaken
<1> QED BY <1>1, AlwaysReplacing, AlwaysSpared, PTL DEF Spec, SparesStrangers
-----------------------------------------------------------------------------

(* The owner.                                                              *)
LEMMA HeedsInit == Init => Heeds /\ Held
BY DEF Init, Heeds, Held

(* A daemon of which nothing changes, beside a desktop that stays.         *)
LEMMA MindsKept ==
  ASSUME NEW d \in Daemons, Minds(d), UNCHANGED <<desktop, owner>>,
         parent'[d] = parent[d], proc'[d] = proc[d], monitor'[d] = monitor[d],
         act \in Waiting => UNCHANGED <<act, sup>>
  PROVE  Minds(d)'
BY DEF Minds, Knows

LEMMA OthersMind ==
  ASSUME Typed, Heeds, NEW d \in Daemons, UNCHANGED <<desktop, up, owner, parent, sup, act>>,
         doomed' = doomed,
         \A e \in Daemons \ {d} : proc'[e] = proc[e] /\ monitor'[e] = monitor[e],
         up /\ d \notin doomed /\ Minds(d) => Minds(d)'
  PROVE  Heeds'
BY MindsKept DEF Heeds

(* Steps of the desktop under which no daemon changes.                     *)
LEMMA DesktopMinds ==
  ASSUME Heeds, UNCHANGED <<desktop, owner, parent, proc, monitor, doomed>>, up' => up,
         act \in Waiting /\ up' => \/ UNCHANGED <<act, sup>>
                                   \/ sup = NoDaemon \/ proc[sup] \notin Ending
  PROVE  Heeds'
<1> SUFFICES ASSUME up', NEW d \in Daemons \ doomed PROVE Minds(d)'
  BY DEF Heeds
<1>1. Minds(d)
  BY DEF Heeds
<1>2. CASE act \in Waiting => UNCHANGED <<act, sup>>
  BY <1>1, <1>2, MindsKept
<1>3. CASE act \in Waiting /\ (sup = NoDaemon \/ proc[sup] \notin Ending)
  <2>1. NoDaemon \notin Daemons
    BY DEF Daemons, NoDaemon
  <2>2. proc[d] \notin Ending
    BY <1>1, <1>3, <2>1 DEF Minds
  <2> QED BY <1>1, <2>2 DEF Minds, Knows
<1> QED BY <1>2, <1>3

LEMMA HeedsStep ==
  ASSUME Typed, Typed', Numbered, Heeds, [Next]_vars
  PROVE  Heeds'
<1> USE DEF desktopVars, poolVars, bornVars, stateVars, historyVars
<1>1. CASE UNCHANGED vars
  BY <1>1 DEF vars, Heeds, Minds, Early, Ending, Knows, Booting, Exiting, Removing
<1>2. CASE Launch
  <2>1. desktop' # NoDesktop /\ owner' = desktop' /\ desktop' > desktop /\ UNCHANGED <<proc, parent, monitor>>
    BY <1>2, Counting DEF Launch, NoDesktop
  <2>2. ASSUME NEW d \in Daemons
        PROVE  monitor[d].current # desktop' /\ monitor[d].handled # desktop'
    BY <2>1, Counting DEF Numbered, Ranked
  <2>3. \A d \in Daemons \ doomed' :
          proc[d] \notin Ending /\ (proc[d] = "serving" => monitor[d].at # "decide")
    BY <1>2 DEF Launch, PastLastLook, Ending, Exiting, Removing
  <2> QED BY <2>1, <2>2, <2>3 DEF Heeds, Minds, Knows
<1>3. CASE SetKeepAlive
  <2>1. UNCHANGED <<desktop, owner, parent, proc, monitor, doomed>> /\ (up' => up)
    BY <1>3 DEF SetKeepAlive, Acting
  <2>2. act \in Waiting /\ up' => UNCHANGED <<act, sup>> \/ sup = NoDaemon \/ proc[sup] \notin Ending
    BY <1>3 DEF SetKeepAlive, Acting, Waiting
  <2> QED BY <2>1, <2>2, DesktopMinds
<1>4. CASE Activate
  <2>1. UNCHANGED <<desktop, owner, parent, proc, monitor, doomed>> /\ (up' => up)
    BY <1>4 DEF Activate, Acting
  <2>2. act \in Waiting /\ up' => UNCHANGED <<act, sup>> \/ sup = NoDaemon \/ proc[sup] \notin Ending
    BY <1>4 DEF Activate, Acting, Waiting
  <2> QED BY <2>1, <2>2, DesktopMinds
<1>5. CASE ReadSnapshot
  <2>1. UNCHANGED <<desktop, owner, parent, proc, monitor, doomed>> /\ (up' => up)
    BY <1>5 DEF ReadSnapshot, Acting
  <2>2. act \in Waiting /\ up' => UNCHANGED <<act, sup>> \/ sup = NoDaemon \/ proc[sup] \notin Ending
    BY <1>5 DEF ReadSnapshot, Acting, Waiting
  <2> QED BY <2>1, <2>2, DesktopMinds
<1>6. CASE Inspect
  <2>1. UNCHANGED <<desktop, owner, parent, proc, monitor, doomed>> /\ (up' => up)
    BY <1>6 DEF Inspect, Acting
  <2>2. act \in Waiting /\ up' => UNCHANGED <<act, sup>> \/ sup = NoDaemon \/ proc[sup] \notin Ending
    BY <1>6 DEF Inspect, Acting, Waiting
  <2> QED BY <2>1, <2>2, DesktopMinds
<1>7. CASE CleanCompare
  <2>1. UNCHANGED <<desktop, owner, parent, proc, monitor, doomed>> /\ (up' => up)
    BY <1>7 DEF CleanCompare
  <2>2. act \in Waiting /\ up' => UNCHANGED <<act, sup>> \/ sup = NoDaemon \/ proc[sup] \notin Ending
    BY <1>7 DEF CleanCompare, Waiting
  <2> QED BY <2>1, <2>2, DesktopMinds
<1>8. CASE CleanFile
  <2>1. UNCHANGED <<desktop, owner, parent, proc, monitor, doomed>> /\ (up' => up)
    BY <1>8 DEF CleanFile, Removes
  <2>2. act \in Waiting /\ up' => UNCHANGED <<act, sup>> \/ sup = NoDaemon \/ proc[sup] \notin Ending
    BY <1>8 DEF CleanFile, Waiting, Removing
  <2> QED BY <2>1, <2>2, DesktopMinds
<1>9. ASSUME NEW d \in Daemons, Dies(d) PROVE Heeds'
  <2>1. UNCHANGED <<desktop, up, owner, parent, sup, act>> /\ doomed' = doomed
    BY <1>9 DEF Dies, Step
  <2>2. PICK phase \in Phases : Becomes(d, phase) /\ (phase = "dead")
    BY <1>9 DEF Dies, Step, Phases, Live, Booting, Beating, Exiting, Removing
  <2>3. /\ \A e \in Daemons \ {d} : proc'[e] = proc[e] /\ monitor'[e] = monitor[e]
        /\ proc'[d] = phase
        /\ monitor'[d] = IF phase = "dead" THEN NoMonitor ELSE monitor[d]
    BY <2>2, BecomesIs
  <2>4. Minds(d) => Minds(d)'
    BY <2>1, <2>2, <2>3 DEF Minds, Early, Ending, Exiting, Knows, Removing
  <2> QED BY <2>1, <2>3, <2>4, OthersMind
<1>10. CASE Attach
  <2>1. UNCHANGED <<desktop, owner, parent, proc, monitor, doomed>> /\ (up' => up)
    BY <1>10 DEF Attach
  <2>2. act \in Waiting /\ up' => UNCHANGED <<act, sup>> \/ sup = NoDaemon \/ proc[sup] \notin Ending
    BY <1>10 DEF Attach, Waiting
  <2> QED BY <2>1, <2>2, DesktopMinds
<1>11. CASE Terminate
  <2>1. UNCHANGED <<desktop, up, owner, parent, sup>> /\ doomed' = doomed
    BY <1>11 DEF Terminate
  <2>2. act \notin Waiting /\ act' \in Waiting
    BY <1>11 DEF Terminate, Waiting, Acting
  <2>3. ASSUME NEW e \in Daemons, Minds(e), proc'[e] = proc[e], monitor'[e] = monitor[e] PROVE Minds(e)'
    BY <2>1, <2>2, <2>3, MindsKept
  <2>4. CASE UNCHANGED stateVars
    BY <2>1, <2>3, <2>4 DEF Heeds
  <2>5. CASE sup # NoDaemon /\ Running(sup)
    <3>1. PICK d \in Daemons : d = sup
      BY <2>5, FilesAre
    <3>2. PICK phase \in {"dead", "terminating", "killed"} \union Exiting : Becomes(d, phase)
      BY <1>11, <2>5, <3>1 DEF Terminate, Running, Live, Beating
    <3>3. /\ \A e \in Daemons \ {d} : proc'[e] = proc[e] /\ monitor'[e] = monitor[e]
          /\ proc'[d] = phase
      BY <3>2, BecomesIs DEF Phases, Live, Beating
    <3>4. Minds(d)'
      BY <2>1, <2>2, <3>1, <3>2, <3>3 DEF Minds, Early, Ending, Exiting, Removing
    <3> QED BY <2>1, <2>3, <3>3, <3>4 DEF Heeds
  <2>6. UNCHANGED stateVars \/ (sup # NoDaemon /\ Running(sup))
    BY <1>11 DEF Terminate
  <2> QED BY <2>4, <2>5, <2>6
<1>12. CASE Kill
  <2>1. PICK d \in Daemons : d = sup
    BY <1>12, FilesAre DEF Kill
  <2>2. Becomes(d, "killed") /\ UNCHANGED <<desktop, up, owner, parent, sup, act>> /\ doomed' = doomed
    BY <1>12, <2>1 DEF Kill
  <2>3. /\ \A e \in Daemons \ {d} : proc'[e] = proc[e] /\ monitor'[e] = monitor[e]
        /\ proc'[d] = "killed"
    BY <2>2, BecomesIs DEF Phases, Live
  <2>4. Minds(d)'
    BY <2>3 DEF Minds, Early, Ending, Exiting, Removing
  <2> QED BY <2>2, <2>3, <2>4, OthersMind
<1>13. CASE Replaced
  <2>1. UNCHANGED <<desktop, owner, parent, proc, monitor, doomed>> /\ (up' => up)
    BY <1>13 DEF Replaced, Stopped, Acting
  <2>2. act \in Waiting /\ up' => UNCHANGED <<act, sup>> \/ sup = NoDaemon \/ proc[sup] \notin Ending
    BY <1>13 DEF Replaced, Stopped, Acting, Waiting, IsPidAlive,
       Running, Live, Beating, Ending, Exiting, Removing
  <2> QED BY <2>1, <2>2, DesktopMinds
<1>14. CASE Spawn
  <2>1. UNCHANGED <<desktop, up, owner, doomed>> /\ up /\ act \notin Waiting
    BY <1>14 DEF Spawn, Acting, Waiting
  <2>2. CASE UNCHANGED <<stateVars, bornVars>>
    BY <2>1, <2>2, MindsKept DEF Heeds
  <2>3. CASE /\ spawned < MaxSpawns
             /\ Becomes(spawned + 1, "check")
             /\ parent' = [parent EXCEPT ![spawned + 1] = desktop]
    <3>1. PICK d \in Daemons : d = spawned + 1
      BY <2>3, BoundsIs, Counting DEF Daemons
    <3>2. /\ \A e \in Daemons \ {d} : proc'[e] = proc[e] /\ monitor'[e] = monitor[e]
          /\ proc'[d] = "check"
      BY <2>3, <3>1, BecomesIs DEF Phases, Live, Booting
    <3>3. parent'[d] = desktop /\ \A e \in Daemons \ {d} : parent'[e] = parent[e]
      BY <2>3, <3>1, FilesAre
    <3>4. Minds(d)'
      BY <2>1, <3>2, <3>3 DEF Minds, Ending, Exiting, Removing
    <3>5. ASSUME NEW e \in Daemons \ {d}, Minds(e) PROVE Minds(e)'
      BY <2>1, <3>2, <3>3, <3>5, MindsKept
    <3> QED BY <2>1, <3>4, <3>5 DEF Heeds
  <2> QED BY <1>14, <2>2, <2>3 DEF Spawn
<1>15. CASE Ready
  <2>1. UNCHANGED <<desktop, owner, parent, proc, monitor, doomed>> /\ (up' => up)
    BY <1>15 DEF Ready, Acting
  <2>2. act \in Waiting /\ up' => UNCHANGED <<act, sup>> \/ sup = NoDaemon \/ proc[sup] \notin Ending
    BY <1>15 DEF Ready, Acting, Waiting
  <2> QED BY <2>1, <2>2, DesktopMinds
<1>16. CASE Fail
  <2>1. UNCHANGED <<desktop, owner, parent, proc, monitor, doomed>> /\ (up' => up)
    BY <1>16 DEF Fail, Acting
  <2>2. act \in Waiting /\ up' => UNCHANGED <<act, sup>> \/ sup = NoDaemon \/ proc[sup] \notin Ending
    BY <1>16 DEF Fail, Acting, Waiting
  <2> QED BY <2>1, <2>2, DesktopMinds
<1>17. CASE Failed
  <2>1. UNCHANGED <<desktop, owner, parent, proc, monitor, doomed>> /\ (up' => up)
    BY <1>17 DEF Failed, Stopped, Acting
  <2>2. act \in Waiting /\ up' => UNCHANGED <<act, sup>> \/ sup = NoDaemon \/ proc[sup] \notin Ending
    BY <1>17 DEF Failed, Stopped, Acting, Waiting, IsPidAlive,
       Running, Live, Beating, Ending, Exiting, Removing
  <2> QED BY <2>1, <2>2, DesktopMinds
<1>18. CASE Quit
  <2>1. UNCHANGED <<desktop, owner, parent, proc, monitor, doomed>> /\ (up' => up)
    BY <1>18 DEF Quit, Acting, Gone
  <2>2. act \in Waiting /\ up' => UNCHANGED <<act, sup>> \/ sup = NoDaemon \/ proc[sup] \notin Ending
    BY <1>18 DEF Quit, Acting, Gone, Waiting
  <2> QED BY <2>1, <2>2, DesktopMinds
<1>19. CASE QuitDone
  <2>1. UNCHANGED <<desktop, owner, parent, proc, monitor, doomed>> /\ (up' => up)
    BY <1>19 DEF QuitDone, Stopped, Acting, Gone
  <2>2. act \in Waiting /\ up' => UNCHANGED <<act, sup>> \/ sup = NoDaemon \/ proc[sup] \notin Ending
    BY <1>19 DEF QuitDone, Stopped, Acting, Gone, Waiting, IsPidAlive,
       Running, Live, Beating, Ending, Exiting, Removing
  <2> QED BY <2>1, <2>2, DesktopMinds
<1>20. CASE Crash
  <2>1. UNCHANGED <<desktop, owner, parent, proc, monitor, doomed>> /\ (up' => up)
    BY <1>20 DEF Crash, Gone
  <2>2. act \in Waiting /\ up' => UNCHANGED <<act, sup>> \/ sup = NoDaemon \/ proc[sup] \notin Ending
    BY <1>20 DEF Crash, Gone, Waiting
  <2> QED BY <2>1, <2>2, DesktopMinds
<1>21. ASSUME NEW d \in Daemons, ValidateCanStart(d) PROVE Heeds'
  <2>1. UNCHANGED <<desktop, up, owner, parent, sup, act>> /\ doomed' = doomed
    BY <1>21 DEF ValidateCanStart
  <2>2. PICK phase \in Phases : Becomes(d, phase) /\ (proc[d] = "check" /\ phase \in {"guid", "dead"})
    BY <1>21 DEF ValidateCanStart, Step, Phases, Live, Booting, Beating, Exiting, Removing
  <2>3. /\ \A e \in Daemons \ {d} : proc'[e] = proc[e] /\ monitor'[e] = monitor[e]
        /\ proc'[d] = phase
        /\ monitor'[d] = IF phase = "dead" THEN NoMonitor ELSE monitor[d]
    BY <2>2, BecomesIs
  <2>4. Minds(d) => Minds(d)'
    BY <2>1, <2>2, <2>3 DEF Minds, Early, Ending, Exiting, Knows, Removing
  <2> QED BY <2>1, <2>3, <2>4, OthersMind
<1>22. ASSUME NEW d \in Daemons, WriteFiles(d) PROVE Heeds'
  <2>1. UNCHANGED <<desktop, up, owner, parent, sup, act>> /\ doomed' = doomed
    BY <1>22 DEF WriteFiles
  <2>2. proc[d] \in Booting => monitor[d].at = "look" /\ monitor[d].handled = NoDesktop
    BY DEF Numbered, Ranked
  <2>3. ASSUME NEW phase \in Phases \ {"dead"}, Becomes(d, phase),
               \/ proc[d] \in Early /\ phase \in Early
               \/ proc[d] = "heartbeat" /\ phase = "serving"
        PROVE  Heeds'
    <3>1. /\ \A e \in Daemons \ {d} : proc'[e] = proc[e] /\ monitor'[e] = monitor[e]
          /\ proc'[d] = phase /\ monitor'[d] = monitor[d]
      BY <2>3, BecomesIs
    <3>2. up /\ Minds(d) => Minds(d)'
      BY <2>1, <2>2, <2>3, <3>1 DEF Numbered, Shut, Booting, Minds, Early, Ending,
         Exiting, Knows, Removing
    <3> QED BY <2>1, <3>1, <3>2, OthersMind
  <2> QED BY <1>22, <2>3 DEF WriteFiles, Step, Early, Phases, Live, Booting, Beating
<1>23. ASSUME NEW d \in Daemons, ReadOwner(d) PROVE Heeds'
  <2>1. /\ UNCHANGED <<desktop, up, owner, parent, sup, act>> /\ doomed' = doomed
        /\ proc[d] = "ownerRead" /\ monitor[d] \in Monitors
    BY <1>23, Counting DEF ReadOwner, Boots
  <2>2. /\ \A e \in Daemons \ {d} : proc'[e] = proc[e] /\ monitor'[e] = monitor[e]
        /\ proc'[d] = "ownerWrite"
    BY <1>23 DEF ReadOwner, Boots, Typed, Lived
  <2>3. monitor'[d].current = IF IsUp(owner) THEN owner ELSE parent[d]
    BY <1>23, <2>1 DEF ReadOwner, Boots, Typed, Lived, Monitors
  <2>4. up /\ Minds(d) => Minds(d)'
    BY <2>1, <2>2, <2>3 DEF Minds, Early, Ending, Exiting, Knows, IsUp, Removing
  <2> QED BY <2>1, <2>2, <2>4, OthersMind
<1>24. ASSUME NEW d \in Daemons, WriteOwner(d) PROVE Heeds'
  <2>1. /\ UNCHANGED <<desktop, up, parent, sup, act>>
        /\ proc[d] = "ownerWrite" /\ monitor[d] \in Monitors
        /\ owner' = monitor[d].current
    BY <1>24, Counting DEF WriteOwner, Boots
  <2>2. /\ \A e \in Daemons \ {d} : proc'[e] = proc[e] /\ monitor'[e] = monitor[e]
        /\ proc'[d] = "heartbeat" /\ monitor'[d] = [monitor[d] EXCEPT !.current = parent[d]]
    BY <1>24 DEF WriteOwner, Boots, Typed, Lived
  <2>3. \A e \in Daemons : e \in doomed => e \in doomed'
    BY <1>24 DEF WriteOwner
  <2>4. CASE up /\ owner = desktop /\ owner # monitor[d].current
    <3>1. \A e \in Daemons \ doomed' : e # d /\ (Running(e) => Knows(e))
      BY <1>24, <2>4 DEF WriteOwner, IsUp, Knows
    <3>2. \A e \in Daemons : proc[e] \in Early => ~Knows(e)
      BY <2>4 DEF Numbered, Shut, Ranked, Knows
    <3>3. ASSUME NEW e \in Daemons \ doomed' PROVE Minds(e)'
      <4>1. Minds(e) /\ e # d /\ proc'[e] = proc[e] /\ monitor'[e] = monitor[e]
        BY <2>2, <2>3, <2>4, <3>1 DEF Heeds
      <4>2. (Knows(e) /\ proc[e] \notin Early) \/ ~Running(e)
        BY <3>1, <3>2
      <4> QED BY <2>1, <4>1, <4>2 DEF Minds, Knows, Running, Live, Booting, Beating,
                 Early, Ending
    <3> QED BY <3>3 DEF Heeds
  <2>5. CASE owner' = desktop
    <3>1. ASSUME NEW e \in Daemons \ {d}, Minds(e), up PROVE Minds(e)'
      BY <2>1, <2>2, <2>5, <3>1 DEF Minds, Knows
    <3>2. Minds(d)'
      BY <2>1, <2>2, <2>5 DEF Minds, Early, Ending, Exiting, Removing
    <3> QED BY <2>1, <2>3, <3>1, <3>2 DEF Heeds
  <2>6. CASE up /\ owner # desktop /\ owner' # desktop
    <3>1. d \in doomed
      BY <2>1, <2>6 DEF Heeds, Minds, Knows
    <3>2. ASSUME NEW e \in Daemons \ {d}, Minds(e) PROVE Minds(e)'
      BY <2>1, <2>2, <2>6, <3>2 DEF Minds, Knows
    <3> QED BY <2>1, <2>3, <2>6, <3>1, <3>2 DEF Heeds
  <2> QED BY <2>1, <2>4, <2>5, <2>6 DEF Heeds
<1>25. ASSUME NEW d \in Daemons, Beat(d) PROVE Heeds'
  <2>1. UNCHANGED <<desktop, up, owner, parent, sup, act>> /\ doomed' = doomed
    BY <1>25 DEF Beat, Writes
  <2>2. \A e \in Daemons \ {d} : proc'[e] = proc[e] /\ monitor'[e] = monitor[e]
    BY <1>25, Counting DEF Beat, Writes, Typed, Lived
  <2>3. Minds(d) => Minds(d)'
    BY <1>25, Counting DEF Beat, Writes, Typed, Lived, Minds, Early, Ending, Knows,
       Booting, Exiting, Removing
  <2> QED BY <2>1, <2>2, <2>3, OthersMind
<1>26. ASSUME NEW d \in Daemons, Adopt(d) PROVE Heeds'
  <2>1. /\ UNCHANGED <<desktop, up, owner, parent, sup, act>> /\ doomed' = doomed
        /\ proc[d] = "serving" /\ monitor[d] \in Monitors
    BY <1>26, Counting DEF Adopt, MonitorSteps
  <2>2. \A e \in Daemons \ {d} : proc'[e] = proc[e] /\ monitor'[e] = monitor[e]
    BY <1>26 DEF Adopt, MonitorSteps, Typed, Lived
  <2>3. proc'[d] = "serving" /\ monitor'[d] = [monitor[d] EXCEPT !.at = "look", !.current = owner]
    BY <1>26, <2>1 DEF Adopt, MonitorSteps, Typed, Lived
  <2>4. Minds(d)'
    <3>1. monitor'[d].at = "look" /\ monitor'[d].current = owner
      BY <2>1, <2>3 DEF Monitors
    <3>2. owner = desktop
      BY <1>26 DEF Adopt, Adopts, IsUp
    <3> QED BY <2>1, <2>3, <3>1, <3>2 DEF Minds, Early, Ending, Exiting, Knows, Removing
  <2> QED BY <2>1, <2>2, <2>4, OthersMind
<1>27. ASSUME NEW d \in Daemons, OwnerGone(d) PROVE Heeds'
  <2>1. /\ UNCHANGED <<desktop, up, owner, parent, sup, act>> /\ doomed' = doomed
        /\ proc[d] = "serving" /\ monitor[d] \in Monitors
    BY <1>27, Counting DEF OwnerGone, MonitorSteps
  <2>2. \A e \in Daemons \ {d} : proc'[e] = proc[e] /\ monitor'[e] = monitor[e]
    BY <1>27 DEF OwnerGone, MonitorSteps, Typed, Lived
  <2>3. /\ ~Adopts(d)
        /\ monitor[d].at = "look" => ~IsUp(monitor[d].current)
        /\ monitor[d].at \in {"look", "grace"}
    BY <1>27 DEF OwnerGone
  <2>4. ~(up /\ Minds(d))
    BY <2>1, <2>3 DEF Minds, Knows, Adopts, IsUp
  <2> QED BY <2>1, <2>2, <2>4, OthersMind
<1>28. ASSUME NEW d \in Daemons, Decide(d) PROVE Heeds'
  <2>1. /\ UNCHANGED <<desktop, up, owner, parent, sup, act>> /\ doomed' = doomed
        /\ proc[d] = "serving" /\ monitor[d] \in Monitors
    BY <1>28, Counting DEF Decide, MonitorSteps
  <2>2. \A e \in Daemons \ {d} : proc'[e] = proc[e] /\ monitor'[e] = monitor[e]
    BY <1>28 DEF Decide, MonitorSteps, Typed, Lived
  <2>4. ~Minds(d)
    BY <1>28, <2>1 DEF Minds, Decide
  <2> QED BY <2>1, <2>2, <2>4, OthersMind
<1>29. ASSUME NEW d \in Daemons, Exit(d) PROVE Heeds'
  <2>1. UNCHANGED <<desktop, up, owner, parent, sup, act>> /\ doomed' = doomed
    BY <1>29 DEF Exit, Removes
  <2>2. PICK phase \in Phases : Becomes(d, phase) /\ (proc[d] \in Ending /\ phase \in Ending \union {"dead"})
    BY <1>29, RemovalIs DEF Exit, Step, Ending, Phases, Live, Booting, Beating, Exiting,
         Removing
  <2>3. /\ \A e \in Daemons \ {d} : proc'[e] = proc[e] /\ monitor'[e] = monitor[e]
        /\ proc'[d] = phase
        /\ monitor'[d] = IF phase = "dead" THEN NoMonitor ELSE monitor[d]
    BY <2>2, BecomesIs
  <2>4. Minds(d) => Minds(d)'
    BY <2>1, <2>2, <2>3 DEF Minds, Early, Ending, Exiting, Knows, Removing
  <2> QED BY <2>1, <2>3, <2>4, OthersMind
<1>30. ASSUME NEW d \in Daemons, DaemonCrash(d) PROVE Heeds'
  <2>1. UNCHANGED <<desktop, up, owner, parent, sup, act>> /\ doomed' = doomed
    BY <1>30 DEF DaemonCrash
  <2>2. PICK phase \in Phases : Becomes(d, phase) /\ (phase = "dead")
    BY <1>30 DEF DaemonCrash, Phases, Live, Booting, Beating, Exiting, Removing
  <2>3. /\ \A e \in Daemons \ {d} : proc'[e] = proc[e] /\ monitor'[e] = monitor[e]
        /\ proc'[d] = phase
        /\ monitor'[d] = IF phase = "dead" THEN NoMonitor ELSE monitor[d]
    BY <2>2, BecomesIs
  <2>4. Minds(d) => Minds(d)'
    BY <2>1, <2>2, <2>3 DEF Minds, Early, Ending, Exiting, Knows, Removing
  <2> QED BY <2>1, <2>3, <2>4, OthersMind
<1>31. ASSUME NEW d \in Daemons, Hang(d) PROVE Heeds'
  <2>1. UNCHANGED <<desktop, up, owner, parent, sup, act>> /\ doomed' = doomed
    BY <1>31 DEF Hang
  <2>2. \A e \in Daemons \ {d} : proc'[e] = proc[e] /\ monitor'[e] = monitor[e]
    BY <1>31, Counting DEF Hang, Typed, Lived
  <2>3. Minds(d) => Minds(d)'
    BY <1>31, Counting DEF Hang, Typed, Lived, Minds, Early, Ending, Knows, Booting,
       Exiting, Removing
  <2> QED BY <2>1, <2>2, <2>3, OthersMind
<1>32. ASSUME NEW d \in Daemons, PidReused(d) PROVE Heeds'
  <2>1. UNCHANGED <<desktop, up, owner, parent, sup, act>> /\ doomed' = doomed
    BY <1>32 DEF PidReused
  <2>2. \A e \in Daemons \ {d} : proc'[e] = proc[e] /\ monitor'[e] = monitor[e]
    BY <1>32, Counting DEF PidReused, Typed, Lived
  <2>3. Minds(d) => Minds(d)'
    BY <1>32, Counting DEF PidReused, Typed, Lived, Minds, Early, Ending, Knows,
       Booting, Exiting, Removing
  <2> QED BY <2>1, <2>2, <2>3, OthersMind
<1> QED BY <1>1, <1>2, <1>3, <1>4, <1>5, <1>6, <1>7, <1>8, <1>9, <1>10,
         <1>11, <1>12, <1>13, <1>14, <1>15, <1>16, <1>17, <1>18, <1>19,
         <1>20, <1>21, <1>22, <1>23, <1>24, <1>25, <1>26, <1>27, <1>28,
         <1>29, <1>30, <1>31, <1>32 DEF Next, DesktopNext, DaemonNext, Boot,
         Watch

LEMMA AlwaysHeeds == Spec => []Heeds
<1>1. Init => Heeds
  BY HeedsInit
<1> QED BY <1>1, HeedsStep, AlwaysTyped, AlwaysNumbered, PTL DEF Spec

AnswersOn(n) ==
  /\ proc'[n] \in Answered \union {"killed"}
  /\ proc'[n] = "killed" => proc[n] = "killed" \/ Kill

LEMMA AnsweredStays ==
  ASSUME Typed, Numbered, NEW n \in Daemons, proc[n] \in Answered \union {"killed"},
         [Next]_vars
  PROVE  AnswersOn(n)
<1> USE DEF desktopVars, poolVars, bornVars, stateVars, historyVars
<1>1. CASE UNCHANGED vars
  BY <1>1 DEF vars, AnswersOn
<1>2. CASE Launch
  BY <1>2, FilesAre DEF Launch, AnswersOn, Answered, Ending, Exiting, Removing
<1>3. CASE SetKeepAlive
  BY <1>3, FilesAre DEF SetKeepAlive, Acting, AnswersOn, Answered, Ending, Exiting, Removing
<1>4. CASE Activate
  BY <1>4, FilesAre DEF Activate, Acting, AnswersOn, Answered, Ending, Exiting, Removing
<1>5. CASE ReadSnapshot
  BY <1>5, FilesAre DEF ReadSnapshot, Acting, AnswersOn, Answered, Ending, Exiting, Removing
<1>6. CASE Inspect
  BY <1>6, FilesAre DEF Inspect, Acting, AnswersOn, Answered, Ending, Exiting, Removing
<1>7. CASE CleanCompare
  BY <1>7, FilesAre DEF CleanCompare, AnswersOn, Answered, Ending, Exiting, Removing
<1>8. CASE CleanFile
  BY <1>8, FilesAre DEF CleanFile, Removes, AnswersOn, Answered, Ending, Exiting, Removing
<1>9. ASSUME NEW d \in Daemons, Dies(d) PROVE AnswersOn(n)
  BY <1>9, FilesAre DEF Dies, Step, Becomes, AnswersOn, Answered, Ending, Exiting, Removing
<1>10. CASE Attach
  BY <1>10, FilesAre DEF Attach, AnswersOn, Answered, Ending, Exiting, Removing
<1>11. CASE Terminate
  BY <1>11, FilesAre DEF Terminate, Acting, Becomes, Running, Live, Beating, Booting,
     AnswersOn, Answered, Ending, Exiting, Removing
<1>12. CASE Kill
  BY <1>12, FilesAre DEF Kill, Becomes, AnswersOn
<1>13. CASE Replaced
  BY <1>13, FilesAre DEF Replaced, Stopped, Acting, AnswersOn, Answered, Ending, Exiting,
       Removing
<1>14. CASE Spawn
  <2>1. CASE UNCHANGED stateVars
    BY <2>1 DEF AnswersOn
  <2>2. CASE spawned < MaxSpawns /\ Becomes(spawned + 1, "check")
    <3>1. PICK m \in Daemons : m = spawned + 1 /\ m > spawned
      BY <2>2, BoundsIs, Counting DEF Daemons
    <3>2. proc[m] = "unborn"
      BY <3>1 DEF Numbered, Ranked
    <3>3. \A e \in Daemons \ {m} : proc'[e] = proc[e]
      BY <2>2, <3>1, BecomesIs DEF Phases, Live, Booting
    <3> QED BY <3>2, <3>3 DEF AnswersOn, Answered, Ending, Exiting, Removing
  <2> QED BY <1>14, <2>1, <2>2 DEF Spawn
<1>15. CASE Ready
  BY <1>15, FilesAre DEF Ready, Acting, AnswersOn, Answered, Ending, Exiting, Removing
<1>16. CASE Fail
  BY <1>16, FilesAre DEF Fail, Acting, AnswersOn, Answered, Ending, Exiting, Removing
<1>17. CASE Failed
  BY <1>17, FilesAre DEF Failed, Stopped, Acting, AnswersOn, Answered, Ending, Exiting, Removing
<1>18. CASE Quit
  BY <1>18, FilesAre DEF Quit, Acting, Gone, AnswersOn, Answered, Ending, Exiting, Removing
<1>19. CASE QuitDone
  BY <1>19, FilesAre DEF QuitDone, Stopped, Acting, Gone, AnswersOn, Answered, Ending,
       Exiting, Removing
<1>20. CASE Crash
  BY <1>20, FilesAre DEF Crash, Gone, AnswersOn, Answered, Ending, Exiting, Removing
<1>21. ASSUME NEW d \in Daemons, ValidateCanStart(d) PROVE AnswersOn(n)
  BY <1>21, FilesAre DEF ValidateCanStart, Step, Becomes, AnswersOn, Answered, Ending,
       Exiting, Removing
<1>22. ASSUME NEW d \in Daemons, WriteFiles(d) PROVE AnswersOn(n)
  BY <1>22, FilesAre DEF WriteFiles, Step, Becomes, AnswersOn, Answered, Ending, Exiting,
       Removing
<1>23. ASSUME NEW d \in Daemons, ReadOwner(d) PROVE AnswersOn(n)
  BY <1>23, FilesAre DEF ReadOwner, Boots, AnswersOn, Answered, Ending, Exiting, Removing
<1>24. ASSUME NEW d \in Daemons, WriteOwner(d) PROVE AnswersOn(n)
  BY <1>24, FilesAre DEF WriteOwner, Boots, AnswersOn, Answered, Ending, Exiting, Removing
<1>25. ASSUME NEW d \in Daemons, Beat(d) PROVE AnswersOn(n)
  BY <1>25, FilesAre DEF Beat, Writes, AnswersOn, Answered, Ending, Exiting, Removing
<1>26. ASSUME NEW d \in Daemons, Adopt(d) PROVE AnswersOn(n)
  BY <1>26, FilesAre DEF Adopt, Adopts, MonitorSteps, AnswersOn, Answered, Ending, Exiting,
       Removing
<1>27. ASSUME NEW d \in Daemons, OwnerGone(d) PROVE AnswersOn(n)
  BY <1>27, FilesAre DEF OwnerGone, Adopts, MonitorSteps, AnswersOn, Answered, Ending,
       Exiting, Removing
<1>28. ASSUME NEW d \in Daemons, Decide(d) PROVE AnswersOn(n)
  BY <1>28, FilesAre DEF Decide, MonitorSteps, AnswersOn, Answered, Ending, Exiting, Removing
<1>29. ASSUME NEW d \in Daemons, Exit(d) PROVE AnswersOn(n)
  BY <1>29, FilesAre, RemovalIs DEF Exit, Step, Becomes, AnswersOn, Answered, Ending, Exiting,
       Removing
<1>30. ASSUME NEW d \in Daemons, DaemonCrash(d) PROVE AnswersOn(n)
  BY <1>30, FilesAre DEF DaemonCrash, Becomes, AnswersOn, Answered, Ending, Exiting, Removing
<1>31. ASSUME NEW d \in Daemons, Hang(d) PROVE AnswersOn(n)
  BY <1>31, FilesAre DEF Hang, AnswersOn, Answered, Ending, Exiting, Removing
<1>32. ASSUME NEW d \in Daemons, PidReused(d) PROVE AnswersOn(n)
  BY <1>32, FilesAre DEF PidReused, AnswersOn, Answered, Ending, Exiting, Removing
<1> QED BY <1>1, <1>2, <1>3, <1>4, <1>5, <1>6, <1>7, <1>8, <1>9, <1>10,
         <1>11, <1>12, <1>13, <1>14, <1>15, <1>16, <1>17, <1>18, <1>19,
         <1>20, <1>21, <1>22, <1>23, <1>24, <1>25, <1>26, <1>27, <1>28,
         <1>29, <1>30, <1>31, <1>32 DEF Next, DesktopNext, DaemonNext, Boot,
         Watch

LEMMA ReuseAnswers ==
  ASSUME NEW s \in FileMaps, NEW same \in BOOLEAN, Verdict(s, same) = "reuse"
  PROVE  s.pid # NoDaemon /\ proc[s.pid] \in Answered
<1>1. Reusable(s) /\ s.port = s.pid
  BY DEF Verdict
<1> QED BY <1>1 DEF Reusable, PortOpen, Beating, Answered, Ending

LEMMA HeldKept ==
  ASSUME Typed, Numbered, Held, [Next]_vars, act' = "attach" => act = "attach",
         UNCHANGED <<slot, sup, snap>>,
         slot = "running" => act' \in {"idle", "quitTerm", "quitWait"},
         slot = "running" /\ act = "quitWait" => act' = "quitWait"
  PROVE  Held'
<1> USE DEF Held
<1>1. ASSUME slot = "running"
      PROVE  proc'[sup] \in Answered \/ (act' = "quitWait" /\ proc'[sup] = "killed")
  <2>1. PICK n \in Daemons : n = sup
    BY <1>1, FilesAre
  <2>2. Kill => act = "quitWait"
    BY <1>1 DEF Kill
  <2> QED BY <1>1, <2>1, <2>2, AnsweredStays DEF AnswersOn, Answered, Ending, Exiting, Removing
<1>2. ASSUME act = "attach" PROVE proc'[snap.pid] \in Answered
  <2>1. PICK n \in Daemons : n = snap.pid
    BY <1>2, FilesAre DEF FileMaps, FileNames
  <2>2. ~Kill
    BY <1>2 DEF Kill
  <2> QED BY <1>2, <2>1, <2>2, AnsweredStays DEF AnswersOn, Answered, Ending, Exiting, Removing
<1> QED BY <1>1, <1>2

LEMMA HeldStep ==
  ASSUME Typed, Numbered, Held, [Next]_vars
  PROVE  Held'
<1> USE DEF desktopVars, poolVars, bornVars, stateVars, historyVars
<1>1. CASE UNCHANGED vars
  BY <1>1 DEF vars, Held
<1>2. CASE Launch
  BY <1>2, HeldKept DEF Launch, Held
<1>3. CASE SetKeepAlive
  BY <1>3, HeldKept DEF SetKeepAlive, Acting, Held
<1>4. CASE Activate
  BY <1>4, HeldKept DEF Activate, Acting, Held
<1>5. CASE ReadSnapshot
  BY <1>5, HeldKept DEF ReadSnapshot, Acting, Held
<1>6. CASE Inspect
  <2>1. PICK same \in BOOLEAN : act' = After(Verdict(snap, same))
    BY <1>6 DEF Inspect
  <2>2. UNCHANGED <<slot, sup, snap, proc>> /\ slot # "running"
    BY <1>6 DEF Inspect, Acting, Held
  <2>3. act' = "attach" => snap.pid # NoDaemon /\ proc[snap.pid] \in Answered
    BY <2>1, FilesAre, VerdictIs, AfterIs, ReuseAnswers
  <2> QED BY <2>2, <2>3 DEF Held
<1>7. CASE CleanCompare
  BY <1>7, HeldKept DEF CleanCompare, Held
<1>8. CASE CleanFile
  BY <1>8, HeldKept, RemovalIs DEF CleanFile, Held, Removing
<1>9. ASSUME NEW d \in Daemons, Dies(d) PROVE Held'
  <2>1. UNCHANGED <<slot, sup, snap, act>>
    BY <1>9 DEF Dies, Step
  <2> QED BY <2>1, HeldKept DEF Held
<1>10. CASE Attach
  <2>1. UNCHANGED proc /\ act' # "attach" /\ slot # "running"
    BY <1>10 DEF Attach, Held
  <2>2. CASE slot' = "running"
    <3>1. act = "attach" /\ act' = "idle" /\ sup' = snap.pid
      BY <1>10, <2>1, <2>2 DEF Attach
    <3> QED BY <2>1, <3>1 DEF Held
  <2> QED BY <2>1, <2>2 DEF Held
<1>11. CASE Terminate
  BY <1>11, HeldKept DEF Terminate, Acting, Held
<1>12. CASE Kill
  BY <1>12, HeldKept DEF Kill, Held
<1>13. CASE Replaced
  BY <1>13, HeldKept DEF Replaced, Stopped, Acting, Held
<1>14. CASE Spawn
  BY <1>14, HeldKept DEF Spawn, Acting, Held
<1>15. CASE Ready
  <2>1. UNCHANGED <<sup, proc>> /\ act' # "attach" /\ slot # "running"
    BY <1>15 DEF Ready, Acting, Held
  <2>2. CASE slot' = "running"
    <3>1. PortOpen(sup) /\ act' = "idle"
      BY <1>15, <2>1, <2>2 DEF Ready
    <3> QED BY <2>1, <3>1 DEF Held, PortOpen, Beating, Answered, Ending
  <2> QED BY <2>1, <2>2 DEF Held
<1>16. CASE Fail
  BY <1>16, HeldKept DEF Fail, Acting, Held
<1>17. CASE Failed
  BY <1>17, HeldKept DEF Failed, Stopped, Acting, Held
<1>18. CASE Quit
  BY <1>18, HeldKept DEF Quit, Acting, Gone, Held
<1>19. CASE QuitDone
  BY <1>19, HeldKept DEF QuitDone, Stopped, Acting, Gone, Held
<1>20. CASE Crash
  BY <1>20, HeldKept DEF Crash, Gone, Held
<1>21. ASSUME NEW d \in Daemons, ValidateCanStart(d) PROVE Held'
  <2>1. UNCHANGED <<slot, sup, snap, act>>
    BY <1>21 DEF ValidateCanStart, Step
  <2> QED BY <2>1, HeldKept DEF Held
<1>22. ASSUME NEW d \in Daemons, WriteFiles(d) PROVE Held'
  <2>1. UNCHANGED <<slot, sup, snap, act>>
    BY <1>22 DEF WriteFiles, Step, Writes
  <2> QED BY <2>1, HeldKept DEF Held
<1>23. ASSUME NEW d \in Daemons, ReadOwner(d) PROVE Held'
  <2>1. UNCHANGED <<slot, sup, snap, act>>
    BY <1>23 DEF ReadOwner, Boots
  <2> QED BY <2>1, HeldKept DEF Held
<1>24. ASSUME NEW d \in Daemons, WriteOwner(d) PROVE Held'
  <2>1. UNCHANGED <<slot, sup, snap, act>>
    BY <1>24 DEF WriteOwner, Boots
  <2> QED BY <2>1, HeldKept DEF Held
<1>25. ASSUME NEW d \in Daemons, Beat(d) PROVE Held'
  <2>1. UNCHANGED <<slot, sup, snap, act>>
    BY <1>25 DEF Beat, Writes
  <2> QED BY <2>1, HeldKept DEF Held
<1>26. ASSUME NEW d \in Daemons, Adopt(d) PROVE Held'
  <2>1. UNCHANGED <<slot, sup, snap, act>>
    BY <1>26 DEF Adopt, Adopts, MonitorSteps
  <2> QED BY <2>1, HeldKept DEF Held
<1>27. ASSUME NEW d \in Daemons, OwnerGone(d) PROVE Held'
  <2>1. UNCHANGED <<slot, sup, snap, act>>
    BY <1>27 DEF OwnerGone, Adopts, MonitorSteps
  <2> QED BY <2>1, HeldKept DEF Held
<1>28. ASSUME NEW d \in Daemons, Decide(d) PROVE Held'
  <2>1. UNCHANGED <<slot, sup, snap, act>>
    BY <1>28 DEF Decide, MonitorSteps
  <2> QED BY <2>1, HeldKept DEF Held
<1>29. ASSUME NEW d \in Daemons, Exit(d) PROVE Held'
  <2>1. UNCHANGED <<slot, sup, snap, act>>
    BY <1>29 DEF Exit, Removes, Step
  <2> QED BY <2>1, HeldKept DEF Held
<1>30. ASSUME NEW d \in Daemons, DaemonCrash(d) PROVE Held'
  <2>1. UNCHANGED <<slot, sup, snap, act>>
    BY <1>30 DEF DaemonCrash
  <2> QED BY <2>1, HeldKept DEF Held
<1>31. ASSUME NEW d \in Daemons, Hang(d) PROVE Held'
  <2>1. UNCHANGED <<slot, sup, snap, act>>
    BY <1>31 DEF Hang
  <2> QED BY <2>1, HeldKept DEF Held
<1>32. ASSUME NEW d \in Daemons, PidReused(d) PROVE Held'
  <2>1. UNCHANGED <<slot, sup, snap, act>>
    BY <1>32 DEF PidReused
  <2> QED BY <2>1, HeldKept DEF Held
<1> QED BY <1>1, <1>2, <1>3, <1>4, <1>5, <1>6, <1>7, <1>8, <1>9, <1>10,
         <1>11, <1>12, <1>13, <1>14, <1>15, <1>16, <1>17, <1>18, <1>19,
         <1>20, <1>21, <1>22, <1>23, <1>24, <1>25, <1>26, <1>27, <1>28,
         <1>29, <1>30, <1>31, <1>32 DEF Next, DesktopNext, DaemonNext, Boot,
         Watch

LEMMA AlwaysHeld == Spec => []Held
<1>1. Init => Held
  BY HeedsInit
<1> QED BY <1>1, HeldStep, AlwaysTyped, AlwaysNumbered, PTL DEF Spec

(* The daemon a desktop holds does not stop on account of an earlier       *)
(* owner, unless it is one of those that could not see the new one.        *)
THEOREM HeldCorrect == Spec => []HeldServes
<1>1. Typed /\ Numbered /\ Heeds /\ Held => HeldServes
  <2> SUFFICES ASSUME Typed, Numbered, Heeds, Held, slot = "running", act = "idle", sup \notin doomed
               PROVE  proc[sup] \in {"serving", "dead"}
    BY DEF HeldServes
  <2>1. PICK d \in Daemons : d = sup
    BY FilesAre DEF Held
  <2>2. up
    BY DEF Numbered, Shut
  <2>3. Minds(d)
    BY <2>1, <2>2 DEF Heeds
  <2>4. proc[d] \notin Ending
    BY <2>3 DEF Minds, Waiting
  <2> QED BY <2>1, <2>4 DEF Held, Answered
<1> QED BY <1>1, AlwaysTyped, AlwaysNumbered, AlwaysHeeds, AlwaysHeld, PTL
==============================================================================
