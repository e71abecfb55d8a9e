----------------------------- MODULE Containerd -----------------------------
(***************************************************************************)
(* The container runtime of a worker: the containerd component             *)
(* (pkg/component/worker/containerd/component.go), which restarts          *)
(* containerd when its drop-in configuration changes, the deprecation      *)
(* monitor (deprecation_monitor.go), and the OCI bundle reconciler         *)
(* (pkg/component/worker/ocibundle.go), which imports and pins the images  *)
(* of bundle files and unpins them when the files are gone.                *)
(*                                                                         *)
(* A file is the number of its modification time, or 0 if it is not there. *)
(***************************************************************************)
EXTENDS Naturals, Sequences, FiniteSets, Debounce

CONSTANTS
    Bundles,        \* the bundle files, in the order of their names
    Images,         \* images
    Contents,       \* the images in a bundle
    MaxFileChanges, \* bound: how often drop-ins and bundle files change
    MaxTroubles     \* bound: how many crashes of containerd and failed calls

VARIABLES
    cdState,        \* the component: "init", "starting", "started", "stopping" or "stopped"
    cdSupervised,   \* the supervisor is started
    cdProcess,      \* "none", "running" or "dead", to be started again
    cdLoaded,       \* the drop-ins that the process has read
    cdDropins,      \* the drop-ins on disk
    cdWatch,        \* the state of the drop-in watch (see Debounce), or "off"
    cdMissed,       \* the drop-ins changed while nobody watched
    cdRestart,      \* the restart callback: "idle", "stop", "supervise" or "failed"
    cdCondition,    \* the node condition: the drop-ins it was last derived from
    obFile,         \* the bundle files
    obSaved,        \* the bundle files that were taken away, to be put back as they were
    obImported,     \* alreadyImported
    obImage,        \* the images: whether they are there, are pinned, and their sources
    obWatch,        \* the state of the bundle watch (see Debounce)
    obPass,         \* a pass of loadAll
    obFailed,       \* something went wrong in the last pass
    cdChanges,      \* changes of files so far
    cdTroubles      \* troubles so far

cdVars == <<cdState, cdSupervised, cdProcess, cdLoaded, cdDropins, cdWatch, cdMissed, cdRestart, cdCondition>>
obVars == <<obFile, obSaved, obImported, obImage, obWatch, obPass, obFailed>>
ctVars == <<cdVars, obVars, cdChanges, cdTroubles>>

BundleSet == {Bundles[n] : n \in DOMAIN Bundles}
NoImage == [there |-> FALSE, pinned |-> FALSE, sources |-> [f \in BundleSet |-> 0]]
NoPass == [at |-> "idle", next |-> 0, files |-> {}, mod |-> 0, images |-> {}]

CtInit ==
    /\ cdState = "init"
    /\ cdSupervised = FALSE
    /\ cdProcess = "none"
    /\ cdLoaded = 0
    /\ cdDropins = 0
    /\ cdWatch = "off"
    /\ cdMissed = FALSE
    /\ cdRestart = "idle"
    /\ cdCondition = 0
    /\ obFile = [f \in BundleSet |-> 0]
    /\ obSaved = [f \in BundleSet |-> 0]
    /\ obImported = [f \in BundleSet |-> 0]
    /\ obImage = [i \in Images |-> NoImage]
    /\ obWatch = "off"
    /\ obPass = NoPass
    /\ obFailed = FALSE
    /\ cdChanges = 0
    /\ cdTroubles = 0

Trouble == cdTroubles < MaxTroubles /\ cdTroubles' = cdTroubles + 1
NoTrouble == UNCHANGED cdTroubles
Change == cdChanges < MaxFileChanges /\ cdChanges' = cdChanges + 1

-----------------------------------------------------------------------------
(***************************************************************************)
(* containerd reads the drop-ins when it starts.  The supervisor starts it *)
(* again when it has died.                                                 *)
(***************************************************************************)
Run ==
    /\ cdProcess' = "running"
    /\ cdLoaded' = cdDropins
    /\ cdMissed' = FALSE

(***************************************************************************)
(* The configuration is written unless the user manages it, which is not   *)
(* told apart here, and the process is started.  Start then waits for it   *)
(* to answer, and stops everything if it does not.                         *)
(***************************************************************************)
StartContainerd ==
    /\ cdState = "init"
    /\ cdState' = "starting"
    /\ cdSupervised' = TRUE
    /\ Run
    /\ UNCHANGED <<cdDropins, cdWatch, cdRestart, cdCondition, obVars, cdTroubles, cdChanges>>

PingContainerd ==
    /\ cdState = "starting"
    /\ \/ cdProcess = "running" /\ cdState' = "started" /\ NoTrouble
       \/ cdState' = "stopping" /\ Trouble
    /\ UNCHANGED <<cdSupervised, cdProcess, cdLoaded, cdDropins, cdWatch, cdMissed, cdRestart, cdCondition, obVars, cdChanges>>

ContainerdDies ==
    /\ cdProcess = "running"
    /\ cdProcess' = "dead"
    /\ Trouble
    /\ UNCHANGED <<cdState, cdSupervised, cdLoaded, cdDropins, cdWatch, cdMissed, cdRestart, cdCondition, obVars, cdChanges>>

Respawn ==
    /\ cdSupervised
    /\ cdProcess = "dead"
    /\ Run
    /\ UNCHANGED <<cdState, cdSupervised, cdDropins, cdWatch, cdRestart, cdCondition, obVars, cdTroubles, cdChanges>>

-----------------------------------------------------------------------------
(***************************************************************************)
(* Somebody changes the drop-ins.                                          *)
(***************************************************************************)
ChangeDropins ==
    /\ Change
    /\ cdDropins' = cdDropins + 1
    /\ cdWatch' = Notify(cdWatch)
    /\ cdMissed' = (cdMissed \/ cdWatch = "off")
    /\ UNCHANGED <<cdState, cdSupervised, cdProcess, cdLoaded, cdRestart, cdCondition, obVars, cdTroubles>>

(***************************************************************************)
(* The watch is set up again and again until the component is stopped.  It *)
(* may end with an error, and what happens before the next one is missed.  *)
(***************************************************************************)
WatchDropinConfigs ==
    /\ cdState \in {"starting", "started"}
    /\ cdWatch' = RunDebouncer(cdWatch)
    /\ UNCHANGED <<cdState, cdSupervised, cdProcess, cdLoaded, cdDropins, cdMissed, cdRestart, cdCondition, obVars, cdTroubles, cdChanges>>

DropinWatchFails ==
    /\ cdWatch \notin {"off", "callback"}
    /\ cdMissed' = (cdMissed \/ cdWatch = "pending")
    /\ cdWatch' = "off"
    /\ Trouble
    /\ UNCHANGED <<cdState, cdSupervised, cdProcess, cdLoaded, cdDropins, cdRestart, cdCondition, obVars, cdChanges>>

(***************************************************************************)
(* The restart callback.  SIGHUP ends containerd, and the supervisor       *)
(* starts it again; if there is no process to signal, the supervisor is    *)
(* stopped and started.                                                    *)
(***************************************************************************)
SignalContainerd ==
    /\ cdWatch = "pending"
    /\ cdRestart \in {"idle", "failed"}
    /\ IF cdProcess = "running"
         THEN cdProcess' = "dead" /\ cdWatch' = Consumed(cdWatch) /\ UNCHANGED cdRestart
         ELSE cdRestart' = "stop" /\ cdWatch' = "callback" /\ UNCHANGED cdProcess
    /\ UNCHANGED <<cdState, cdSupervised, cdLoaded, cdDropins, cdMissed, cdCondition, obVars, cdTroubles, cdChanges>>

(***************************************************************************)
(* Stopping the supervisor fails if it is not started, which is logged.    *)
(***************************************************************************)
StopSupervisor ==
    /\ cdSupervised' = FALSE
    /\ cdProcess' = IF cdSupervised THEN "none" ELSE cdProcess

RestartStops ==
    /\ cdRestart = "stop"
    /\ cdRestart' = "supervise"
    /\ StopSupervisor
    /\ UNCHANGED <<cdState, cdLoaded, cdDropins, cdWatch, cdMissed, cdCondition, obVars, cdTroubles, cdChanges>>

(***************************************************************************)
(* If Supervise fails, that is logged, too, and containerd stays down.     *)
(***************************************************************************)
RestartSupervises ==
    /\ cdRestart = "supervise"
    /\ cdWatch' = Consumed(cdWatch)
    /\ \/ /\ cdRestart' = "idle"
          /\ IF cdSupervised
               THEN UNCHANGED <<cdSupervised, cdProcess, cdLoaded, cdMissed>>
               ELSE cdSupervised' = TRUE /\ Run
          /\ NoTrouble
       \/ /\ ~cdSupervised
          /\ cdRestart' = "failed"
          /\ UNCHANGED <<cdSupervised, cdProcess, cdLoaded, cdMissed>>
          /\ Trouble
    /\ UNCHANGED <<cdState, cdDropins, cdCondition, obVars, cdChanges>>

(***************************************************************************)
(* Stop cancels the watch, stops the supervisor, and waits for the watch   *)
(* to end, with the callback that may be running.                          *)
(***************************************************************************)
StopContainerd ==
    /\ cdState = "started"
    /\ obWatch = "off"
    /\ cdState' = "stopping"
    /\ UNCHANGED <<cdSupervised, cdProcess, cdLoaded, cdDropins, cdWatch, cdMissed, cdRestart, cdCondition, obVars, cdTroubles, cdChanges>>

StopsSupervisor ==
    /\ cdState = "stopping"
    /\ cdState' = "waiting"
    /\ StopSupervisor
    /\ UNCHANGED <<cdLoaded, cdDropins, cdWatch, cdMissed, cdRestart, cdCondition, obVars, cdTroubles, cdChanges>>

StopWaits ==
    /\ cdState = "waiting"
    /\ cdRestart \in {"idle", "failed"}
    /\ cdState' = "stopped"
    /\ cdWatch' = "off"
    /\ UNCHANGED <<cdSupervised, cdProcess, cdLoaded, cdDropins, cdMissed, cdRestart, cdCondition, obVars, cdTroubles, cdChanges>>

-----------------------------------------------------------------------------
(***************************************************************************)
(* The deprecation monitor asks containerd for its warnings, which come    *)
(* from what it has loaded, and then updates the node, over and over.  The *)
(* two are one step: the update is refused if the node has changed, and    *)
(* the next round repeats it.                                              *)
(***************************************************************************)
ReconcileCondition ==
    /\ cdState = "started"
    /\ cdProcess = "running"
    /\ cdCondition # cdLoaded
    /\ \/ cdCondition' = cdLoaded /\ NoTrouble
       \/ UNCHANGED cdCondition /\ Trouble
    /\ UNCHANGED <<cdState, cdSupervised, cdProcess, cdLoaded, cdDropins, cdWatch, cdMissed, cdRestart, obVars, cdChanges>>

-----------------------------------------------------------------------------
(***************************************************************************)
(* The bundle directory: files are written, taken away, and put back as    *)
(* they were.                                                              *)
(***************************************************************************)
Newest(f) == IF obFile[f] > obSaved[f] THEN obFile[f] ELSE obSaved[f]

ChangeBundle(f) ==
    /\ Change
    /\ \/ /\ obFile' = [obFile EXCEPT ![f] = Newest(f) + 1]
          /\ UNCHANGED obSaved
       \/ /\ obFile[f] # 0
          /\ obFile' = [obFile EXCEPT ![f] = 0]
          /\ obSaved' = [obSaved EXCEPT ![f] = Newest(f)]
       \/ /\ obFile[f] = 0
          /\ obSaved[f] # 0
          /\ obFile' = [obFile EXCEPT ![f] = obSaved[f]]
          /\ UNCHANGED obSaved
    /\ obWatch' = Notify(obWatch)
    /\ UNCHANGED <<cdVars, obImported, obImage, obPass, obFailed, cdTroubles>>

(***************************************************************************)
(* Start installs the watch and then loads everything.  A pass of loadAll  *)
(* holds the lock, so that a callback waits for it.                        *)
(***************************************************************************)
StartBundles ==
    /\ cdState = "started"
    /\ obWatch = "off"
    /\ obPass = NoPass
    /\ obWatch' = "idle"
    /\ obPass' = [NoPass EXCEPT !.at = "read"]
    /\ UNCHANGED <<cdVars, obFile, obSaved, obImported, obImage, obFailed, cdTroubles, cdChanges>>

WatchBundles ==
    /\ obWatch = "pending"
    /\ obPass = NoPass
    /\ obWatch' = Consumed(obWatch)
    /\ obPass' = [NoPass EXCEPT !.at = "read"]
    /\ UNCHANGED <<cdVars, obFile, obSaved, obImported, obImage, obFailed, cdTroubles, cdChanges>>

(***************************************************************************)
(* loadAll lists the directory, and then looks at one file after the       *)
(* other, by name.                                                         *)
(***************************************************************************)
ReadDir ==
    /\ obPass.at = "read"
    /\ obPass' = [obPass EXCEPT !.at = "stat", !.next = 1, !.files = {f \in BundleSet : obFile[f] # 0}]
    /\ obFailed' = FALSE
    /\ UNCHANGED <<cdVars, obFile, obSaved, obImported, obImage, obWatch, cdTroubles, cdChanges>>

(***************************************************************************)
(* A file that is gone, or has been imported with this modification time,  *)
(* is skipped.                                                             *)
(***************************************************************************)
StatBundle ==
    /\ obPass.at = "stat"
    /\ obPass.next <= Len(Bundles)
    /\ LET f == Bundles[obPass.next] IN
         IF f \in obPass.files /\ obFile[f] \notin {0, obImported[f]}
           THEN obPass' = [obPass EXCEPT !.at = "load", !.mod = obFile[f]]
           ELSE obPass' = [obPass EXCEPT !.next = @ + 1]
    /\ UNCHANGED <<cdVars, obFile, obSaved, obImported, obImage, obWatch, obFailed, cdTroubles, cdChanges>>

(***************************************************************************)
(* The sources whose files still have the modification time they were      *)
(* imported with.                                                          *)
(***************************************************************************)
RefreshSources(sources) == [f \in BundleSet |-> IF obFile[f] = sources[f] THEN sources[f] ELSE 0]

SourcesExist(sources) == \E f \in BundleSet : sources[f] # 0 /\ obFile[f] = sources[f]

AddToImageSources(image, f, mod) ==
    [there |-> TRUE, pinned |-> TRUE, sources |-> [RefreshSources(image.sources) EXCEPT ![f] = mod]]

(***************************************************************************)
(* The bundle is imported from the file as it is now, and its images get   *)
(* the modification time that was read before.  The import fails if the    *)
(* file is gone or containerd does not answer for long enough.             *)
(***************************************************************************)
LoadOne ==
    /\ obPass.at = "load"
    /\ LET f == Bundles[obPass.next] IN
         \/ /\ obFile[f] # 0
            /\ cdProcess = "running"
            /\ obImage' = [i \in Images |-> IF i \in Contents[f] THEN AddToImageSources(obImage[i], f, obPass.mod) ELSE obImage[i]]
            /\ obImported' = [obImported EXCEPT ![f] = obPass.mod]
            /\ UNCHANGED obFailed
            /\ NoTrouble
         \/ /\ obFile[f] = 0
            /\ UNCHANGED <<obImage, obImported, obFailed>>
            /\ NoTrouble
         \/ /\ obFailed' = TRUE
            /\ UNCHANGED <<obImage, obImported>>
            /\ Trouble
    /\ obPass' = [obPass EXCEPT !.at = "stat", !.next = @ + 1]
    /\ UNCHANGED <<cdVars, obFile, obSaved, obWatch, cdChanges>>

(***************************************************************************)
(* After the files, the images are listed and unpinned one by one.         *)
(***************************************************************************)
ListImages ==
    /\ obPass.at = "stat"
    /\ obPass.next > Len(Bundles)
    /\ \/ /\ cdProcess = "running"
          /\ obPass' = [obPass EXCEPT !.at = "unpin", !.images = {i \in Images : obImage[i].there}]
          /\ UNCHANGED obFailed
          /\ NoTrouble
       \/ obPass' = NoPass /\ obFailed' = TRUE /\ Trouble
    /\ UNCHANGED <<cdVars, obFile, obSaved, obImported, obImage, obWatch, cdChanges>>

Unpinned(image) ==
    IF ~image.pinned \/ \A f \in BundleSet : image.sources[f] = 0 THEN image
    ELSE IF SourcesExist(image.sources) THEN [image EXCEPT !.sources = RefreshSources(@)]
    ELSE [there |-> TRUE, pinned |-> FALSE, sources |-> [f \in BundleSet |-> 0]]

UnpinOne ==
    /\ obPass.at = "unpin"
    /\ IF obPass.images = {}
         THEN obPass' = NoPass /\ UNCHANGED <<obImage, obFailed>> /\ NoTrouble
         ELSE \E i \in obPass.images :
                /\ obPass' = [obPass EXCEPT !.images = @ \ {i}]
                /\ \/ cdProcess = "running" /\ obImage' = [obImage EXCEPT ![i] = Unpinned(@)] /\ UNCHANGED obFailed /\ NoTrouble
                   \/ UNCHANGED obImage /\ obFailed' = TRUE /\ Trouble
    /\ UNCHANGED <<cdVars, obFile, obSaved, obImported, obWatch, cdChanges>>

(***************************************************************************)
(* The kubelet's garbage collection removes images that are not pinned.    *)
(***************************************************************************)
CollectImage(i) ==
    /\ obImage[i].there /\ ~obImage[i].pinned
    /\ obPass = NoPass
    /\ obImage' = [obImage EXCEPT ![i] = NoImage]
    /\ UNCHANGED <<cdVars, obFile, obSaved, obImported, obWatch, obPass, obFailed, cdTroubles, cdChanges>>

(***************************************************************************)
(* Stop waits for the callback; the worker stops this component before     *)
(* containerd.                                                             *)
(***************************************************************************)
StopBundles ==
    /\ obWatch # "off"
    /\ obPass = NoPass
    /\ obWatch' = "off"
    /\ obPass' = [NoPass EXCEPT !.at = "stopped"]
    /\ UNCHANGED <<cdVars, obFile, obSaved, obImported, obImage, obFailed, cdTroubles, cdChanges>>

-----------------------------------------------------------------------------
CtRuns ==
    \/ StartContainerd \/ PingContainerd \/ Respawn
    \/ SignalContainerd \/ RestartStops \/ RestartSupervises
    \/ StopsSupervisor \/ StopWaits

CtPass == StartBundles \/ WatchBundles \/ ReadDir \/ StatBundle \/ LoadOne \/ ListImages \/ UnpinOne

CtNext ==
    \/ CtRuns \/ ContainerdDies \/ ChangeDropins \/ WatchDropinConfigs \/ DropinWatchFails \/ StopContainerd
    \/ ReconcileCondition
    \/ CtPass \/ StopBundles
    \/ \E f \in BundleSet : ChangeBundle(f)
    \/ \E i \in Images : CollectImage(i)

CtFairness ==
    /\ WF_ctVars(CtRuns)
    /\ WF_ctVars(WatchDropinConfigs)
    /\ WF_ctVars(ReconcileCondition)

CtSpec == CtInit /\ [][CtNext]_ctVars /\ CtFairness

-----------------------------------------------------------------------------
CtTypeOK ==
    /\ cdState \in {"init", "starting", "started", "stopping", "waiting", "stopped"}
    /\ cdProcess \in {"none", "running", "dead"}
    /\ cdLoaded \in 0..cdDropins
    /\ obImported \in [BundleSet -> 0..MaxFileChanges]
    /\ obPass.at \in {"idle", "read", "stat", "load", "unpin", "stopped"}

(***************************************************************************)
(* Pins follow the bundles (ocibundle.go:147 and :178): when no event is   *)
(* pending and no pass is running, and nothing failed in the last one, an  *)
(* image is pinned if and only if a bundle that has it is there, although  *)
(* files may have changed or gone between listing them, reading their      *)
(* modification times and importing them.  A bundle that was taken away    *)
(* and put back with its old modification time is excepted:                *)
(* alreadyImported still has it (ocibundle.go:133), see BundlesArePinned.  *)
(***************************************************************************)
Quiet == obWatch = "idle" /\ obPass = NoPass /\ ~obFailed

PutBack(f) == obFile[f] # 0 /\ obFile[f] = obSaved[f]

PinsFollowBundles ==
    Quiet => \A i \in Images :
        /\ obImage[i].pinned => \E f \in BundleSet : obFile[f] # 0 /\ i \in Contents[f]
        /\ \A f \in BundleSet : obFile[f] # 0 /\ i \in Contents[f] /\ ~PutBack(f) => obImage[i].pinned

(***************************************************************************)
(* "Check that all the images in the airgap bundle have been pinned by     *)
(* k0s" (inttest/ap-airgap/airgap_test.go:191): the images of every bundle *)
(* that is there are pinned.  It does not hold for a bundle that was taken *)
(* away and put back with its old modification time.                       *)
(***************************************************************************)
BundlesArePinned ==
    Quiet => \A f \in BundleSet : obFile[f] # 0 => \A i \in Contents[f] : obImage[i].pinned

(***************************************************************************)
(* Drop-ins take effect (component.go:231): containerd ends up running     *)
(* with the drop-ins that are on disk, and the node's condition says what  *)
(* it thinks of them, however often they change and containerd dies,       *)
(* unless they changed while nobody watched, the component is stopped, or  *)
(* the last restart could not start it again, see ContainerdStaysUp.       *)
(***************************************************************************)
DropinsInEffect ==
    \/ cdState \in {"stopping", "waiting", "stopped"}
    \/ cdMissed
    \/ cdRestart = "failed"
    \/ cdProcess = "running" /\ cdLoaded = cdDropins /\ cdCondition = cdLoaded

(***************************************************************************)
(* Until the component is stopped, containerd is supervised whenever no    *)
(* restart is under way.  This does not hold: restart only logs a failing  *)
(* Supervise (component.go:270), and nobody tries again until the drop-ins *)
(* change once more.                                                       *)
(***************************************************************************)
ContainerdStaysUp == cdState = "started" /\ cdRestart \notin {"stop", "supervise"} => cdSupervised

(***************************************************************************)
(* "Stop stops containerd." (component.go:275).  It does not hold when a   *)
(* restart found no process to signal: its Supervise may come after the    *)
(* supervisor was stopped for good.                                        *)
(***************************************************************************)
StopsContainerd == cdState = "stopped" => cdProcess = "none"
=============================================================================
