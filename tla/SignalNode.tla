----------------------------- MODULE SignalNode -----------------------------
(***************************************************************************)
(* The k0s update of one signal node: the autopilot reconcilers that take  *)
(* a signal annotation from "no status" through Downloading, Cordoning,    *)
(* ApplyingUpdate, Restart and UnCordoning to Completed                    *)
(* (pkg/autopilot/controller/signal/k0s, .../signal/common).               *)
(*                                                                         *)
(* Two controller managers watch the node object: the one in the node's    *)
(* own k0s process, and the one of the autopilot leader, which runs the    *)
(* (un)cordoning reconcilers for every node.  Each manager has its own     *)
(* informer cache and its own queues of reconcile requests.  A write       *)
(* carries the resource version of the cached object, so it is accepted    *)
(* only when the cache is current.                                         *)
(*                                                                         *)
(* Abstractions: PlanID and Created of a signal are one number, the time   *)
(* stamp of a status (one second resolution) is a member of Stamps and is  *)
(* kept for Restart only, the only status whose stamp the code compares.   *)
(* A reconcile is one step: its write is refused whenever the object       *)
(* changed after it was read, and what it does before the write depends    *)
(* only on what it read.                                                   *)
(***************************************************************************)
EXTENDS Naturals

CONSTANTS
    Versions,     \* k0s versions
    NoFile,       \* k0s.tmp does not exist
    Stamps,       \* values of a status time stamp that can be told apart
    MaxSignals,   \* bound: signals ever sent to the node
    MaxFaults,    \* bound: crashes, leadership changes and manager rebuilds
    Kind,         \* "worker" (Node object), "controller" (ControlNode), or
                  \* "controller+worker" (ControlNode of a --enable-worker node)
    Central,      \* the leader cordons for the node (central cordoning label)
    SignalWhen,   \* when a new signal may arrive: "idle", "finished", "any"
    LostReplies   \* an accepted write may be reported as failed

ASSUME SignalNodeAssumption ==
    /\ NoFile \notin Versions
    /\ Versions # {}
    /\ 0 \in Stamps
    /\ MaxSignals \in Nat
    /\ MaxFaults \in Nat
    /\ Kind \in {"worker", "controller", "controller+worker"}
    /\ Central \in BOOLEAN
    /\ SignalWhen \in {"idle", "finished", "any"}
    /\ LostReplies \in BOOLEAN

VARIABLES
    signal,     \* the signal annotation stored in the API server
    seen,       \* seen[m]: the annotation in the cache of manager m
    synced,     \* synced[m]: the cache of m holds the latest resource version
    queue,      \* queue[m]: controllers of m with a reconcile request
    proc,       \* the node's k0s process: "up", "stopping" (SIGTERM) or "down"
    running,    \* version of the running (or last run) k0s process
    disk,       \* version of the k0s executable
    tmp,        \* version in k0s.tmp, or NoFile
    record,     \* downloadController.completed: request of the last download
    tracker,    \* RestartTracker.initiatedData
    cordoned,   \* spec.unschedulable of the Node object
    sent,       \* signals sent so far
    faults      \* crashes, leadership changes and rebuilds so far

api   == <<signal, seen, synced, queue>>
files == <<disk, tmp>>
local == <<record, tracker>>
env   == <<sent, faults>>
vars  == <<signal, seen, synced, queue, proc, running, disk, tmp, record,
           tracker, cordoned, sent, faults>>

Managers == {"node", "leader"}

Cordoners == {"cordoning", "uncordoning"}

Controllers == {"signal", "downloading", "applying", "restart", "restarted"}
                   \cup Cordoners

Statuses == {"Absent", "None", "Downloading", "FailedDownload", "Cordoning",
             "ApplyingUpdate", "Restart", "UnCordoning", "Completed"}

Signal == [id : 0..MaxSignals, version : Versions, force : BOOLEAN,
           status : Statuses, stamp : Stamps]

Restart == [id : 0..MaxSignals, stamp : Stamps]

NoRestart == [id |-> 0, stamp |-> 0]

NeedsCordoning == Kind # "controller"

-----------------------------------------------------------------------------
(* Events and their filters *)

\* The status a controller's event filter and reconciler ask for.
Awaits(c) ==
    CASE c = "signal"      -> "None"
      [] c = "downloading" -> "Downloading"
      [] c = "cordoning"   -> "Cordoning"
      [] c = "applying"    -> "ApplyingUpdate"
      [] c = "restart"     -> "Restart"
      [] c = "restarted"   -> "Restart"
      [] c = "uncordoning" -> "UnCordoning"

ControllersOf(m) == IF m = "node" THEN Controllers ELSE Cordoners

\* Requests caused by a create event: a manager's first sight of the object.
CreateEvent(m, s) ==
    {c \in ControllersOf(m) \ {"restart"} : Awaits(c) = s.status}

\* Wrong on purpose: the restart controller also filters on annotation changes.
UpdateEventChanged(m, old, new) ==
    {c \in ControllersOf(m) \ {"restarted"} : Awaits(c) = new.status /\ old # new}

\* Requests caused by an update event.  Every filter but that of the restart
\* controller wants the annotations to have changed.
UpdateEvent(m, old, new) ==
    {c \in ControllersOf(m) \ {"restarted"} :
        Awaits(c) = new.status /\ (old # new \/ c = "restart")}

\* The cache of m catches up with the API server.
Observe(m) ==
    /\ ~synced[m]
    /\ m = "node" => proc # "down"
    /\ seen' = [seen EXCEPT ![m] = signal]
    /\ synced' = [synced EXCEPT ![m] = TRUE]
    /\ queue' = [queue EXCEPT ![m] = @ \cup UpdateEvent(m, seen[m], signal)]
    /\ UNCHANGED <<signal, proc, running, files, local, cordoned, env>>

\* The object changes without its annotations (kubelet status of a Node), or
\* the informer resyncs: an update event with an equal object.
Heartbeat ==
    /\ signal.status # "Absent"
    /\ synced' = [m \in Managers |-> FALSE]
    /\ UNCHANGED <<signal, seen, queue, proc, running, files, local, cordoned, env>>

-----------------------------------------------------------------------------
(* What the reconcilers have in common *)

\* Wrong on purpose: writes without a resource version.
CanWriteBlind(m) == TRUE

CanWrite(m) == synced[m]

\* A reconcile request of c is taken from the queue of m.
Takes(m, c) == c \in queue[m] /\ (m = "node" => proc # "down")

Drop(m, c) == queue' = [queue EXCEPT ![m] = @ \ {c}]

\* `signalData.Status != nil && signalData.Status.Status != X`
Ignored(c, s) == s.status # "None" /\ s.status # Awaits(c)

\* client.Update: accepted, accepted but the reply is lost (the reconciler sees
\* an error and is requeued), or refused (conflict or API error; requeued).
Update(m, c, s) ==
    \/ /\ CanWrite(m)
       /\ signal' = s
       /\ synced' = [x \in Managers |-> FALSE]
       /\ Drop(m, c) \/ (LostReplies /\ UNCHANGED queue)
    \/ UNCHANGED <<signal, synced, queue>>

WithStatus(s, status) == [s EXCEPT !.status = status, !.stamp = 0]

\* Early return of the reconcilers that check the status themselves.
Ignore(m, c) ==
    /\ Takes(m, c)
    /\ c # "signal"
    /\ Ignored(c, seen[m])
    /\ Drop(m, c)
    /\ UNCHANGED <<signal, seen, synced, proc, running, files, local, cordoned, env>>

-----------------------------------------------------------------------------
(* The reconcilers *)

\* Wrong on purpose: only a forced update is carried out.
SignalNextForced(s) == IF s.force THEN "Downloading" ELSE "Completed"

SignalNext(s) ==
    IF running = s.version /\ ~s.force THEN "Completed" ELSE "Downloading"

\* signal: compare versions.  For a Completed signal extractSignalData returns
\* nil, which Handle dereferences: the request is retried and never dropped.
SignalReconcile ==
    /\ Takes("node", "signal")
    /\ \/ /\ seen["node"].status = "None"
          /\ Update("node", "signal",
                    WithStatus(seen["node"], SignalNext(seen["node"])))
       \/ /\ seen["node"].status \notin {"None", "Absent", "Completed"}
          /\ Drop("node", "signal")
          /\ UNCHANGED <<signal, synced>>
    /\ UNCHANGED <<seen, proc, running, files, local, cordoned, env>>

\* Wrong on purpose: any file found is taken for the requested one.
ReusableDownloadAny(s) == tmp # NoFile

ReusableDownload(s) == record = s.id /\ tmp # NoFile

\* downloading: fetch k0s.tmp unless this manager has already fetched it for
\* the same request; the file appears by an atomic rename.
DownloadReconcile ==
    LET s == seen["node"] IN
    /\ Takes("node", "downloading")
    /\ ~Ignored("downloading", s)
    /\ \/ /\ ReusableDownload(s)
          /\ Update("node", "downloading", WithStatus(s, "Cordoning"))
          /\ UNCHANGED <<tmp, record>>
       \/ /\ ~ReusableDownload(s)
          /\ tmp' = s.version
          /\ record' = s.id
          /\ Update("node", "downloading", WithStatus(s, "Cordoning"))
       \/ /\ ~ReusableDownload(s)
          /\ Update("node", "downloading", WithStatus(s, "FailedDownload"))
          /\ UNCHANGED <<tmp, record>>
    /\ UNCHANGED <<seen, proc, running, disk, tracker, cordoned, env>>

\* isIgnored: whether m leaves the (un)cordoning to the other manager.
Responsible(m) == m = "leader" <=> Central

\* cordonUncordon.Reconcile.  Patching spec.unschedulable of a Node that is the
\* signal node itself makes the write that follows conflict.
CordonUncordon(m, c, unschedulable, nextState) ==
    /\ Takes(m, c)
    /\ ~Ignored(c, seen[m])
    /\ \/ /\ ~Responsible(m)
          /\ Drop(m, c)
          /\ UNCHANGED <<signal, synced, cordoned>>
       \/ /\ Responsible(m)
          /\ cordoned' = IF NeedsCordoning THEN unschedulable ELSE cordoned
          /\ IF Kind = "worker" /\ cordoned # unschedulable
             THEN /\ synced' = [x \in Managers |-> FALSE]
                  /\ UNCHANGED <<signal, queue>>
             ELSE Update(m, c, WithStatus(seen[m], nextState))
    /\ UNCHANGED <<seen, proc, running, files, local, env>>

\* Wrong on purpose: the node is not cordoned.
CordonForgotten(m) == CordonUncordon(m, "cordoning", FALSE, "ApplyingUpdate")

CordonReconcile(m) == CordonUncordon(m, "cordoning", TRUE, "ApplyingUpdate")

UncordonReconcile(m) == CordonUncordon(m, "uncordoning", FALSE, "Completed")

\* Hard link and rename of k0s.tmp over k0s, skipped when k0s.tmp is gone.
ReplaceBinary == disk' = IF tmp = NoFile THEN disk ELSE tmp

Initiated(s) == [id |-> s.id, stamp |-> s.stamp]

\* applying-update: replace the binary, record the pending restart, write the
\* Restart status, and remove k0s.tmp once the write is known to be accepted
\* (a failed removal is only logged).
ApplyReconcile ==
    /\ Takes("node", "applying")
    /\ ~Ignored("applying", seen["node"])
    /\ ReplaceBinary
    /\ \E t \in Stamps :
          LET s == [seen["node"] EXCEPT !.status = "Restart", !.stamp = t] IN
          /\ tracker' = Initiated(s)
          /\ Update("node", "applying", s)
    /\ tmp' \in {tmp} \cup {f \in {NoFile} : "applying" \notin queue'["node"]}
    /\ UNCHANGED <<seen, proc, running, record, cordoned, env>>

IsRestartPending(s) ==
    s.status = "Restart" /\ tracker # NoRestart /\ tracker = Initiated(s)

\* restart: SIGTERM k0s if this process wrote the Restart status.
RestartReconcile ==
    LET s == seen["node"] IN
    /\ Takes("node", "restart")
    /\ ~Ignored("restart", s)
    /\ \/ /\ running = s.version \/ (~IsRestartPending(s) /\ s.force)
          /\ Update("node", "restart", WithStatus(s, "UnCordoning"))
          /\ UNCHANGED proc
       \/ /\ running # s.version
          /\ ~(~IsRestartPending(s) /\ s.force)
          /\ proc' = IF IsRestartPending(s) THEN "stopping" ELSE proc
          /\ Drop("node", "restart")
          /\ UNCHANGED <<signal, synced>>
    /\ UNCHANGED <<seen, running, files, local, cordoned, env>>

\* restarted: the create event of a new process finds the Restart status.
RestartedReconcile ==
    LET s == seen["node"] IN
    /\ Takes("node", "restarted")
    /\ ~Ignored("restarted", s)
    /\ \/ /\ ~IsRestartPending(s)
          /\ running = s.version \/ s.force
          /\ Update("node", "restarted", WithStatus(s, "UnCordoning"))
       \/ /\ IsRestartPending(s) \/ (running # s.version /\ ~s.force)
          /\ Drop("node", "restarted")
          /\ UNCHANGED <<signal, synced>>
    /\ UNCHANGED <<seen, proc, running, files, local, cordoned, env>>

-----------------------------------------------------------------------------
(* Processes and environment *)

\* Bounded disturbances.
Fault == faults < MaxFaults /\ faults' = faults + 1

\* A manager starts with a fresh cache, empty queues and create events.
FreshManager(m) ==
    /\ seen' = [seen EXCEPT ![m] = signal]
    /\ synced' = [synced EXCEPT ![m] = TRUE]
    /\ queue' = [queue EXCEPT ![m] = CreateEvent(m, signal)]

\* The init system starts k0s again.
Start ==
    /\ proc = "down"
    /\ proc' = "up"
    /\ running' = disk
    /\ tracker' = NoRestart
    /\ record' = 0
    /\ FreshManager("node")
    /\ UNCHANGED <<signal, files, cordoned, env>>

\* The process that got SIGTERM exits.
Exit ==
    /\ proc = "stopping"
    /\ proc' = "down"
    /\ UNCHANGED <<api, running, files, local, cordoned, env>>

\* A lease event rebuilds the manager inside the running process: the restart
\* tracker survives, the download record does not.
Rebuild ==
    /\ proc = "up"
    /\ Kind # "worker"
    /\ Fault
    /\ record' = 0
    /\ FreshManager("node")
    /\ UNCHANGED <<signal, proc, running, files, tracker, cordoned, sent>>

\* Another controller becomes the autopilot leader.
LeaderChange ==
    /\ Fault
    /\ FreshManager("leader")
    /\ UNCHANGED <<signal, proc, running, files, local, cordoned, sent>>

Crash ==
    /\ proc # "down"
    /\ Fault
    /\ proc' = "down"
    /\ UNCHANGED <<api, running, files, local, cordoned, sent>>

\* k0s dies inside ApplyReconcile: after the rename, or after the write.
CrashWhileApplying ==
    /\ Takes("node", "applying")
    /\ ~Ignored("applying", seen["node"])
    /\ Fault
    /\ proc' = "down"
    /\ ReplaceBinary
    /\ \/ UNCHANGED <<signal, synced>>
       \/ /\ CanWrite("node")
          /\ \E t \in Stamps :
                signal' = [seen["node"] EXCEPT !.status = "Restart", !.stamp = t]
          /\ synced' = [m \in Managers |-> FALSE]
    /\ UNCHANGED <<seen, queue, running, tmp, local, cordoned, sent>>

Finished(s) == s.status \in {"Absent", "Completed", "FailedDownload"}

\* UpdateSignalNode: the scheduler puts fresh signal data on the node.
Send ==
    /\ sent < MaxSignals
    /\ SignalWhen # "any" => Finished(signal)
    /\ SignalWhen = "idle" => /\ \A m \in Managers : queue[m] = {} /\ synced[m]
                              /\ proc = "up"
    /\ sent' = sent + 1
    /\ \E v \in Versions, f \in BOOLEAN :
          signal' = [id |-> sent + 1, version |-> v, force |-> f,
                     status |-> "None", stamp |-> 0]
    /\ synced' = [m \in Managers |-> FALSE]
    /\ UNCHANGED <<seen, queue, proc, running, files, local, cordoned, faults>>

Init ==
    /\ running \in Versions
    /\ signal = [id |-> 0, version |-> running, force |-> FALSE,
                 status |-> "Absent", stamp |-> 0]
    /\ seen = [m \in Managers |-> signal]
    /\ synced = [m \in Managers |-> TRUE]
    /\ queue = [m \in Managers |-> {}]
    /\ proc = "up"
    /\ disk = running
    /\ tmp = NoFile
    /\ record = 0
    /\ tracker = NoRestart
    /\ cordoned = FALSE
    /\ sent = 0
    /\ faults = 0

NodeReconcile ==
    \/ SignalReconcile
    \/ DownloadReconcile
    \/ ApplyReconcile
    \/ RestartReconcile
    \/ RestartedReconcile

ManagerStep(m) ==
    \/ Observe(m)
    \/ \E c \in Controllers : Ignore(m, c)
    \/ CordonReconcile(m)
    \/ UncordonReconcile(m)

EnvStep ==
    \/ Start
    \/ Exit
    \/ Heartbeat
    \/ Rebuild
    \/ LeaderChange
    \/ Crash
    \/ CrashWhileApplying
    \/ Send

Next == NodeReconcile \/ EnvStep \/ \E m \in Managers : ManagerStep(m)

Spec == Init /\ [][Next]_vars

\* Informers deliver, the init system restarts k0s, controller-runtime retries a
\* failed reconcile until it gets through, and objects are resynced.
Fairness ==
    /\ WF_vars(Start) /\ WF_vars(Exit) /\ WF_vars(Heartbeat)
    /\ SF_vars(NodeReconcile /\ <<signal, queue>>' # <<signal, queue>>)
    /\ \A m \in Managers :
          /\ SF_vars(Observe(m))
          /\ SF_vars(CordonReconcile(m) \/ UncordonReconcile(m))

FairSpec == Spec /\ Fairness

-----------------------------------------------------------------------------
(* Properties *)

\* Every variable has its type.
TypeOK ==
    /\ signal \in Signal
    /\ seen \in [Managers -> Signal]
    /\ synced \in [Managers -> BOOLEAN]
    /\ queue \in [Managers -> SUBSET Controllers]
    /\ proc \in {"up", "stopping", "down"}
    /\ running \in Versions
    /\ disk \in Versions
    /\ tmp \in Versions \cup {NoFile}
    /\ record \in 0..MaxSignals
    /\ tracker \in Restart
    /\ cordoned \in BOOLEAN
    /\ sent \in 0..MaxSignals
    /\ faults \in 0..MaxFaults

\* A node reported Completed has the requested version installed, and a k0s
\* process that runs there runs that version (restart and restarted
\* reconcilers, whatever crashes and retries happened on the way).
CompletedMeansInstalled ==
    signal.status = "Completed" =>
        /\ disk = signal.version
        /\ proc # "down" => running = signal.version

\* A node is cordoned only while an update is being applied: a signal that
\* has ended, or has not got to Cordoning, leaves the node schedulable.
CordonedOnlyForUpdate ==
    cordoned => signal.status \in {"Cordoning", "ApplyingUpdate", "Restart",
                                   "UnCordoning"}

\* The executable is replaced, or k0s is asked to terminate.
Disturbs == disk' # disk \/ (proc = "up" /\ proc' = "stopping")

\* The apply and restart reconcilers replace the executable and terminate k0s
\* on a cordoned node only, as long as the node needs cordoning at all.
DisturbedOnlyWhenCordoned == [][Disturbs /\ NeedsCordoning => cordoned]_vars

\* k0s is terminated by the restart reconciler only when the executable on disk
\* is the requested version, so an update does not restart into the old one.
RestartIntoNewVersion ==
    [][proc = "up" /\ proc' = "stopping" => disk = signal.version]_vars

\* apply.go: "The restart controllers may never observe a 'Restart' status that
\* has been written by this process without knowing that it's pending."  A live
\* process that is older than the executable knows of the Restart status.
PendingRestartKnown ==
    signal.status = "Restart" /\ proc # "down" /\ running # disk =>
        IsRestartPending(signal)

Rank(status) ==
    CASE status = "Absent"         -> 0
      [] status = "None"           -> 1
      [] status = "Downloading"    -> 2
      [] status = "FailedDownload" -> 8
      [] status = "Cordoning"      -> 3
      [] status = "ApplyingUpdate" -> 4
      [] status = "Restart"        -> 5
      [] status = "UnCordoning"    -> 6
      [] status = "Completed"      -> 7

\* The status of a signal never goes back, whichever of the two managers, with
\* whatever stale cache or left-over request, writes it.
NoStatusRegression ==
    [][signal'.id = signal.id /\ signal' # signal =>
          Rank(signal'.status) > Rank(signal.status)]_vars

\* Every signal ends: retries, crashes and restarts do not leave a node in an
\* intermediate status for good.
EverySignalEnds == []<>Finished(signal)

\* What a node's annotations and its schedulability say of an update is true: see
\* the three conjuncts (restart.go, restarted_unix.go, cordon.go, apply.go).
NodeTellsTheTruth ==
    CompletedMeansInstalled /\ CordonedOnlyForUpdate /\ PendingRestartKnown
=============================================================================
