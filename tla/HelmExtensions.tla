--------------------------- MODULE HelmExtensions ----------------------------
(***************************************************************************)
(* The extensions controller (pkg/component/controller/extensions_con-     *)
(* troller.go) and the Helm commands it runs (pkg/helm): a loop turns the  *)
(* Helm charts of the cluster configuration into Chart resources while     *)
(* this controller leads, and a controller-runtime manager, run as a       *)
(* leader task, installs, upgrades and uninstalls the releases.  One       *)
(* chart is modelled: the manager never works twice on the same one.       *)
(*                                                                         *)
(* External: Helm's storage of releases, the queue of controller-runtime   *)
(* and its manager, which runs only once.                                  *)
(***************************************************************************)
EXTENDS Naturals

CONSTANTS
    ChartKinds,   \* how the chart is named: "local", "oci", "repo", "bare" or "secret"
    MaxConfigs,   \* bound: the configurations written
    MaxTroubles   \* bound: failures of the API, of Helm and of the status update, lost leads, crashes

VARIABLES
    hxKind,       \* how the chart is named, one of ChartKinds
    hxSecret,     \* the Secret with the repository's configuration exists
    hxConfig,     \* helmConfig: the chart's values (0 for no chart) and whether its repository is listed
    hxConfigs,    \* the number of configurations so far
    hxTerm,       \* the number of this controller's terms as a leader, and whether it leads
    hxPeek,       \* the configuration and the term that the loop has looked at last
    hxLoop,       \* reconcileConfig: "look", "apply" or "select"
    hxOnce,       \* stackReconciledOnce, the charts reconciled last, whether to a resource being deleted
    hxCache,      \* repositoryCache: the chart's repository is in it
    hxChart,      \* the Chart resource
    hxTask,       \* the leader task: "idle", "waiting" or "managing", and the term it belongs to
    hxReleased,   \* stackReconciledOnceCh is closed
    hxManager,    \* the manager: "new", "running" or "exited"
    hxQueued,     \* a request for the chart is in the queue
    hxWork,       \* the reconciliation under way
    hxRelease,    \* the release in Helm's storage
    hxTroubles

hxVars == <<hxKind, hxSecret, hxConfig, hxConfigs, hxTerm, hxPeek, hxLoop, hxOnce, hxCache, hxChart,
            hxTask, hxReleased, hxManager, hxQueued, hxWork, hxRelease, hxTroubles>>

hxWorld == <<hxKind, hxSecret, hxConfig, hxConfigs, hxTerm>>
hxStack == <<hxPeek, hxLoop, hxOnce, hxCache>>
hxControl == <<hxTask, hxReleased, hxManager>>

NoStatus == [named |-> FALSE, hash |-> 0, error |-> FALSE]
NoChart == [exists |-> FALSE, deleting |-> FALSE, values |-> 0, repository |-> FALSE, status |-> NoStatus]
NoRelease == [status |-> "none", values |-> 0]
NoWork == [step |-> "idle", chart |-> NoChart, op |-> "none", failed |-> FALSE, named |-> FALSE]

Leading == hxTerm.leading
InTerm == Leading /\ hxTask.term = hxTerm.number

------------------------------------------------------------------------------
(* The repositories                                                        *)

(* extractRepositoryIdentifier: a local path and a bare name have none.    *)
HasRepositoryIdentifier(kind) == kind \in {"oci", "repo", "secret"}

(* repositoryCache.get by the identifier.                                  *)
CachedRepository(kind, cache) == HasRepositoryIdentifier(kind) /\ cache

(* extractAndLookupRepository: no repository is needed for a local path;   *)
(* an OCI registry may be used anonymously.                                *)
ExtractAndLookupRepository(kind, cache) ==
    CASE kind = "local" -> "none"
      [] kind = "bare" -> "error"
      [] kind = "oci" -> IF CachedRepository(kind, cache) THEN "found" ELSE "none"
      [] OTHER -> IF CachedRepository(kind, cache) THEN "found" ELSE "error"

(* loadAndMergeRepositoryConfig                                            *)
LoadAndMergeRepositoryConfig(kind, secret) == IF kind = "secret" /\ ~secret THEN "error" ELSE "found"

(* The chart's own repository comes before the cache's.                    *)
RepositoryOf(chart) ==
    IF chart.repository
      THEN LoadAndMergeRepositoryConfig(hxKind, hxSecret)
      ELSE ExtractAndLookupRepository(hxKind, hxCache)

------------------------------------------------------------------------------
(* reconcileConfig                                                         *)

HelmTrouble == hxTroubles < MaxTroubles /\ hxTroubles' = hxTroubles + 1

(* Peek at the configuration and at the leader status: there is something  *)
(* to reconcile, or the loop goes on to wait.                              *)
LoopLooks ==
    /\ hxLoop = "look"
    /\ hxPeek' = [config |-> hxConfig, configs |-> hxConfigs, term |-> hxTerm]
    /\ IF hxConfigs > 0 /\ Leading /\ ~(hxOnce.done /\ hxOnce.config = hxConfig)
         THEN /\ hxLoop' = "apply"
              /\ hxCache' = hxConfig.repository
         ELSE /\ hxLoop' = "select"
              /\ UNCHANGED hxCache
    /\ UNCHANGED <<hxWorld, hxOnce, hxChart, hxControl, hxQueued, hxWork, hxRelease, hxTroubles>>

(* reconcileStack: the Chart resource is created or changed, or pruned     *)
(* when the configuration has none: it then lives on until its finalizer   *)
(* is removed, and a chart that comes back meanwhile is applied to the     *)
(* resource that is about to go.                                           *)
ApplyStack(config) ==
    /\ hxChart' = IF config.values = 0
                    THEN IF hxChart.exists THEN [hxChart EXCEPT !.deleting = TRUE] ELSE hxChart
                    ELSE [hxChart EXCEPT !.exists = TRUE, !.values = config.values,
                                         !.repository = (hxKind = "secret" \/ CachedRepository(hxKind, hxCache))]
    /\ hxQueued' = (hxQueued \/ (hxManager = "running" /\ hxChart' # hxChart))

LoopApplies ==
    /\ hxLoop = "apply"
    /\ hxLoop' = "select"
    /\ \/ /\ hxTerm = hxPeek.term
          /\ ApplyStack(hxPeek.config)
          /\ hxOnce' = [done |-> TRUE, config |-> hxPeek.config, doomed |-> hxChart.deleting]
          /\ hxReleased' = TRUE
          /\ UNCHANGED hxTroubles
       \/ /\ IF hxTerm = hxPeek.term THEN HelmTrouble ELSE UNCHANGED hxTroubles
          /\ UNCHANGED <<hxChart, hxQueued, hxOnce, hxReleased>>
    /\ UNCHANGED <<hxWorld, hxPeek, hxCache, hxTask, hxManager, hxWork, hxRelease>>

(* The select: a new configuration, a new status (which forgets that the   *)
(* stack was reconciled) or the timer after a failure.                     *)
LoopWakes ==
    /\ hxLoop = "select"
    /\ \/ /\ hxTerm # hxPeek.term
          /\ hxOnce' = [hxOnce EXCEPT !.done = FALSE]
       \/ /\ \/ hxConfigs # hxPeek.configs
             \/ /\ hxConfigs > 0
                /\ Leading
                /\ ~(hxOnce.done /\ hxOnce.config = hxPeek.config)
          /\ UNCHANGED hxOnce
    /\ hxLoop' = "look"
    /\ UNCHANGED <<hxWorld, hxPeek, hxCache, hxChart, hxControl, hxQueued, hxWork, hxRelease, hxTroubles>>

------------------------------------------------------------------------------
(* The leader task of Start: it waits for the stack, then runs the manager *)
(* until the lead is lost.  A manager that has run before does not start.  *)

TaskStarts ==
    /\ hxTask.step = "idle"
    /\ Leading
    /\ hxTask' = [step |-> "waiting", term |-> hxTerm.number]
    /\ UNCHANGED <<hxWorld, hxStack, hxChart, hxReleased, hxManager, hxQueued, hxWork, hxRelease, hxTroubles>>

TaskRunsManager ==
    /\ hxTask.step = "waiting"
    /\ InTerm
    /\ hxReleased
    /\ hxTask' = [hxTask EXCEPT !.step = "managing"]
    /\ IF hxManager = "new"
         THEN hxManager' = "running" /\ hxQueued' = hxChart.exists
         ELSE UNCHANGED <<hxManager, hxQueued>>
    /\ UNCHANGED <<hxWorld, hxStack, hxChart, hxReleased, hxWork, hxRelease, hxTroubles>>

(* The lead is lost: the task's context is cancelled, and with it what     *)
(* Helm is doing (see HelmInterrupted); the manager waits for that.        *)
TaskEnds ==
    /\ hxTask.step # "idle"
    /\ ~InTerm
    /\ hxWork = NoWork
    /\ hxTask' = [hxTask EXCEPT !.step = "idle"]
    /\ hxManager' = IF hxManager = "running" THEN "exited" ELSE hxManager
    /\ hxQueued' = FALSE
    /\ UNCHANGED <<hxWorld, hxStack, hxChart, hxReleased, hxWork, hxRelease, hxTroubles>>

------------------------------------------------------------------------------
(* ChartReconciler                                                         *)

ChartNeedsUpgradeOnError(chart) == chart.status.error

ChartNeedsUpgrade(chart) == chart.status.error \/ chart.status.hash # chart.values

(* Reconcile: takes a request and decides what to do about the chart.      *)
ReconcileChart ==
    /\ hxManager = "running"
    /\ hxWork = NoWork
    /\ hxQueued
    /\ hxQueued' = FALSE
    /\ LET chart == hxChart
           Work(op, failed) == [step |-> IF failed THEN "status" ELSE "helm", chart |-> chart, op |-> op,
                                failed |-> failed, named |-> FALSE]
       IN hxWork' = CASE ~Leading \/ ~chart.exists -> NoWork
                      [] Leading /\ chart.exists /\ chart.deleting -> Work("uninstall", FALSE)
                      [] Leading /\ chart.exists /\ ~chart.deleting /\ RepositoryOf(chart) = "error" -> Work("none", TRUE)
                      [] Leading /\ chart.exists /\ ~chart.deleting /\ RepositoryOf(chart) # "error" ->
                           IF ~chart.status.named
                             THEN Work("install", FALSE)
                             ELSE IF ChartNeedsUpgrade(chart) THEN Work("upgrade", FALSE) ELSE NoWork
    /\ UNCHANGED <<hxWorld, hxStack, hxChart, hxControl, hxRelease, hxTroubles>>

HelmReturns(release, failed, named) ==
    /\ hxRelease' = release
    /\ hxWork' = [hxWork EXCEPT !.step = "status", !.failed = failed, !.named = named]

(* NewCommands, with the repository's index: nothing has happened yet.     *)
NewCommandsFails == HelmTrouble /\ HelmReturns(hxRelease, TRUE, hxWork.chart.status.named)

(* The chart, or what it depends on, cannot be located.                    *)
LocateChartFails(release) == HelmTrouble /\ HelmReturns(release, TRUE, hxWork.chart.status.named)

(* updateOrInstallChart without a recorded release: what a failed attempt  *)
(* has left is removed first; a release that is there already is recorded  *)
(* (the error makes the next round upgrade it).                            *)
InstallRelease ==
    /\ hxWork.op = "install"
    /\ CASE hxRelease.status \in {"deployed", "pending-upgrade"} ->
              HelmReturns(hxRelease, TRUE, TRUE) /\ UNCHANGED hxTroubles
         [] OTHER ->
              \/ /\ HelmReturns([status |-> "deployed", values |-> hxWork.chart.values], FALSE, TRUE)
                 /\ UNCHANGED hxTroubles
              \/ LocateChartFails(NoRelease)
              \/ HelmTrouble /\ HelmReturns([hxRelease EXCEPT !.status = "failed"], TRUE, FALSE)

(* UpgradeChart: rolled back when it fails; Helm refuses a release whose   *)
(* upgrade was cut off; one that is gone is installed.                     *)
UpgradeRelease ==
    /\ hxWork.op = "upgrade"
    /\ IF hxRelease.status = "pending-upgrade"
         THEN HelmReturns(hxRelease, TRUE, TRUE) /\ UNCHANGED hxTroubles
         ELSE \/ /\ HelmReturns([status |-> "deployed", values |-> hxWork.chart.values], FALSE, TRUE)
                 /\ UNCHANGED hxTroubles
              \/ LocateChartFails(hxRelease)

(* uninstall: by the recorded name.  Helm refuses the empty name of a      *)
(* chart that was never recorded as installed.                             *)
UninstallAnyError ==
    /\ hxWork.op = "uninstall"
    /\ \/ /\ hxWork.chart.status.named
          /\ HelmReturns(NoRelease, FALSE, FALSE)
          /\ UNCHANGED hxTroubles
       \/ /\ ~hxWork.chart.status.named
          /\ HelmReturns(hxRelease, FALSE, FALSE)
          /\ UNCHANGED hxTroubles

UninstallRelease ==
    /\ hxWork.op = "uninstall"
    /\ \/ /\ hxWork.chart.status.named
          /\ HelmReturns(NoRelease, FALSE, FALSE)
          /\ UNCHANGED hxTroubles
       \/ /\ IF hxWork.chart.status.named THEN HelmTrouble ELSE UNCHANGED hxTroubles
          /\ HelmReturns(IF hxRelease.status = "none" THEN NoRelease ELSE [hxRelease EXCEPT !.status =
                           IF hxWork.chart.status.named THEN "uninstalling" ELSE @], TRUE, FALSE)

HelmRuns ==
    /\ hxWork.step = "helm"
    /\ InTerm
    /\ NewCommandsFails \/ InstallRelease \/ UpgradeRelease \/ UninstallRelease
    /\ UNCHANGED <<hxWorld, hxStack, hxChart, hxControl, hxQueued>>

(* What Helm leaves behind when it is interrupted after its first write.   *)
CutShort ==
    CASE hxWork.op = "install" /\ hxRelease.status # "deployed" ->
           [status |-> "pending-install", values |-> hxWork.chart.values]
      [] hxWork.op = "upgrade" -> [hxRelease EXCEPT !.status = "pending-upgrade"]
      [] hxWork.op = "uninstall" /\ hxRelease.status # "none" /\ hxWork.chart.status.named ->
           [hxRelease EXCEPT !.status = "uninstalling"]
      [] OTHER -> hxRelease

(* The lead is lost while Helm works: the call returns, and what Helm goes *)
(* on to do in the background finds its transport interrupted.             *)
HelmInterrupted ==
    /\ hxWork.step = "helm"
    /\ ~InTerm
    /\ hxRelease' \in {hxRelease, CutShort}
    /\ hxWork' = NoWork
    /\ UNCHANGED <<hxWorld, hxStack, hxChart, hxControl, hxQueued, hxTroubles>>

(* updateStatus, on the chart as it is now; a conflict that persists is    *)
(* given up.  After an uninstallation: removeFinalizer.  An error brings   *)
(* the request back.                                                       *)
UpdatedStatus ==
    [named |-> hxChart.status.named \/ hxWork.named, hash |-> hxWork.chart.values, error |-> hxWork.failed]

WorkEnds ==
    /\ hxWork.step = "status"
    /\ IF hxWork.op = "uninstall"
         THEN /\ hxChart' = IF hxWork.failed THEN hxChart ELSE NoChart
              /\ UNCHANGED hxTroubles
         ELSE \/ /\ hxChart' = IF hxChart.exists THEN [hxChart EXCEPT !.status = UpdatedStatus] ELSE hxChart
                 /\ UNCHANGED hxTroubles
              \/ HelmTrouble /\ UNCHANGED hxChart
    /\ hxQueued' = (hxQueued \/ hxWork.failed)
    /\ hxWork' = NoWork
    /\ UNCHANGED <<hxWorld, hxStack, hxControl, hxRelease>>

------------------------------------------------------------------------------
(* The world: configurations (Reconcile hands them over), leadership, the  *)
(* Secret.                                                                 *)

ConfigArrives ==
    /\ hxConfigs < MaxConfigs
    /\ hxConfigs' = hxConfigs + 1
    /\ \E v \in 0..2, r \in BOOLEAN : hxConfig' = [values |-> v, repository |-> r]
    /\ UNCHANGED <<hxKind, hxSecret, hxTerm, hxStack, hxChart, hxControl, hxQueued, hxWork, hxRelease, hxTroubles>>

TakeLead ==
    /\ ~Leading
    /\ hxTerm' = [number |-> hxTerm.number + 1, leading |-> TRUE]
    /\ UNCHANGED <<hxKind, hxSecret, hxConfig, hxConfigs, hxStack, hxChart, hxControl, hxQueued, hxWork, hxRelease, hxTroubles>>

LoseLead ==
    /\ Leading
    /\ HelmTrouble
    /\ hxTerm' = [hxTerm EXCEPT !.leading = FALSE]
    /\ UNCHANGED <<hxKind, hxSecret, hxConfig, hxConfigs, hxStack, hxChart, hxControl, hxQueued, hxWork, hxRelease>>

(* External: k0s dies at any step and is started again.  The Chart and the *)
(* release are as they were left; the configuration is delivered anew.     *)
HelmCrash ==
    /\ HelmTrouble
    /\ hxRelease' \in {hxRelease} \cup (IF hxWork.step = "helm" THEN {CutShort} ELSE {})
    /\ hxTerm' = [number |-> 0, leading |-> FALSE]
    /\ hxPeek' = [config |-> hxConfig, configs |-> 0, term |-> hxTerm']
    /\ hxLoop' = "look" /\ hxCache' = FALSE
    /\ hxOnce' = [done |-> FALSE, config |-> hxConfig, doomed |-> FALSE]
    /\ hxTask' = [step |-> "idle", term |-> 0] /\ hxReleased' = FALSE
    /\ hxManager' = "new" /\ hxQueued' = FALSE /\ hxWork' = NoWork
    /\ UNCHANGED <<hxKind, hxSecret, hxConfig, hxConfigs, hxChart>>

SecretAppears ==
    /\ hxKind = "secret"
    /\ ~hxSecret
    /\ hxSecret' = TRUE
    /\ UNCHANGED <<hxKind, hxConfig, hxConfigs, hxTerm, hxStack, hxChart, hxControl, hxQueued, hxWork, hxRelease, hxTroubles>>

HxInit ==
    /\ hxKind \in ChartKinds
    /\ hxSecret = FALSE
    /\ hxConfig = [values |-> 0, repository |-> FALSE]
    /\ hxConfigs = 0
    /\ hxTerm = [number |-> 0, leading |-> FALSE]
    /\ hxPeek = [config |-> hxConfig, configs |-> 0, term |-> hxTerm]
    /\ hxLoop = "look"
    /\ hxOnce = [done |-> FALSE, config |-> hxConfig, doomed |-> FALSE]
    /\ hxCache = FALSE
    /\ hxChart = NoChart
    /\ hxTask = [step |-> "idle", term |-> 0]
    /\ hxReleased = FALSE
    /\ hxManager = "new"
    /\ hxQueued = FALSE
    /\ hxWork = NoWork
    /\ hxRelease = NoRelease
    /\ hxTroubles = 0

HxLoop == LoopLooks \/ LoopApplies \/ LoopWakes
HxTask == TaskStarts \/ TaskRunsManager \/ TaskEnds
HxWork == ReconcileChart \/ HelmRuns \/ HelmInterrupted \/ WorkEnds

HxNext == HxLoop \/ HxTask \/ HxWork \/ ConfigArrives \/ TakeLead \/ LoseLead \/ HelmCrash \/ SecretAppears

(* The goroutines run, and a controller gets to lead again.                *)
HxSpec ==
    /\ HxInit /\ [][HxNext]_hxVars
    /\ WF_hxVars(HxLoop) /\ WF_hxVars(HxTask) /\ WF_hxVars(HxWork) /\ WF_hxVars(TakeLead)

------------------------------------------------------------------------------
HxTypeOK ==
    /\ hxLoop \in {"look", "apply", "select"}
    /\ hxTask.step \in {"idle", "waiting", "managing"}
    /\ hxManager \in {"new", "running", "exited"}
    /\ hxWork.step \in {"idle", "helm", "status"}
    /\ hxRelease.status \in {"none", "pending-install", "pending-upgrade", "failed", "deployed", "uninstalling"}

(* A Chart resource is only gone once its release is: however an installa- *)
(* tion failed, was interrupted or went unrecorded, and wherever k0s died, *)
(* the finalizer keeps the resource while Helm's storage has a release.    *)
NoReleaseLeftBehind == hxRelease # NoRelease => hxChart.exists

(* Whether the release is what the last configuration asks for.            *)
Settled ==
    IF hxConfig.values = 0
      THEN ~hxChart.exists
      ELSE hxRelease = [status |-> "deployed", values |-> hxConfig.values]

(* What keeps a chart from being settled for good: no repository for it,   *)
(* an upgrade that was cut off, a resource deleted before its installation *)
(* was recorded, and a chart that came back while its resource was being   *)
(* deleted.                                                                *)
Stuck ==
    \/ hxConfigs = 0
    \/ hxChart.exists /\ RepositoryOf(hxChart) = "error"
    \/ hxRelease.status = "pending-upgrade"
    \/ hxChart.deleting /\ ~hxChart.status.named
    \/ hxOnce.doomed

(* In the first term as a leader since k0s was started, the release of a   *)
(* chart always catches up with the configuration, whatever fails on the   *)
(* way and whatever a crash has left behind.                               *)
ChartsSettle == []<>(Settled \/ Stuck \/ hxTerm.number > 1)

(* The comment on ExtensionsController: it "reconciles Helm extension      *)
(* repositories and charts, and keeps the Helm stack up to date as long as *)
(* leadership is held", in every term.                                     *)
ChartsSettleInEveryTerm == []<>(Settled \/ Stuck)

==============================================================================
