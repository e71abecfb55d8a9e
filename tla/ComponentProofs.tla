------------------------------ MODULE ComponentProofs -----------------------
(***************************************************************************)
(* Proofs about components that stand alone: the leader election, the      *)
(* manifest applier, the Helm extensions and the static pods of a worker.  *)
(* Each part is about one of them, and for any values of its constants.    *)
(***************************************************************************)
EXTENDS LeaderElection, Applier, HelmExtensions, StaticPods, TLAPS

\* Zenon is the prover, and SMT that of the leaves that name it.
USE ZenonT(60)

-----------------------------------------------------------------------------
(***************************************************************************)
(* The safety properties of LeaderElection, for any set of clients.        *)
(***************************************************************************)

\* What one round of client c has done so far.  The status is Leading exactly
\* from the return of the callback of leadTaken to that of the end of round;
\* the flag tells who of the two came first.
RoundInv(c) ==
    /\ round[c] = "acquire" => taken[c] = "none" /\ ~called[c]
    /\ round[c] \in {"renew", "ended"} => (called[c] <=> taken[c] \in {"leading", "done"})
    /\ round[c] \in {"deciding", "pending"} => called[c] /\ taken[c] \in {"leading", "done"}
    /\ round[c] = "pending" => taken[c] = "done"
    /\ round[c] = "off" => taken[c] # "leading" /\ (taken[c] = "started" => called[c])
    /\ status[c] = IF taken[c] = "done" /\ round[c] \notin {"off", "acquire"}
                   THEN "Leading" ELSE "Pending"

\* A pool that is closed has waited for everything.
PoolInv(c) ==
    /\ pool[c] \in {"stopped", "waiting"} => round[c] = "off" /\ tasks[c] = "off"

ElectionInv == ElectionTypeOK /\ \A c \in Clients : RoundInv(c) /\ PoolInv(c)

LEMMA ElectionInvInit == ElectionInit => ElectionInv
<1> SUFFICES ASSUME ElectionInit PROVE ElectionInv
  OBVIOUS
<1>1. acquired \in 0..MaxEvents /\ controls \in 0..MaxControls
  BY SMTT(30), ElectionAssumption DEF ElectionInit
<1>2. ElectionTypeOK
  BY <1>1 DEF ElectionInit, ElectionTypeOK, Rounds, Takens, TaskStates, Pools
<1>3. ASSUME NEW c \in Clients PROVE RoundInv(c) /\ PoolInv(c)
  BY DEF ElectionInit, RoundInv, PoolInv
<1>4. QED
  BY <1>2, <1>3 DEF ElectionInv

\* Types.
LEMMA ElectionTypeNext == ElectionTypeOK /\ [ElectionNext]_electionVars => ElectionTypeOK'
<1> SUFFICES ASSUME ElectionTypeOK, [ElectionNext]_electionVars PROVE ElectionTypeOK'
  OBVIOUS
<1> USE DEF ElectionTypeOK
<1>1. ASSUME NEW c \in Clients, Acquire(c) PROVE ElectionTypeOK'
  BY SMTT(30), <1>1, ElectionAssumption DEF Acquire, Rounds, Takens
<1>2. ASSUME NEW c \in Clients, EndRenew(c) \/ GiveUp(c) PROVE ElectionTypeOK'
  BY <1>2 DEF EndRenew, GiveUp, Rounds
<1>3. ASSUME NEW c \in Clients, LeadTaken(c) PROVE ElectionTypeOK'
  BY <1>3 DEF LeadTaken, Takens
<1>4. ASSUME NEW c \in Clients, ChangedLeading(c) \/ ChangedPending(c) PROVE ElectionTypeOK'
  BY <1>4 DEF ChangedLeading, ChangedPending, Publish, Takens, Rounds
<1>5. ASSUME NEW c \in Clients, RoundEnds(c) \/ AwaitDone(c) \/ NextRound(c) PROVE ElectionTypeOK'
  BY <1>5 DEF RoundEnds, AwaitDone, NextRound, Rounds, Takens
<1>6. ASSUME NEW c \in Clients, TaskStep(c) PROVE ElectionTypeOK'
  BY <1>6 DEF TaskStep, Look, CancelTasks, TasksReturn, AfterTasks, TaskStates, Election
<1>7. ASSUME NEW c \in Clients, ControlStep(c) PROVE ElectionTypeOK'
  BY SMTT(30), <1>7, ElectionAssumption DEF ControlStep, Start, YieldLease, StopPool, Control, Pools, Election
<1>8. ASSUME NEW c \in Clients, Resume(c) \/ Close(c) PROVE ElectionTypeOK'
  BY <1>8 DEF Resume, Close, Pools, TaskStates, Election
<1>9. CASE Expire
  BY <1>9 DEF Expire
<1>10. CASE UNCHANGED electionVars
  BY <1>10 DEF electionVars
<1>11. QED
  BY <1>1, <1>2, <1>3, <1>4, <1>5, <1>6, <1>7, <1>8, <1>9, <1>10 DEF ElectionNext, ElectionStep

\* What a step of client c leaves to the others.
LEMMA OtherClients ==
    ASSUME ElectionTypeOK, NEW c \in Clients, NEW d \in Clients, d # c,
           \/ Acquire(c) \/ ElectionStep(c) \/ TaskStep(c)
           \/ Resume(c) \/ Close(c) \/ ControlStep(c)
    PROVE  /\ round'[d] = round[d] /\ called'[d] = called[d] /\ taken'[d] = taken[d]
           /\ status'[d] = status[d] /\ tasks'[d] = tasks[d] /\ pool'[d] = pool[d]
<1> USE DEF ElectionTypeOK
<1>1. CASE Acquire(c) \/ ElectionStep(c)
  BY <1>1 DEF Acquire, ElectionStep, EndRenew, GiveUp, LeadTaken, ChangedLeading, RoundEnds,
     AwaitDone, ChangedPending, NextRound, Publish
<1>2. CASE TaskStep(c) \/ Resume(c) \/ Close(c) \/ ControlStep(c)
  BY <1>2 DEF TaskStep, Look, CancelTasks, TasksReturn, AfterTasks, Resume, Close,
     ControlStep, Start, YieldLease, StopPool, Election
<1> QED BY <1>1, <1>2

\* A step of a client keeps the invariant of its round and pool.
LEMMA OwnStep ==
    ASSUME ElectionTypeOK, NEW c \in Clients, RoundInv(c), PoolInv(c),
           \/ Acquire(c) \/ ElectionStep(c) \/ TaskStep(c)
           \/ Resume(c) \/ Close(c) \/ ControlStep(c)
    PROVE  RoundInv(c)' /\ PoolInv(c)'
<1> USE DEF ElectionTypeOK, RoundInv, PoolInv
<1>0. called[c] = TRUE \/ called[c] = FALSE
  OBVIOUS
<1>1. CASE Acquire(c)
  BY <1>1 DEF Acquire
<1>2. CASE EndRenew(c)
  BY <1>2 DEF EndRenew
<1>3. CASE GiveUp(c)
  BY <1>3 DEF GiveUp
<1>4. CASE LeadTaken(c)
  <2>1. CASE called[c] = TRUE
    <3>1. round[c] = "off"
      BY <1>4, <2>1 DEF LeadTaken, Rounds
    <3> QED BY <1>4, <2>1, <3>1 DEF LeadTaken
  <2>2. CASE called[c] = FALSE
    BY <1>4, <2>2 DEF LeadTaken
  <2> QED BY <1>0, <2>1, <2>2
<1>5. CASE ChangedLeading(c) \/ ChangedPending(c)
  BY <1>5 DEF ChangedLeading, ChangedPending, Publish, Takens
<1>6. CASE RoundEnds(c) \/ AwaitDone(c) \/ NextRound(c)
  BY <1>6 DEF RoundEnds, AwaitDone, NextRound
<1>7. CASE TaskStep(c)
  BY <1>7 DEF TaskStep, Look, CancelTasks, TasksReturn, AfterTasks, Election
<1>8. CASE Resume(c) \/ Close(c) \/ ControlStep(c)
  BY <1>8 DEF Resume, Close, Closed, Cancelled, ControlStep, Start, YieldLease, StopPool, Election
<1> QED BY <1>1, <1>2, <1>3, <1>4, <1>5, <1>6, <1>7, <1>8 DEF ElectionStep

LEMMA ElectionInvNext == ElectionInv /\ [ElectionNext]_electionVars => ElectionInv'
<1> SUFFICES ASSUME ElectionInv, [ElectionNext]_electionVars PROVE ElectionInv'
  OBVIOUS
<1>1. ElectionTypeOK /\ ElectionTypeOK'
  BY ElectionTypeNext DEF ElectionInv
<1> SUFFICES ASSUME NEW d \in Clients PROVE RoundInv(d)' /\ PoolInv(d)'
  BY <1>1 DEF ElectionInv
<1>2. RoundInv(d) /\ PoolInv(d)
  BY DEF ElectionInv
<1>3. ASSUME NEW c \in Clients,
             \/ Acquire(c) \/ ElectionStep(c) \/ TaskStep(c)
             \/ Resume(c) \/ Close(c) \/ ControlStep(c)
      PROVE  RoundInv(d)' /\ PoolInv(d)'
  <2>1. CASE d = c
    BY <1>1, <1>2, <1>3, <2>1, OwnStep
  <2>2. CASE d # c
    BY <1>1, <1>2, <1>3, <2>2, OtherClients DEF RoundInv, PoolInv
  <2> QED BY <2>1, <2>2
<1>4. CASE Expire \/ UNCHANGED electionVars
  BY <1>2, <1>4 DEF Expire, electionVars, RoundInv, PoolInv
<1> QED BY <1>3, <1>4 DEF ElectionNext

LEMMA ElectionInvHolds == ElectionSpec => []ElectionInv
BY ElectionInvInit, ElectionInvNext, PTL DEF ElectionSpec

\* The goroutine that took the lead and the end of the round are never in the
\* status callback at the same time.
THEOREM OneCallbackAtATime == ElectionSpec => []CallbacksSequential
<1>1. ElectionInv => CallbacksSequential
  BY DEF ElectionInv, RoundInv, CallbacksSequential
<1>2. QED
  BY <1>1, ElectionInvHolds, PTL

\* A client that competes for the lease, or does not run, is Pending.
THEOREM LeadEndsWithRound == ElectionSpec => []LeadingOnlyInRound
<1>1. ElectionInv => LeadingOnlyInRound
  BY DEF ElectionInv, RoundInv, LeadingOnlyInRound
<1>2. QED
  BY <1>1, ElectionInvHolds, PTL

\* Stop and YieldLease wait for everything they started.
THEOREM StopIsComplete == ElectionSpec => []ClosedIsQuiet
<1>1. ElectionInv => ClosedIsQuiet
  BY DEF ElectionInv, RoundInv, PoolInv, ClosedIsQuiet
<1>2. QED
  BY <1>1, ElectionInvHolds, PTL

\* No status is published twice in a row.
THEOREM CallbacksInOrder == ElectionSpec => StatusAlternates
<1>1. ElectionInv /\ [ElectionNext]_electionVars =>
        [\A c \in Clients : ChangedLeading(c) \/ ChangedPending(c) => status'[c] # status[c]]_electionVars
  <2> SUFFICES ASSUME ElectionInv, NEW c \in Clients, ChangedLeading(c) \/ ChangedPending(c)
               PROVE  status'[c] # status[c]
    OBVIOUS
  <2>1. RoundInv(c) /\ status \in [Clients -> {"Pending", "Leading"}]
    BY DEF ElectionInv, ElectionTypeOK
  <2>2. CASE ChangedLeading(c)
    BY <2>1, <2>2 DEF ChangedLeading, Publish, RoundInv
  <2>3. CASE ChangedPending(c)
    BY <2>1, <2>3 DEF ChangedPending, Publish, RoundInv
  <2>4. QED
    BY <2>2, <2>3
<1>2. QED
  BY <1>1, ElectionInvHolds, PTL DEF ElectionSpec, StatusAlternates

\* The callbacks come one at a time, the lead ends with its round and a closed pool
\* is quiet (client.go, leasepool.go), for any number of clients.
THEOREM ElectionIsDisciplined == ElectionSpec => []ElectionDiscipline
BY OneCallbackAtATime, LeadEndsWithRound, StopIsComplete, PTL DEF ElectionDiscipline

-----------------------------------------------------------------------------
(***************************************************************************)
(* Pruning spares the manifests, for any stacks, objects and bounds.       *)
(*                                                                         *)
(* By the time an apply gets to pruning, everything it has read is kept:   *)
(* each object leaves "todo" by being kept or by marking the apply failed, *)
(* and a failed apply does not prune.  The deletion of a stack starts from *)
(* a goroutine that is gone, and therefore without any manifests.          *)
(***************************************************************************)

\* The functions that the argument is about are functions on the stacks.
Shape ==
    /\ pc = [s \in Stacks |-> pc[s]]
    /\ want = [s \in Stacks |-> want[s]]
    /\ todo = [s \in Stacks |-> todo[s]]
    /\ keep = [s \in Stacks |-> keep[s]]
    /\ failed = [s \in Stacks |-> failed[s]]
    /\ victims = [s \in Stacks |-> victims[s]]

\* What the phase of stack s says about the objects in the manifests it has read.
Progress(s) ==
    /\ pc[s] = "off" => want[s] = Empty
    /\ pc[s] = "apply" => failed[s] = TRUE \/ DOMAIN want[s] \subseteq todo[s] \cup keep[s]
    /\ pc[s] = "find" => DOMAIN want[s] \subseteq keep[s]
    /\ pc[s] = "delete" => victims[s] \cap DOMAIN want[s] = {}

Inv == Shape /\ \A s \in Stacks : Progress(s)

\* A stack without manifests has no objects.
LEMMA EmptyDomain == DOMAIN Empty = {}
BY DEF Empty

\* No stack is applied in the beginning.
LEMMA InvInit == Init => Inv
BY DEF Init, Inv, Shape, Progress

\* An attempt that fails starts over, ends, or ends the goroutine.
LEMMA FailedAttempt ==
    ASSUME Inv, NEW s \in Stacks, AttemptFailed(s) \/ Over(s)
    PROVE  Inv'
<1>1. CASE Over(s)
  BY <1>1 DEF Over, Reset, Inv, Shape, Progress
<1>2. CASE AttemptFailed(s)
  BY <1>1, <1>2 DEF AttemptFailed, job, Inv, Shape, Progress
<1>3. QED
  BY <1>1, <1>2

\* Every step keeps the invariant: one case per action.
LEMMA InvNext == Inv /\ [Next]_vars => Inv'
<1> SUFFICES ASSUME Inv, [Next]_vars PROVE Inv'
  OBVIOUS
<1> USE DEF Inv, Shape
<1>1. CASE UNCHANGED <<pc, job>>
  BY <1>1 DEF job, Progress
<1>2. ASSUME NEW s \in Stacks, RemoveDirectory(s) \/ Debounce(s) \/ \E m \in Manifests[s] : WriteManifests(s, m)
      PROVE  Inv'
  BY <1>1, <1>2 DEF RemoveDirectory, Debounce, WriteManifests
<1>3. ASSUME LeadChanges \/ WatcherError PROVE Inv'
  BY <1>1, <1>3 DEF LeadChanges, WatcherError
<1>4. ASSUME WatchLoop PROVE Inv'
  <2>1. CASE StartSession \/ FinishSession
    BY <1>1, <2>1 DEF StartSession, FinishSession
  <2>2. CASE ListDirectories
    BY SMTT(30), <2>2 DEF ListDirectories, CreateStack, job, Progress
  <2>3. CASE HandleEvent
    BY SMTT(30), <2>3 DEF HandleEvent, CreateStack, job, Progress
  <2>4. CASE BeginDelete
    BY <2>4, EmptyDomain DEF BeginDelete, job, Progress
  <2>5. QED
    BY <1>4, <2>1, <2>2, <2>3, <2>4 DEF WatchLoop
<1>5. ASSUME NEW s \in Stacks, Run(s) \/ BeginApply(s) PROVE Inv'
  BY SMTT(30), <1>5 DEF Run, BeginApply, job, Progress
<1>6. ASSUME NEW s \in Stacks, StackWatcherError(s) PROVE Inv'
  BY <1>6 DEF StackWatcherError, Reset, Progress
<1>7. ASSUME NEW s \in Stacks, Stop(s) PROVE Inv'
  BY <1>7, FailedAttempt DEF Stop
<1>8. ASSUME NEW s \in Stacks, Read(s) PROVE Inv'
  <2>1. CASE AttemptFailed(s)
    BY <2>1, FailedAttempt
  <2>2. CASE ~AttemptFailed(s)
    BY SMTT(30), <1>8, <2>2 DEF Read, Progress
  <2>3. QED
    BY <2>1, <2>2
<1>9. ASSUME NEW s \in Stacks, NEW o \in Objects, Put(s, o) PROVE Inv'
  <2>0. /\ todo' = [todo EXCEPT ![s] = @ \ {o}]
        /\ UNCHANGED <<pc, want, victims>>
    BY <1>9 DEF Put
  <2>1. CASE failed' = [failed EXCEPT ![s] = TRUE] /\ UNCHANGED keep
    BY <2>0, <2>1 DEF Progress
  <2>2. CASE keep' = [keep EXCEPT ![s] = @ \cup {o}] /\ UNCHANGED failed
    BY <2>0, <2>2 DEF Progress
  <2>3. QED
    BY <1>9, <2>1, <2>2 DEF Put
<1>10. ASSUME NEW s \in Stacks, EndPuts(s) PROVE Inv'
  <2>1. CASE AttemptFailed(s)
    BY <2>1, FailedAttempt
  <2>2. CASE ~AttemptFailed(s)
    BY <1>10, <2>2 DEF EndPuts, job, Progress
  <2>3. QED
    BY <2>1, <2>2
<1>11. ASSUME NEW s \in Stacks, Find(s) PROVE Inv'
  <2>1. CASE AttemptFailed(s)
    BY <2>1, FailedAttempt
  <2>2. CASE ~AttemptFailed(s)
    BY SMTT(30), <1>11, <2>2 DEF Find, Found, Pruneable, Progress
  <2>3. QED
    BY <2>1, <2>2
<1>12. ASSUME NEW s \in Stacks, NEW o \in Objects, Delete(s, o) PROVE Inv'
  <2>1. CASE AttemptFailed(s)
    BY <2>1, FailedAttempt
  <2>2. CASE ~AttemptFailed(s)
    BY <1>12, <2>2 DEF Delete, Progress
  <2>3. QED
    BY <2>1, <2>2
<1>13. ASSUME NEW s \in Stacks, Finish(s) PROVE Inv'
  <2>1. CASE Over(s)
    BY <2>1, FailedAttempt
  <2>2. CASE ~Over(s)
    BY <1>13, <2>2 DEF Finish, job, Progress
  <2>3. QED
    BY <2>1, <2>2
<1>14. ASSUME NEW o \in Objects, Vanish(o) PROVE Inv'
  BY <1>1, <1>14 DEF Vanish, job
<1>15. CASE UNCHANGED vars
  BY <1>1, <1>15 DEF vars
<1>16. QED
  BY <1>2, <1>3, <1>4, <1>5, <1>6, <1>7, <1>8, <1>9, <1>10, <1>11, <1>12, <1>13, <1>14, <1>15
     DEF Next, Environment, Deletion, Apply

\* Stack.prune never deletes an object that is in the manifests that this apply has
\* read, whatever fails and whoever else writes.
THEOREM PruningIsSafe == Spec => []PruneSparesManifests
<1>1. Inv => PruneSparesManifests
  BY DEF Inv, Progress, PruneSparesManifests
<1>2. QED
  BY <1>1, InvInit, InvNext, PTL DEF Spec

-----------------------------------------------------------------------------
(***************************************************************************)
(* A Chart resource outlives its release (pkg/component/controller/        *)
(* extensions_controller.go), for any number of configurations and faults. *)
(* The invariant is inductive once it says what the reconciler knows while *)
(* it works: the resource is there, and after an uninstallation without an *)
(* error the release is gone.                                              *)
(***************************************************************************)

\* The records have their fields, whatever is in them.
Shapes ==
    /\ hxChart = [exists |-> hxChart.exists, deleting |-> hxChart.deleting, values |-> hxChart.values,
                  repository |-> hxChart.repository, status |-> hxChart.status]
    /\ hxWork = [step |-> hxWork.step, chart |-> hxWork.chart, op |-> hxWork.op,
                 failed |-> hxWork.failed, named |-> hxWork.named]

\* Only the reconciler lets a resource go, so it is there while it works on it.
Working == hxWork.step # "idle" => hxChart.exists

\* An uninstallation that did not fail has removed the release.
Uninstalled ==
    hxWork.step = "status" /\ hxWork.op = "uninstall" /\ ~hxWork.failed => hxRelease = NoRelease

HxInv == Shapes /\ Working /\ Uninstalled /\ NoReleaseLeftBehind

-----------------------------------------------------------------------------
\* There is neither a chart nor work in the beginning.
LEMMA HxInvInit == HxInit => HxInv
BY SMTT(30) DEF HxInit, HxInv, Shapes, Working, Uninstalled, NoReleaseLeftBehind, NoWork, NoChart

\* The loop only adds to the resource: it never takes it away (reconcileStack).
LEMMA LoopKeeps == ASSUME HxInv, HxLoop PROVE HxInv'
<1>1. CASE LoopLooks \/ LoopWakes
  BY <1>1 DEF LoopLooks, LoopWakes, HxInv, Shapes, Working, Uninstalled, NoReleaseLeftBehind
<1>2. CASE LoopApplies
  <2>1. CASE hxChart' = hxChart
    BY <1>2, <2>1 DEF LoopApplies, HxInv, Shapes, Working, Uninstalled, NoReleaseLeftBehind
  <2>2. CASE ApplyStack(hxPeek.config)
    <3>1. Shapes' /\ (hxChart.exists => hxChart'.exists)
      BY <1>2, <2>2 DEF LoopApplies, ApplyStack, HxInv, Shapes
    <3>2. QED
      BY <1>2, <3>1 DEF LoopApplies, HxInv, Working, Uninstalled, NoReleaseLeftBehind
  <2>3. QED
    BY <1>2, <2>1, <2>2 DEF LoopApplies
<1>3. QED
  BY <1>1, <1>2 DEF HxLoop

\* The leader task has no part in charts and releases.
LEMMA TaskKeeps == ASSUME HxInv, HxTask PROVE HxInv'
BY DEF HxTask, TaskStarts, TaskRunsManager, TaskEnds, HxInv, Shapes, Working, Uninstalled, NoReleaseLeftBehind

\* Reconcile sets out to work only if the resource is there.
LEMMA ReconcileKeeps == ASSUME HxInv, ReconcileChart PROVE HxInv'
<1>1. /\ hxWork' = [step |-> hxWork'.step, chart |-> hxWork'.chart, op |-> hxWork'.op,
                    failed |-> hxWork'.failed, named |-> hxWork'.named]
      /\ hxWork'.step # "idle" => hxChart.exists
      /\ ~(hxWork'.step = "status" /\ ~hxWork'.failed)
  BY DEF ReconcileChart, NoWork, HxInv
<1>2. QED
  BY <1>1 DEF ReconcileChart, HxInv, Shapes, Working, Uninstalled, NoReleaseLeftBehind

\* Helm changes releases while the resource is there.
LEMMA HelmKeeps == ASSUME HxInv, HelmRuns \/ HelmInterrupted PROVE HxInv'
<1>1. hxChart' = hxChart /\ hxChart.exists
  BY DEF HelmRuns, HelmInterrupted, HxInv, Working
<1>2. CASE HelmInterrupted
  BY <1>1, <1>2 DEF HelmInterrupted, NoWork, HxInv, Shapes, Working, Uninstalled, NoReleaseLeftBehind
<1>3. CASE HelmRuns
  <2>1. PICK release, f, named :
          /\ HelmReturns(release, f, named)
          /\ hxWork.op = "uninstall" /\ ~f => release = NoRelease
    BY <1>3 DEF HelmRuns, NewCommandsFails, LocateChartFails, InstallRelease, UpgradeRelease, UninstallRelease
  <2>2. QED
    BY <1>1, <2>1 DEF HelmReturns, HxInv, Shapes, Working, Uninstalled, NoReleaseLeftBehind
<1>4. QED
  BY <1>2, <1>3

\* The finalizer is removed after an uninstallation without an error only.
LEMMA WorkEndsKeeps == ASSUME HxInv, WorkEnds PROVE HxInv'
<1>1. CASE hxWork.op = "uninstall" /\ ~hxWork.failed
  BY SMTT(30), <1>1 DEF WorkEnds, NoWork, NoChart, HxInv, Shapes, Working, Uninstalled, NoReleaseLeftBehind
<1>2. CASE hxWork.op # "uninstall" \/ hxWork.failed
  <2>1. Shapes' /\ hxChart'.exists = hxChart.exists
    BY <1>2 DEF WorkEnds, NoWork, HxInv, Shapes
  <2>2. QED
    BY <2>1 DEF WorkEnds, NoWork, HxInv, Working, Uninstalled, NoReleaseLeftBehind
<1>3. QED
  BY <1>1, <1>2

\* A crash ends the work; Helm leaves something behind only if it was working.
LEMMA HelmCrashKeeps == ASSUME HxInv, HelmCrash PROVE HxInv'
<1>1. hxChart' = hxChart /\ hxWork' = NoWork
  BY DEF HelmCrash
<1>2. hxRelease' = hxRelease \/ hxChart.exists
  BY DEF HelmCrash, HxInv, Working
<1>3. QED
  BY <1>1, <1>2 DEF NoWork, HxInv, Shapes, Working, Uninstalled, NoReleaseLeftBehind

\* Every step keeps the invariant.
LEMMA HxInvNext == HxInv /\ [HxNext]_hxVars => HxInv'
<1> SUFFICES ASSUME HxInv, [HxNext]_hxVars PROVE HxInv'
  OBVIOUS
<1>1. CASE ConfigArrives \/ TakeLead \/ LoseLead \/ SecretAppears
  BY <1>1 DEF ConfigArrives, TakeLead, LoseLead, SecretAppears, HxInv, Shapes, Working, Uninstalled,
              NoReleaseLeftBehind
<1>2. CASE UNCHANGED hxVars
  BY <1>2 DEF hxVars, HxInv, Shapes, Working, Uninstalled, NoReleaseLeftBehind
<1>3. QED
  BY <1>1, <1>2, LoopKeeps, TaskKeeps, ReconcileKeeps, HelmKeeps, HelmCrashKeeps, WorkEndsKeeps DEF HxNext, HxWork

\* However installations fail, are interrupted or go unrecorded, and wherever k0s dies,
\* the resource of a chart
\* is there as long as its release is (extensions_controller.go).
THEOREM ReleasesAreNotLeftBehind == HxSpec => []NoReleaseLeftBehind
<1>1. HxInv => NoReleaseLeftBehind
  BY DEF HxInv
<1>2. QED
  BY <1>1, HxInvInit, HxInvNext, PTL DEF HxSpec

-----------------------------------------------------------------------------
(***************************************************************************)
(* The static pods component (pkg/component/worker/static_pods.go)         *)
(* implements PodRegistry, for any IDs, callers, manifests and numbers of  *)
(* claims.  The inductive invariant is that, until the component stops, it *)
(* only has content for IDs that are claimed.                              *)
(***************************************************************************)

\* Claims and content go together until Stop swaps the claims out.
ClaimedContent ==
    spLife <= SpStarted => \A i \in Ids : spContent[i] # NoManifest => spClaims[i] # 0

\* The record of a pod.
PodRecord == [id : Ids \cup {0}, manifest : PodManifests \cup {NoManifest}, hooked : BOOLEAN]

SpInv == SpTypeOK /\ ClaimedContent

USE DEF SpInitialized, SpStarted, SpStopping, SpStopped

-----------------------------------------------------------------------------
\* The component has nothing claimed and no content before it is used.
LEMMA SpInvInit == SpInit => SpInv
<1> SUFFICES ASSUME SpInit PROVE SpInv
  OBVIOUS
<1>1. spPods \in [Pods -> PodRecord]
  BY DEF SpInit, Unused, PodRecord
<1>2. spCall \in [Callers -> [do : {"idle", "update", "drop"}, pod : 0..MaxClaims]]
  BY SMTT(30), StaticPodsAssumption DEF SpInit, Idle
<1>3. spServing \in BOOLEAN
  BY DEF SpInit
<1>4. QED
  BY SMTT(30), <1>1, <1>2, <1>3, StaticPodsAssumption DEF SpInit, SpInv, SpTypeOK, ClaimedContent, PodRecord

\* What generateContent makes of claims: manifests, and none for an ID that is free.
LEMMA ContentOfClaims ==
    ASSUME SpTypeOK, NEW claims \in [Ids -> 0..MaxClaims]
    PROVE  /\ GenerateContent(claims) \in [Ids -> PodManifests \cup {NoManifest}]
           /\ \A i \in Ids : claims[i] = 0 => GenerateContent(claims)[i] = NoManifest
<1>1. ASSUME NEW i \in Ids, claims[i] # 0 PROVE spPods[claims[i]].manifest \in PodManifests \cup {NoManifest}
  <2>1. claims[i] \in Pods
    BY SMTT(30), <1>1, StaticPodsAssumption DEF Pods
  <2>2. QED
    BY <2>1 DEF SpTypeOK
<1>2. QED
  BY <1>1 DEF GenerateContent

\* Changing the manifest of a pod, or unhooking it, leaves the record of a pod.
LEMMA PodsStay ==
    ASSUME SpTypeOK, NEW p \in Pods, NEW m \in PodManifests \cup {NoManifest}
    PROVE  /\ [spPods EXCEPT ![p].manifest = m] \in [Pods -> PodRecord]
           /\ [spPods EXCEPT ![p].manifest = m, ![p].hooked = FALSE] \in [Pods -> PodRecord]
<1>1. spPods \in [Pods -> PodRecord]
  BY DEF SpTypeOK, PodRecord
<1>2. spPods[p] \in PodRecord
  BY <1>1
<1>3. spPods[p].hooked = TRUE \/ spPods[p].hooked = FALSE
  BY <1>2 DEF PodRecord
<1>4. [spPods[p] EXCEPT !.manifest = m] \in PodRecord
  BY <1>2, <1>3 DEF PodRecord
<1>5. [spPods[p] EXCEPT !.manifest = m, !.hooked = FALSE] \in PodRecord
  BY <1>2 DEF PodRecord
<1>6. /\ [spPods EXCEPT ![p].manifest = m] = [spPods EXCEPT ![p] = [spPods[p] EXCEPT !.manifest = m]]
      /\ [spPods EXCEPT ![p].manifest = m, ![p].hooked = FALSE]
           = [spPods EXCEPT ![p] = [spPods[p] EXCEPT !.manifest = m, !.hooked = FALSE]]
  BY <1>1
<1>7. QED
  BY <1>1, <1>4, <1>5, <1>6

\* Every step keeps the types, and has no content for an ID that is free.
LEMMA SpInvNext == SpInv /\ [SpNext]_spVars => SpInv'
<1> SUFFICES ASSUME SpInv, [SpNext]_spVars PROVE SpInv'
  OBVIOUS
<1> USE StaticPodsAssumption
<1>1. CASE ComponentInit \/ ComponentStart \/ Serve
  <2>1. spServing' \in BOOLEAN
    BY <1>1 DEF SpInv, SpTypeOK, ComponentInit, ComponentStart, Serve
  <2>2. QED
    BY SMTT(30), <1>1, <2>1 DEF SpInv, SpTypeOK, ClaimedContent, ComponentInit, ComponentStart, Serve
<1>2. ASSUME NEW c \in Callers, NEW i \in Ids, ClaimStaticPod(c, i) PROVE SpInv'
  <2>1. spCount' \in Pods
    BY SMTT(30), <1>2 DEF SpInv, SpTypeOK, ClaimStaticPod, Pods
  <2>2. spPods' \in [Pods -> PodRecord]
    BY <1>2 DEF SpInv, SpTypeOK, ClaimStaticPod, PodRecord
  <2>3. spClaims' \in [Ids -> 0..MaxClaims] /\ spClaims'[i] # 0
    BY SMTT(30), <1>2, <2>1 DEF SpInv, SpTypeOK, ClaimStaticPod, Pods
  <2>4. QED
    BY <1>2, <2>1, <2>2, <2>3 DEF SpInv, SpTypeOK, ClaimStaticPod, ClaimedContent, Pods, PodRecord
<1>3. ASSUME NEW c \in Callers, NEW p \in Pods,
             Clear(c, p) \/ Drop(c, p) \/ \E m \in PodManifests : SetManifest(c, p, m)
      PROVE SpInv'
  <2>1. spPods' \in [Pods -> PodRecord]
    <3>1. CASE Clear(c, p)
      BY <3>1, PodsStay DEF SpInv, Clear
    <3>2. CASE Drop(c, p)
      BY <3>2, PodsStay DEF SpInv, Drop
    <3>3. ASSUME NEW m \in PodManifests, SetManifest(c, p, m) PROVE spPods' \in [Pods -> PodRecord]
      BY <3>3, PodsStay DEF SpInv, SetManifest
    <3>4. QED
      BY <1>3, <3>1, <3>2, <3>3
  <2>2. spCall' \in [Callers -> [do : {"idle", "update", "drop"}, pod : 0..MaxClaims]]
    BY SMTT(30), <1>3 DEF SpInv, SpTypeOK, Clear, Drop, SetManifest, Idle, Pods
  <2>3. QED
    BY <1>3, <2>1, <2>2 DEF SpInv, SpTypeOK, ClaimedContent, Clear, Drop, SetManifest, PodRecord
<1>4. ASSUME NEW c \in Callers, Update(c) \/ DropClaim(c) PROVE SpInv'
  <2>1. spCall' \in [Callers -> [do : {"idle", "update", "drop"}, pod : 0..MaxClaims]]
    BY SMTT(30), <1>4 DEF SpInv, SpTypeOK, Update, DropClaim, Idle
  <2>2. spClaims' \in [Ids -> 0..MaxClaims]
    BY SMTT(30), <1>4 DEF SpInv, SpTypeOK, Update, DropClaim
  <2>3. \/ spContent' = spContent /\ spClaims' = spClaims
        \/ spContent' = GenerateContent(spClaims')
    BY <1>4 DEF Update, DropClaim
  <2>4. spContent' \in [Ids -> PodManifests \cup {NoManifest}]
    BY SMTT(30), <2>2, <2>3, ContentOfClaims DEF SpInv, SpTypeOK
  <2>5. ClaimedContent'
    BY SMTT(30), <1>4, <2>2, <2>3, ContentOfClaims DEF SpInv, ClaimedContent, Update, DropClaim
  <2>6. QED
    BY <1>4, <2>1, <2>2, <2>4, <2>5 DEF SpInv, SpTypeOK, Update, DropClaim
<1>5. CASE HandleManifests
  BY <1>5 DEF SpInv, SpTypeOK, ClaimedContent, HandleManifests
<1>6. CASE StopSwap \/ CloseServer \/ StopDone
  <2>1. spServing' \in BOOLEAN
    BY <1>6 DEF SpInv, SpTypeOK, StopSwap, CloseServer, StopDone
  <2>2. QED
    BY SMTT(30), <1>6, <2>1 DEF SpInv, SpTypeOK, ClaimedContent, StopSwap, CloseServer, StopDone
<1>7. ASSUME NEW p \in Pods, UnhookPod(p) PROVE SpInv'
  <2>1. spPods' \in [Pods -> PodRecord]
    BY <1>7, PodsStay DEF SpInv, UnhookPod
  <2>2. QED
    BY <1>7, <2>1 DEF SpInv, SpTypeOK, ClaimedContent, UnhookPod, PodRecord
<1>8. CASE UNCHANGED spVars
  BY <1>8 DEF SpInv, SpTypeOK, ClaimedContent, spVars
<1>9. QED
  BY <1>1, <1>2, <1>3, <1>4, <1>5, <1>6, <1>7, <1>8 DEF SpNext, SpCalls, SpFinish, SpStop

-----------------------------------------------------------------------------
\* Every step of the component is a step of PodRegistry, or none.
LEMMA StepsAreKept ==
    ASSUME SpInv, SpInv', [SpNext]_spVars
    PROVE  [Registry!Next]_(Registry!vars)
<1> USE StaticPodsAssumption
<1>1. ASSUME spContent' = spContent,
             \/ spLife' = spLife /\ (spLife > SpStarted \/ spClaims' = spClaims)
             \/ spLife <= SpStarted /\ spLife' <= SpStarted /\ spClaims' = spClaims
      PROVE  UNCHANGED Registry!vars
  <2> DEFINE Phase(life) ==
               CASE life = SpStopping -> "closing" [] life = SpStopped -> "closed" [] OTHER -> "open"
             Claimed(life, claims) == IF life > SpStarted THEN {} ELSE {i \in Ids : claims[i] # 0}
  <2>1. Phase(spLife') = Phase(spLife)
    BY SMTT(30), <1>1 DEF SpInv, SpTypeOK
  <2>2. Claimed(spLife', spClaims') = Claimed(spLife, spClaims)
    <3>1. CASE spLife' = spLife /\ spLife > SpStarted
      BY <3>1
    <3>2. CASE spLife' = spLife /\ spClaims' = spClaims
      BY <3>2
    <3>3. CASE spLife <= SpStarted /\ spLife' <= SpStarted /\ spClaims' = spClaims
      <4>1. ~(spLife > SpStarted) /\ ~(spLife' > SpStarted)
        BY SMTT(30), <3>3 DEF SpInv, SpTypeOK
      <4>2. QED
        BY <3>3, <4>1
    <3>4. QED
      BY <1>1, <3>1, <3>2, <3>3
  <2>3. QED
    BY <1>1, <2>1, <2>2 DEF Registry!vars
<1>2. CASE ComponentInit \/ ComponentStart
  BY SMTT(30), <1>1, <1>2 DEF ComponentInit, ComponentStart
<1>3. CASE Serve \/ HandleManifests \/ CloseServer
  BY <1>1, <1>3 DEF Serve, HandleManifests, CloseServer
<1>4. ASSUME NEW c \in Callers, NEW i \in Ids, ClaimStaticPod(c, i)
      PROVE  [Registry!Next]_(Registry!vars)
  <2>1. CASE spLife > SpStarted
    BY <1>1, <1>4, <2>1 DEF ClaimStaticPod
  <2>2. CASE spLife <= SpStarted
    <3>1. Registry!Claim(i)
      BY SMTT(30), <1>4, <2>2 DEF SpInv, SpTypeOK, ClaimStaticPod, Registry!Claim
    <3>2. QED
      BY <3>1 DEF Registry!Next
  <2>3. QED
    BY SMTT(30), <2>1, <2>2 DEF SpInv, SpTypeOK
<1>5. ASSUME NEW c \in Callers, NEW p \in Pods,
             Clear(c, p) \/ Drop(c, p) \/ \E m \in PodManifests : SetManifest(c, p, m)
      PROVE  [Registry!Next]_(Registry!vars)
  BY <1>1, <1>5 DEF Clear, Drop, SetManifest
<1>6. ASSUME spLife <= SpStarted, spLife' = spLife, spClaims' = spClaims
      PROVE  Registry!Publish
  BY SMTT(30), <1>6 DEF SpInv, SpTypeOK, ClaimedContent, Registry!Publish
<1>7. ASSUME NEW c \in Callers, Update(c) PROVE [Registry!Next]_(Registry!vars)
  <2>1. CASE spLife > SpStarted
    BY <1>1, <1>7, <2>1 DEF Update
  <2>2. CASE spLife <= SpStarted
    BY <1>6, <1>7, <2>2 DEF Update, Registry!Next
  <2>3. QED
    BY SMTT(30), <2>1, <2>2 DEF SpInv, SpTypeOK
<1>8. ASSUME NEW c \in Callers, DropClaim(c) PROVE [Registry!Next]_(Registry!vars)
  <2> DEFINE i == spPods[spCall[c].pod].id
  <2>1. CASE spLife > SpStarted
    BY <1>1, <1>8, <2>1 DEF DropClaim
  <2>2. ASSUME NEW j \in Ids, j = i, spLife <= SpStarted, spClaims[j] # 0
        PROVE  [Registry!Next]_(Registry!vars)
    <3>0. ~(spLife > SpStarted)
      BY SMTT(30), <2>2 DEF SpInv, SpTypeOK
    <3>1. spLife' = spLife /\ spClaims' = [spClaims EXCEPT ![j] = 0]
      BY <1>8, <2>2, <3>0 DEF DropClaim
    <3>2. Registry!Release(j)
      BY SMTT(30), <2>2, <3>1 DEF SpInv, SpTypeOK, ClaimedContent, Registry!Release
    <3>3. QED
      BY <3>2 DEF Registry!Next
  <2>3. CASE spLife <= SpStarted /\ ~(i \in Ids /\ spClaims[i] # 0)
    <3>1. spLife' = spLife /\ spClaims' = [spClaims EXCEPT ![i] = 0]
      BY SMTT(30), <1>8, <2>3 DEF SpInv, SpTypeOK, DropClaim
    <3> HIDE DEF i
    <3>2. spClaims' = spClaims
      BY SMTT(30), <2>3, <3>1 DEF SpInv, SpTypeOK
    <3>3. QED
      BY <1>6, <2>3, <3>1, <3>2 DEF Registry!Next
  <2>4. QED
    BY SMTT(30), <2>1, <2>2, <2>3 DEF SpInv, SpTypeOK
<1>9. CASE StopSwap
  <2>1. CASE spLife = SpStarted
    <3>1. Registry!Close
      BY SMTT(30), <1>9, <2>1 DEF SpInv, SpTypeOK, StopSwap, Registry!Close
    <3>2. QED
      BY <3>1 DEF Registry!Next
  <2>2. CASE spLife > SpStarted
    BY SMTT(30), <1>1, <1>9, <2>2 DEF StopSwap
  <2>3. QED
    BY SMTT(30), <1>9, <2>1, <2>2 DEF SpInv, SpTypeOK, StopSwap
<1>10. ASSUME NEW p \in Pods, UnhookPod(p) PROVE [Registry!Next]_(Registry!vars)
  BY <1>1, <1>10 DEF UnhookPod
<1>11. CASE StopDone
  <2>1. Registry!Closed
    BY SMTT(30), <1>11 DEF StopDone, Registry!Closed
  <2>2. QED
    BY <2>1 DEF Registry!Next
<1>12. CASE UNCHANGED spVars
  BY <1>1, <1>12 DEF spVars
<1>13. QED
  BY <1>2, <1>3, <1>4, <1>5, <1>7, <1>8, <1>9, <1>10, <1>11, <1>12
     DEF SpNext, SpCalls, SpFinish, SpStop

\* The component keeps the promises of PodRegistry (static_pods.go), for any IDs,
\* callers and manifests, however claims, drops and Stop overlap: an ID has one claim
\* at a time, only claimed IDs are served, and nothing is served after Stop.
THEOREM PromisesAreKept == SpSpec => KeepsPromises
<1>1. SpInit => Registry!Init
  BY SMTT(30) DEF SpInit, Registry!Init
<1>2. SpInv /\ SpInv' /\ [SpNext]_spVars => [Registry!Next]_(Registry!vars)
  BY StepsAreKept
<1>3. QED
  BY <1>1, <1>2, SpInvInit, SpInvNext, PTL DEF SpSpec, KeepsPromises, Registry!Spec
=============================================================================
