---------------------------- MODULE AutopilotRoot ----------------------------
(***************************************************************************)
(* What runs autopilot's reconcilers (pkg/autopilot/controller): the root  *)
(* controller sets up its ControlNode, follows the lease and rebuilds the  *)
(* manager whenever it leads or ceases to lead; the root worker retries    *)
(* to run a manager a limited number of times; and the readiness prober of *)
(* the leader asks all target controllers at once.  roRole says which of   *)
(* the three a behaviour is about.                                         *)
(***************************************************************************)
EXTENDS Naturals, FiniteSets

CONSTANTS Targets,      \* the controllers to probe
          MaxAttempts,  \* attempts of the root worker (120)
          MaxTurnovers, \* changes of the lease
          MaxFailures   \* failed calls

ASSUME RootAssumption ==
  MaxAttempts \in Nat /\ MaxTurnovers \in Nat /\ MaxFailures \in Nat

VARIABLES roRole,        \* "controller", "worker" or "prober", fixed
          roWorks,       \* the host has a kubelet, fixed
          roAt,          \* where Run is
          roCRD,         \* the controlnodes CRD is established
          roControlNode, \* "absent", "bare", or "described" by its status
          roNodeLease,   \* the kubelet's lease: there, labelled, holder
          roStatus,      \* the latest lease status: leading or not
          roExpired,     \* it was set since Run looked at it
          roSeen,        \* what Run saw
          roMgr,         \* the manager: its state, whether it is a leader's, whether it
                         \* skips the validation of names, whether it is cancelled
          roNames,       \* controller-runtime's list of names: "none", "some" or "all"
          roInitialized, \* all controllers have been registered once
          roAttempts,    \* failed attempts of the root worker
          roProbes,      \* the outcome of each probe
          roResult,      \* what probeTargets will return
          roTurnovers, roFailures

roVars == <<roRole, roWorks, roAt, roCRD, roControlNode, roNodeLease, roStatus, roExpired, roSeen,
            roMgr, roNames, roInitialized, roAttempts, roProbes, roResult, roTurnovers,
            roFailures>>

roManager == <<roNodeLease, roMgr, roNames, roInitialized>>
roSetup == <<roRole, roWorks>>
roLeaseVars == <<roStatus, roExpired, roTurnovers>>
roProbing == <<roProbes, roResult>>

NoManager == [state |-> "none", lead |-> FALSE, skip |-> FALSE, cancelled |-> FALSE]

RoFail == roFailures < MaxFailures /\ roFailures' = roFailures + 1
RoFine == UNCHANGED roFailures

----------------------------------------------------------------------------
(* The root controller *)

(* createControlNode: an existing ControlNode only gets its status updated. *)
GetControlNode ==
  /\ roAt = "setup"
  /\ roAt' = IF roControlNode = "absent" THEN "waitcrd" ELSE "status"
  /\ UNCHANGED <<roCRD, roControlNode, roFailures>>

(* It waits for the CRD, for two minutes; then the setup is tried again. *)
WaitForControlNodesCRD ==
  /\ roAt = "waitcrd"
  /\ \/ /\ roCRD
        /\ roControlNode' = "bare" /\ roAt' = "status"
        /\ RoFine
     \/ roAt' = "setup" /\ UNCHANGED roControlNode /\ RoFail
  /\ UNCHANGED roCRD

UpdateControlNodeStatus ==
  /\ roAt = "status"
  /\ \/ roControlNode' = "described" /\ roAt' = "begin" /\ RoFine
     \/ roAt' = "setup" /\ UNCHANGED roControlNode /\ RoFail
  /\ UNCHANGED roCRD

Setup ==
  /\ roRole = "controller"
  /\ GetControlNode \/ WaitForControlNodesCRD \/ UpdateControlNodeStatus
  /\ UNCHANGED <<roSetup, roManager, roLeaseVars, roSeen, roAttempts, roProbing>>

(* The value, and a channel that tells when it is set the next time. *)
PeekStatus ==
  /\ roSeen' = roStatus /\ roExpired' = FALSE
  /\ UNCHANGED <<roStatus, roTurnovers>>

(* The options of the manager are made with what was registered so far. *)
StartSubControllers(lead) ==
  roMgr' = [state |-> "starting", lead |-> lead, skip |-> roInitialized, cancelled |-> FALSE]

Down == {"failed", "refused", "ended"}

(* Run: the first manager. *)
RunBegins ==
  /\ roRole = "controller" /\ roAt = "begin"
  /\ PeekStatus
  /\ StartSubControllers(roSeen')
  /\ roAt' = "loop"
  /\ UNCHANGED <<roSetup, roCRD, roControlNode, roNodeLease, roNames, roInitialized,
                 roAttempts, roProbing, roFailures>>

(* A new status: the manager is cancelled, unless it is the same status again. *)
LeaseEvent ==
  /\ roRole = "controller" /\ roAt = "loop" /\ roExpired
  /\ PeekStatus
  /\ IF roSeen' = roSeen
     THEN UNCHANGED <<roAt, roMgr>>
     ELSE roAt' = "await" /\ roMgr' = [roMgr EXCEPT !.cancelled = TRUE]
  /\ UNCHANGED <<roSetup, roCRD, roControlNode, roNodeLease, roNames, roInitialized,
                 roAttempts, roProbing, roFailures>>

(* Its goroutine has returned: the next manager. *)
LeaseReconfigures ==
  /\ roRole = "controller" /\ roAt = "await"
  /\ roMgr.state \in Down
  /\ StartSubControllers(roSeen)
  /\ roAt' = "loop"
  /\ UNCHANGED <<roSetup, roCRD, roControlNode, roNodeLease, roStatus, roExpired, roSeen,
                 roNames, roInitialized, roAttempts, roProbing, roTurnovers, roFailures>>

(* The leader elector calls back. *)
LeaseTurnsOver ==
  /\ roRole = "controller" /\ roAt \in {"loop", "await"}
  /\ roTurnovers < MaxTurnovers
  /\ roTurnovers' = roTurnovers + 1
  /\ roStatus' = ~roStatus /\ roExpired' = TRUE
  /\ UNCHANGED <<roSetup, roAt, roCRD, roControlNode, roManager, roSeen, roAttempts,
                 roProbing, roFailures>>

(* The context is done: Run waits for the manager and returns. *)
RootStops ==
  /\ roRole = "controller" /\ roAt = "loop"
  /\ roAt' = "over"
  /\ roMgr' = [roMgr EXCEPT !.cancelled = TRUE]
  /\ UNCHANGED <<roSetup, roCRD, roControlNode, roNodeLease, roLeaseVars, roSeen, roNames,
                 roInitialized, roAttempts, roProbing, roFailures>>

----------------------------------------------------------------------------
(* The manager *)

To(state) == roMgr' = [roMgr EXCEPT !.state = state]

(* A call fails, as all calls of a manager that is cancelled may. *)
CallFails == To("failed") /\ (IF roMgr.cancelled THEN RoFine ELSE RoFail)

(***************************************************************************)
(* A manager is made.  If there is a kubelet, autopilot's label is applied *)
(* to the node's lease, which creates it if the kubelet has not done so    *)
(* yet; the answer may get lost.                                           *)
(***************************************************************************)
LabelNodeLease ==
  /\ roMgr.state = "starting"
  /\ LET labelled == IF roWorks THEN [roNodeLease EXCEPT !.there = TRUE, !.label = TRUE]
                     ELSE roNodeLease
     IN  \/ roNodeLease' = labelled /\ To("labelled") /\ RoFine
         \/ roNodeLease' \in {roNodeLease, labelled} /\ CallFails
  /\ UNCHANGED <<roSetup, roAt, roCRD, roControlNode, roNames, roInitialized, roLeaseVars,
                 roSeen, roAttempts, roProbing>>

(* It gets a holder, unless it has one: then the patch is invalid, which is fine. *)
PatchNodeLease ==
  /\ roMgr.state = "labelled"
  /\ \/ /\ roNodeLease' = IF roWorks THEN [roNodeLease EXCEPT !.holder = TRUE] ELSE roNodeLease
        /\ To("leased") /\ RoFine
     \/ CallFails /\ UNCHANGED roNodeLease
  /\ UNCHANGED <<roSetup, roAt, roCRD, roControlNode, roNames, roInitialized, roLeaseVars,
                 roSeen, roAttempts, roProbing>>

(* As RegisterAll, but it is not noted that all has been registered. *)
RegisterAllLate ==
  /\ roNames' = "all"
  /\ UNCHANGED roInitialized

(* The names are taken for as long as the process runs. *)
RegisterAll == roNames' = "all" /\ roInitialized' = TRUE

(***************************************************************************)
(* A name that is taken is refused, unless names are not validated; other  *)
(* errors may come up before or after some names have been taken.          *)
(***************************************************************************)
RegisterControllers ==
  /\ roMgr.state = "leased"
  /\ \/ /\ roMgr.skip \/ roNames = "none"
        /\ RegisterAll
        /\ To("registered") /\ RoFine
     \/ /\ roMgr.skip \/ roNames = "none"
        /\ roNames' \in {roNames, IF roNames = "all" THEN "all" ELSE "some"}
        /\ To("failed") /\ RoFail /\ UNCHANGED roInitialized
     \/ /\ ~roMgr.skip /\ roNames # "none"
        /\ To("refused") /\ RoFine /\ UNCHANGED <<roNames, roInitialized>>
  /\ UNCHANGED <<roSetup, roAt, roCRD, roControlNode, roNodeLease, roLeaseVars, roSeen,
                 roAttempts, roProbing>>

(* The manager runs until it is cancelled, if it can be started. *)
ManagerRuns ==
  /\ roMgr.state = "registered"
  /\ \/ ~roMgr.cancelled /\ To("running") /\ RoFine
     \/ ~roMgr.cancelled /\ To("failed") /\ RoFail
     \/ roMgr.cancelled /\ To("ended") /\ RoFine
  /\ UNCHANGED <<roSetup, roAt, roCRD, roControlNode, roNodeLease, roNames, roInitialized,
                 roLeaseVars, roSeen, roAttempts, roProbing>>

ManagerEnds ==
  /\ roMgr.state = "running" /\ roMgr.cancelled
  /\ To("ended")
  /\ UNCHANGED <<roSetup, roAt, roCRD, roControlNode, roNodeLease, roNames, roInitialized,
                 roLeaseVars, roSeen, roAttempts, roProbing, roFailures>>

(***************************************************************************)
(* The root worker tries again, or gives up and leaves the node without    *)
(* autopilot.  The options of all its managers are made before the first   *)
(* attempt: all of them validate names.                                    *)
(***************************************************************************)
WorkerRetries ==
  /\ roRole = "worker" /\ roAt = "loop"
  /\ roMgr.state \in {"none"} \cup Down
  /\ IF roAttempts < MaxAttempts
     THEN /\ roAttempts' = roAttempts + 1
          /\ roMgr' = [NoManager EXCEPT !.state = "starting"]
          /\ UNCHANGED roAt
     ELSE roAt' = "over" /\ UNCHANGED <<roAttempts, roMgr>>
  /\ UNCHANGED <<roSetup, roCRD, roControlNode, roNodeLease, roNames, roInitialized,
                 roLeaseVars, roSeen, roProbing, roFailures>>

(* External: the CRDs get established; the kubelet creates its lease, or renews it. *)
ClusterComesUp ==
  /\ \/ ~roCRD /\ roCRD' = TRUE /\ UNCHANGED roNodeLease
     \/ /\ roWorks /\ ~roNodeLease.there
        /\ roNodeLease' = [there |-> TRUE, label |-> FALSE, holder |-> TRUE]
        /\ UNCHANGED roCRD
  /\ UNCHANGED <<roSetup, roAt, roControlNode, roMgr, roNames, roInitialized, roLeaseVars,
                 roSeen, roAttempts, roProbing, roFailures>>

----------------------------------------------------------------------------
(* The prober *)

(* The first error is kept, unless a later one is a target that does not exist. *)
MoreSevere(result, outcome) ==
  IF result = "none" \/ outcome = "unresolved" THEN outcome ELSE result

(***************************************************************************)
(* probeOne: no such ControlNode, no address or not ready, or ready.  A    *)
(* target that does not exist cancels the probes that are still running,   *)
(* which then fail, if they do not make it before they notice.             *)
(***************************************************************************)
ProbeOne(target) ==
  /\ roRole = "prober" /\ roProbes[target] = "running"
  /\ \E outcome \in {"ready", "unready", "unresolved"}
                      \cup {o \in {"cancelled"} : "unresolved" \in {roProbes[t] : t \in Targets}} :
       /\ roProbes' = [roProbes EXCEPT ![target] = outcome]
       /\ roResult' = IF outcome = "ready" THEN roResult ELSE MoreSevere(roResult, outcome)
  /\ UNCHANGED <<roSetup, roAt, roCRD, roControlNode, roManager, roLeaseVars, roSeen,
                 roAttempts, roFailures>>

(* What the leader makes of it. *)
ReadyForUpdate(result) ==
  CASE result = "unresolved" -> "Incomplete"
    [] result = "none" -> "CanUpdate"
    [] OTHER -> "NotReady"

----------------------------------------------------------------------------
RoInit ==
  /\ roRole \in {"controller", "worker", "prober"}
  /\ roWorks \in CASE roRole = "worker" -> {TRUE} [] roRole = "prober" -> {FALSE} [] OTHER -> BOOLEAN
  /\ roAt = IF roRole = "controller" THEN "setup" ELSE "loop"
  /\ roCRD \in BOOLEAN /\ roControlNode = "absent"
  /\ roNodeLease = [there |-> FALSE, label |-> FALSE, holder |-> FALSE]
  /\ roStatus = FALSE /\ roExpired = FALSE /\ roSeen = FALSE
  /\ roMgr = NoManager
  /\ roNames = "none" /\ roInitialized = FALSE
  /\ roAttempts = 0
  /\ roProbes = [t \in Targets |-> "running"] /\ roResult = "none"
  /\ roTurnovers = 0 /\ roFailures = 0

\* Every variable has its type.
RoTypeOK ==
  /\ roRole \in {"controller", "worker", "prober"} /\ roWorks \in BOOLEAN
  /\ roAt \in {"setup", "waitcrd", "status", "begin", "loop", "await", "over"}
  /\ roCRD \in BOOLEAN /\ roControlNode \in {"absent", "bare", "described"}
  /\ roNodeLease \in [there : BOOLEAN, label : BOOLEAN, holder : BOOLEAN]
  /\ roStatus \in BOOLEAN /\ roExpired \in BOOLEAN /\ roSeen \in BOOLEAN
  /\ roMgr \in [lead : BOOLEAN, skip : BOOLEAN, cancelled : BOOLEAN,
                state : {"none", "starting", "labelled", "leased", "registered", "running"} \cup Down]
  /\ roNames \in {"none", "some", "all"} /\ roInitialized \in BOOLEAN /\ roAttempts \in 0..MaxAttempts
  /\ roProbes \in [Targets -> {"running", "ready", "unready", "unresolved", "cancelled"}]
  /\ roResult \in {"none", "unready", "unresolved", "cancelled"}
  /\ roTurnovers \in 0..MaxTurnovers /\ roFailures \in 0..MaxFailures

RoManager ==
  LabelNodeLease \/ PatchNodeLease \/ RegisterControllers \/ ManagerRuns \/ ManagerEnds
RoRun == Setup \/ RunBegins \/ LeaseEvent \/ LeaseReconfigures \/ WorkerRetries

RoNext ==
  \/ RoRun \/ RoManager \/ RootStops \/ LeaseTurnsOver
  \/ roRole # "prober" /\ ClusterComesUp
  \/ \E target \in Targets : ProbeOne(target)

(* The goroutines run, the CRDs get established, and probes time out. *)
RoSpec ==
  /\ RoInit /\ [][RoNext]_roVars
  /\ WF_roVars(RoRun) /\ WF_roVars(RoManager)
  /\ WF_roVars(roRole # "prober" /\ ClusterComesUp)
  /\ WF_roVars(\E target \in Targets : ProbeOne(target))

(***************************************************************************)
(* When the lease comes to rest, the controller has a described            *)
(* ControlNode and a manager of the mode the lease asks for, however the   *)
(* changes, the cancelled managers and the retries of the setup            *)
(* interleave.  That manager runs, unless it could not be started itself   *)
(* (it stays down until the next change), or an earlier one failed in the  *)
(* middle of its registrations.  A worker has its manager, unless one of   *)
(* its attempts failed after it had taken names, or all attempts failed.   *)
(* Where there is a kubelet, its lease has a holder before a manager runs. *)
(***************************************************************************)
RootSettles ==
  <>[](/\ roRole = "controller" /\ roAt # "over" =>
            /\ roAt = "loop" /\ roControlNode = "described"
            /\ roMgr.lead = roStatus
            /\ \/ roMgr.state \in {"running", "failed"}
               \/ roMgr.state = "refused" /\ roNames = "some"
       /\ roRole = "worker" =>
            \/ roMgr.state = "running"
            \/ roAt = "over" /\ (roNames # "none" \/ roFailures >= MaxAttempts)
       /\ roWorks /\ roMgr.state = "running" => roNodeLease.label /\ roNodeLease.holder)

(***************************************************************************)
(* A worker that has not failed in all of its attempts ends up with a      *)
(* manager.  Does not hold: after an attempt that has taken names and then *)
(* failed, all others are refused, for the options were made before.       *)
(***************************************************************************)
WorkerRecovers ==
  <>[](roRole = "worker" /\ roFailures < MaxAttempts => roMgr.state = "running")

(***************************************************************************)
(* When all probes have returned, the verdict is Incomplete exactly if     *)
(* some target does not exist, and CanUpdate exactly if all are ready,     *)
(* whatever the order in which they fail and cancel each other.            *)
(***************************************************************************)
ProbeVerdictIsWorst ==
  (roRole = "prober" /\ \A t \in Targets : roProbes[t] # "running") =>
    /\ ReadyForUpdate(roResult) = "Incomplete"
         <=> \E t \in Targets : roProbes[t] = "unresolved"
    /\ ReadyForUpdate(roResult) = "CanUpdate"
         <=> \A t \in Targets : roProbes[t] = "ready"
=============================================================================
