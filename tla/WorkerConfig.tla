---------------------------- MODULE WorkerConfig -----------------------------
(***************************************************************************)
(* The worker configuration reconciler of the controllers                  *)
(* (pkg/component/controller/workerconfig): from the cluster configuration *)
(* and the addresses of the API servers it makes the worker profiles, and  *)
(* the controller that holds the lease publishes them as ConfigMaps.       *)
(*                                                                         *)
(* Three callers (the config reconciler, the watch on the API servers'     *)
(* endpoints and the callback of the acquired lease) hand their updates to *)
(* the reconciliation loop through a channel and wait for the outcome, the *)
(* last of them for a minute at most.  Publishing takes time: the lease    *)
(* may pass on meanwhile.                                                  *)
(***************************************************************************)
EXTENDS Naturals, FiniteSets, Sequences

CONSTANTS
    Members,       \* the controllers
    ProfilesOf,    \* the worker profiles in a version of the cluster configuration
    MaxVersions,   \* bound: the versions of the configuration and of the API servers, each
    MaxUpsets      \* bounds: how often applying fails, the lease passes on and a member stops;
                   \* a behaviour keeps one of them

Callers == {"config", "servers", "lease"}
Nobody == "nobody"

VARIABLES
    wcCurrent,     \* the versions of the configuration and the API servers
    wcLeader,      \* the member that holds the lease, or Nobody
    wcPublished,   \* the ConfigMaps and the Role in the cluster
    wcLate,        \* they were last written by a member that has lost the lease
    wcState,       \* Reconciler.state
    wcCaller,      \* what a member's callers do: "idle", "enqueueing" or "waiting"
    wcUpdate,      \* the update a caller brings
    wcQueue,       \* the channel of updates, of capacity one: the callers in it
    wcDesired,     \* desiredState
    wcReconciled,  \* reconciledState
    wcApplying,    \* stateToReconcile while it is applied, or Nothing
    wcAnswering,   \* the caller that gets the outcome, or "retry"
    wcFailed,      \* lastRecoFailed
    wcUpsets       \* what is left of the bound

wcVars == <<wcCurrent, wcLeader, wcPublished, wcLate, wcState, wcCaller, wcUpdate, wcQueue, wcDesired,
            wcReconciled, wcApplying, wcAnswering, wcFailed, wcUpsets>>

wcCalls == <<wcCaller, wcUpdate, wcQueue>>
wcLoop == <<wcDesired, wcReconciled, wcApplying, wcAnswering, wcFailed>>

Upset(kind) == wcUpsets[kind] > 0 /\ wcUpsets' = [wcUpsets EXCEPT ![kind] = @ - 1]

Nothing == [config |-> 0, servers |-> 0, serial |-> 0]

------------------------------------------------------------------------------
(* generateResources: a ConfigMap per profile, the two defaults included,  *)
(* and the Role that lets nodes read just these.                           *)

BuildConfigMaps(s) == {"default", "default-windows"} \cup ProfilesOf[s.config]

GenerateResources(s) ==
    [config |-> s.config, servers |-> s.servers, maps |-> BuildConfigMaps(s), role |-> BuildConfigMaps(s)]

Unpublished == [config |-> 0, servers |-> 0, maps |-> {}, role |-> {}]

(* takeConfigSnapshot and extractAPIServerAddresses, which never returns   *)
(* an empty list: the update replaces a part of the desired state.         *)
ApplyUpdate(k, v, s) ==
    CASE k = "config" -> [s EXCEPT !.config = v]
      [] k = "servers" -> [s EXCEPT !.servers = v]
      [] OTHER -> [s EXCEPT !.serial = @ + 1]

(* The outcome is sent to whoever still waits for it.                      *)
Reply(m, k, queue) ==
    /\ wcCaller' = IF k # "retry" /\ wcCaller[m][k] = "waiting"
                     THEN [wcCaller EXCEPT ![m][k] = "idle"] ELSE wcCaller
    /\ wcQueue' = [wcQueue EXCEPT ![m] = queue]
    /\ UNCHANGED wcUpdate

(* runReconciliation, up to the point where it applies: a member without   *)
(* the lease, an incomplete state and one that is already reconciled are   *)
(* answered at once.                                                       *)
RunReconciliation(m, k, desired, queue) ==
    /\ wcDesired' = [wcDesired EXCEPT ![m] = desired]
    /\ IF wcLeader # m \/ desired.config = 0 \/ desired.servers = 0 \/ desired = wcReconciled[m]
         THEN /\ Reply(m, k, queue)
              /\ wcFailed' = [wcFailed EXCEPT ![m] = FALSE]
              /\ UNCHANGED <<wcApplying, wcAnswering>>
         ELSE /\ wcApplying' = [wcApplying EXCEPT ![m] = desired]
              /\ wcAnswering' = [wcAnswering EXCEPT ![m] = k]
              /\ wcQueue' = [wcQueue EXCEPT ![m] = queue]
              /\ UNCHANGED <<wcCaller, wcUpdate, wcFailed>>

(* runReconcileLoop: an update from the channel ...  (One that is received *)
(* after the context has ended is answered with an error, like those that  *)
(* wait when the loop ends.)                                               *)
LoopReceives(m) ==
    /\ wcState[m] = "started"
    /\ wcApplying[m] = Nothing
    /\ wcQueue[m] # <<>>
    /\ LET k == Head(wcQueue[m])
       IN RunReconciliation(m, k, ApplyUpdate(k, wcUpdate[m][k], wcDesired[m]), Tail(wcQueue[m]))
    /\ UNCHANGED <<wcCurrent, wcLeader, wcPublished, wcLate, wcState, wcReconciled, wcUpsets>>

(* ... or the minute's tick, after a failure ...                           *)
LoopRetries(m) ==
    /\ wcState[m] = "started"
    /\ wcApplying[m] = Nothing
    /\ wcFailed[m]
    /\ RunReconciliation(m, "retry", wcDesired[m], wcQueue[m])
    /\ UNCHANGED <<wcCurrent, wcLeader, wcPublished, wcLate, wcState, wcReconciled, wcUpsets>>

(* ... is applied: the stack's resources, whoever has the lease by now.    *)
LoopApplied(m) ==
    /\ wcApplying[m] # Nothing
    /\ \/ /\ wcPublished' = GenerateResources(wcApplying[m])
          /\ wcLate' = (wcLeader # m)
          /\ wcReconciled' = [wcReconciled EXCEPT ![m] = wcApplying[m]]
          /\ wcFailed' = [wcFailed EXCEPT ![m] = FALSE]
          /\ UNCHANGED wcUpsets
       \/ /\ IF wcState[m] = "stopping" THEN UNCHANGED wcUpsets ELSE Upset("failure")
          /\ wcFailed' = [wcFailed EXCEPT ![m] = TRUE]
          /\ UNCHANGED <<wcPublished, wcLate, wcReconciled>>
    /\ wcApplying' = [wcApplying EXCEPT ![m] = Nothing]
    /\ Reply(m, wcAnswering[m], wcQueue[m])
    /\ wcAnswering' = [wcAnswering EXCEPT ![m] = "retry"]
    /\ UNCHANGED <<wcCurrent, wcLeader, wcState, wcDesired>>

(* The loop ends, and its state with it: whoever waits for it is told so.  *)
LoopEnds(m) ==
    /\ wcState[m] = "stopping"
    /\ wcApplying[m] = Nothing
    /\ wcState' = [wcState EXCEPT ![m] = "stopped"]
    /\ wcCaller' = [wcCaller EXCEPT ![m] = [k \in Callers |-> "idle"]]
    /\ wcUpdate' = [wcUpdate EXCEPT ![m] = [k \in Callers |-> 0]]
    /\ wcQueue' = [wcQueue EXCEPT ![m] = <<>>]
    /\ wcDesired' = [wcDesired EXCEPT ![m] = Nothing]
    /\ wcReconciled' = [wcReconciled EXCEPT ![m] = Nothing]
    /\ wcFailed' = [wcFailed EXCEPT ![m] = FALSE]
    /\ UNCHANGED <<wcCurrent, wcLeader, wcPublished, wcLate, wcApplying, wcAnswering, wcUpsets>>

------------------------------------------------------------------------------
(* The callers                                                             *)

(* reconcile: the channel has room for one update, which is sent at once;  *)
(* or the caller waits for room.                                           *)
CallReconcile(m, k, v) ==
    /\ wcUpdate' = [wcUpdate EXCEPT ![m][k] = v]
    /\ IF wcQueue[m] = <<>>
         THEN /\ wcCaller' = [wcCaller EXCEPT ![m][k] = "waiting"]
              /\ wcQueue' = [wcQueue EXCEPT ![m] = <<k>>]
         ELSE /\ wcCaller' = [wcCaller EXCEPT ![m][k] = "enqueueing"]
              /\ UNCHANGED wcQueue

(* Reconcile, called with each new cluster configuration, and              *)
(* reconcileAPIServers with each change of the endpoints; the watch is set *)
(* up again after an error, and starts with the current addresses.         *)
CallerReconciles(m, k) ==
    /\ wcState[m] = "started"
    /\ k \in {"config", "servers"}
    /\ wcCaller[m][k] = "idle"
    /\ wcUpdate[m][k] # wcCurrent[k] \/ (k = "servers" /\ wcFailed[m] /\ wcUpsets["failure"] > 0)
    /\ CallReconcile(m, k, wcCurrent[k])
    /\ UNCHANGED <<wcCurrent, wcLeader, wcPublished, wcLate, wcState, wcLoop, wcUpsets>>

(* There is room in the channel now.                                       *)
Enqueue(m, k) ==
    /\ wcState[m] = "started"
    /\ wcCaller[m][k] = "enqueueing"
    /\ wcQueue[m] = <<>>
    /\ wcQueue' = [wcQueue EXCEPT ![m] = <<k>>]
    /\ wcCaller' = [wcCaller EXCEPT ![m][k] = "waiting"]
    /\ UNCHANGED <<wcCurrent, wcLeader, wcPublished, wcLate, wcState, wcUpdate, wcLoop, wcUpsets>>

(* reconcile, when the minute of the acquired lease is over, which takes a *)
(* loop that is busy for so long: an update that did not get into the      *)
(* channel is lost, one that did is still looked at.  (The context of the  *)
(* other callers ends when k0s stops, as the loop does.)                   *)
CallerGivesUp(m) ==
    /\ wcApplying[m] # Nothing
    /\ \/ wcCaller[m]["lease"] = "enqueueing" /\ wcQueue[m] # <<>>
       \/ wcCaller[m]["lease"] = "waiting"
    /\ wcCaller' = [wcCaller EXCEPT ![m]["lease"] = "idle"]
    /\ UNCHANGED <<wcCurrent, wcLeader, wcPublished, wcLate, wcState, wcUpdate, wcQueue, wcLoop, wcUpsets>>

------------------------------------------------------------------------------
(* Start and Stop, the lease and the world                                 *)

StartReconciler(m) ==
    /\ wcState[m] = "initialized"
    /\ wcState' = [wcState EXCEPT ![m] = "started"]
    /\ UNCHANGED <<wcCurrent, wcLeader, wcPublished, wcLate, wcCalls, wcLoop, wcUpsets>>

(* Stop requests the end of the loop and waits for it.                     *)
StopReconciler(m) ==
    /\ wcState[m] = "started"
    /\ Upset("stop")
    /\ wcState' = [wcState EXCEPT ![m] = "stopping"]
    /\ UNCHANGED <<wcCurrent, wcLeader, wcPublished, wcLate, wcCalls, wcLoop>>

(* The lease is acquired: the callback enforces a reconciliation, even of  *)
(* a state that has not changed since this member last had the lease.  It  *)
(* runs in a goroutine of its own; one that still waits from last time is  *)
(* not followed any further.                                               *)
AcquireWithoutReconciling(m) ==
    /\ wcLeader = Nobody
    /\ wcState[m] = "started"
    /\ wcLeader' = m
    /\ UNCHANGED <<wcCurrent, wcPublished, wcLate, wcState, wcCalls, wcLoop, wcUpsets>>

AcquireLease(m) ==
    /\ wcLeader = Nobody
    /\ wcState[m] = "started"
    /\ wcLeader' = m
    /\ CallReconcile(m, "lease", 0)
    /\ UNCHANGED <<wcCurrent, wcPublished, wcLate, wcState, wcLoop, wcUpsets>>

LoseLease ==
    /\ wcLeader # Nobody
    /\ IF wcState[wcLeader] = "started" THEN Upset("lease") ELSE UNCHANGED wcUpsets
    /\ wcLeader' = Nobody
    /\ UNCHANGED <<wcCurrent, wcPublished, wcLate, wcState, wcCalls, wcLoop>>

WorldChanges(k) ==
    /\ wcCurrent[k] < MaxVersions[k]
    /\ wcCurrent' = [wcCurrent EXCEPT ![k] = @ + 1]
    /\ UNCHANGED <<wcLeader, wcPublished, wcLate, wcState, wcCalls, wcLoop, wcUpsets>>

WcInit ==
    /\ wcCurrent = [config |-> 1, servers |-> 1]
    /\ wcLeader = Nobody
    /\ wcPublished = Unpublished
    /\ wcLate = FALSE
    /\ wcState = [m \in Members |-> "initialized"]
    /\ wcCaller = [m \in Members |-> [k \in Callers |-> "idle"]]
    /\ wcUpdate = [m \in Members |-> [k \in Callers |-> 0]]
    /\ wcQueue = [m \in Members |-> <<>>]
    /\ wcDesired = [m \in Members |-> Nothing]
    /\ wcReconciled = [m \in Members |-> Nothing]
    /\ wcApplying = [m \in Members |-> Nothing]
    /\ wcAnswering = [m \in Members |-> "retry"]
    /\ wcFailed = [m \in Members |-> FALSE]
    /\ wcUpsets \in MaxUpsets

MemberLoops(m) == LoopReceives(m) \/ LoopRetries(m) \/ LoopApplied(m) \/ LoopEnds(m)

MemberCalls(m, k) == CallerReconciles(m, k) \/ Enqueue(m, k)

WcNext ==
    \/ \E m \in Members : StartReconciler(m) \/ StopReconciler(m) \/ AcquireLease(m) \/ MemberLoops(m)
    \/ \E m \in Members : CallerGivesUp(m)
    \/ \E m \in Members, k \in Callers : MemberCalls(m, k)
    \/ LoseLease
    \/ \E k \in {"config", "servers"} : WorldChanges(k)

(* The goroutines run (the calls are finitely many, so that each send to   *)
(* the channel gets its turn), and a free lease is acquired by a member.   *)
WcFairness ==
    /\ \A m \in Members : WF_wcVars(MemberLoops(m) \/ StartReconciler(m))
    /\ WF_wcVars(\E m \in Members, k \in Callers : MemberCalls(m, k))
    /\ WF_wcVars(\/ \E m \in Members : AcquireLease(m)
                \/ (LoseLease /\ wcState[wcLeader] # "started"))

WcSpec == WcInit /\ [][WcNext]_wcVars /\ WcFairness

------------------------------------------------------------------------------
WcTypeOK ==
    /\ \A k \in {"config", "servers"} : wcCurrent[k] \in 1..MaxVersions[k]
    /\ wcLeader \in Members \cup {Nobody}
    /\ wcState \in [Members -> {"initialized", "started", "stopping", "stopped"}]
    /\ wcCaller \in [Members -> [Callers -> {"idle", "enqueueing", "waiting"}]]
    /\ \A m \in Members : Len(wcQueue[m]) <= 1
    /\ wcFailed \in [Members -> BOOLEAN]

(* The published profiles catch up with the cluster configuration and the  *)
(* API servers as long as a member runs, whatever fails and whoever gets   *)
(* the lease; the exception is a member that has lost the lease while it   *)
(* was applying and whose writes come last: nobody applies again until     *)
(* something changes.                                                      *)
ProfilesCatchUp ==
    []<>(\/ wcPublished.config = wcCurrent.config /\ wcPublished.servers = wcCurrent.servers
         \/ wcLate
         \/ \A m \in Members : wcState[m] # "started")

(* Whoever hands an update to the reconciler gets an answer, even if it is *)
(* stopped meanwhile or the loop is busy.                                  *)
UpdatesAreAnswered ==
    \A m \in Members, k \in Callers : []<>(wcCaller[m][k] = "idle")

==============================================================================
