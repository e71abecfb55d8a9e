---------------------------- MODULE PlanScheduler ----------------------------
(***************************************************************************)
(* The autopilot leader executing a Plan: the newplan, schedulablewait and *)
(* schedulable controllers (pkg/autopilot/controller/plans) with their     *)
(* k0supdate and airgapupdate providers.  They share the plan object and   *)
(* the signal annotations of the nodes; each has its own request queue and *)
(* its own timer (RequeueAfter).  No handler looks at the state of the     *)
(* plan it is given: only the event filters do.                            *)
(*                                                                         *)
(* A node carries one signal: the index of the command it was sent for,    *)
(* the kind of that command, and how far the node got with it (SignalNode  *)
(* has these in detail).  Plans and signals are read from a cache; a write *)
(* is accepted only if the cache was current.                              *)
(***************************************************************************)
EXTENDS Naturals, FiniteSets

CONSTANTS
    Nodes,
    N,            \* number of commands of the plan
    Kinds,        \* Kinds[i]: "K0sUpdate" or "AirgapUpdate"
    Controllers,  \* Controllers[i]: controllers targeted by command i
    Workers,      \* Workers[i]: workers targeted by command i
    Limit,        \* Limit[i]: limits.concurrent of the workers of command i
    Allowed,      \* disturbances that may happen, a subset of Disturbances
    MaxFaults     \* bound: disturbances

Disturbances == {"failover",   \* leader change between two reconciles
                 "midwrite",   \* leader change, crash or API error between the
                               \* write of a node and the write of the plan
                 "lostreply",  \* accepted status write of newplan reported failed
                 "touch",      \* the plan is updated by someone else
                 "apierror",   \* a node cannot be written
                 "badtarget",  \* a target is missing or lacks its platform
                 "oldsignal"}  \* nodes carry a signal of an earlier plan with
                               \* the same spec.id

ASSUME PlanAssumption ==
    /\ IsFiniteSet(Nodes)
    /\ N \in Nat \ {0}
    /\ Kinds \in [1..N -> {"K0sUpdate", "AirgapUpdate"}]
    /\ Controllers \in [1..N -> SUBSET Nodes]
    /\ Workers \in [1..N -> SUBSET Nodes]
    /\ \A i, j \in 1..N : Controllers[i] \cap Workers[j] = {}
    /\ \A i \in 1..N : Kinds[i] = "AirgapUpdate" => Controllers[i] = {}
    /\ Limit \in [1..N -> Nat]
    /\ Allowed \subseteq Disturbances
    /\ MaxFaults \in Nat

VARIABLES
    plan,     \* the status of the Plan object
    view,     \* the plan in the leader's cache
    queue,    \* controllers with a request
    timers,   \* controllers with a RequeueAfter timer
    draft,    \* the status the schedulable controller is about to write
    sig,      \* sig[n]: the signal annotation of node n
    seen,     \* seen[n]: the annotation in the leader's cache
    faults

vars == <<plan, view, queue, timers, draft, sig, seen, faults>>

Names == {"newplan", "schedulablewait", "schedulable"}

Errors == {"IncompleteTargets", "Restricted", "Warning", "ApplyFailed"}

\* "None" is the empty state of a new plan.
PlanStates == {"None", "SchedulableWait", "Schedulable", "Completed"} \cup Errors

TargetStates == {"NoTarget", "SignalPending", "SignalSent", "SignalCompleted",
                 "SignalApplyFailed", "SignalMissingPlatform"}

\* size is the number of command statuses; 2 N when newplan ran twice.
Plans == [state : PlanStates, size : 0..2*N, cmd : [1..N -> PlanStates],
          target : [1..N -> [Nodes -> TargetStates]]]

Signals == [cmd : 0..N, kind : {"K0sUpdate", "AirgapUpdate"},
            status : {"Absent", "Sent", "Completed", "FailedDownload"}]

NoSignal == [cmd |-> 0, kind |-> "K0sUpdate", status |-> "Absent"]

EmptyPlan == [state |-> "None", size |-> 0, cmd |-> [i \in 1..N |-> "None"],
              target |-> [i \in 1..N |-> [n \in Nodes |-> "NoTarget"]]]

NoDraft == [on |-> FALSE, fresh |-> FALSE, plan |-> EmptyPlan]

Targets(i) == Controllers[i] \cup Workers[i]

In(p, i, T, state) == {n \in T : p.target[i][n] = state}

-----------------------------------------------------------------------------
(* Requests *)

\* Wrong on purpose: only the creation filter looks at the state.
UpdateKeysAll(state) ==
    IF state = "Schedulable" THEN {"schedulable"} ELSE {"schedulablewait"}

\* The event filters: newplan wants the creation of a plan without a state,
\* the others any event of a plan in their state.
UpdateKeys(state) ==
    CASE state = "SchedulableWait" -> {"schedulablewait"}
      [] state = "Schedulable"     -> {"schedulable"}
      [] OTHER                     -> {}

CreateKeys(state) == IF state = "None" THEN {"newplan"} ELSE UpdateKeys(state)

Fault(d) == d \in Allowed /\ faults < MaxFaults /\ faults' = faults + 1

\* The leader's cache receives the plan, or a node.
ObservePlan ==
    /\ view # plan
    /\ view' = plan
    /\ queue' = queue \cup UpdateKeys(plan.state)
    /\ UNCHANGED <<plan, timers, draft, sig, seen, faults>>

ObserveNode(n) ==
    /\ seen[n] # sig[n]
    /\ seen' = [seen EXCEPT ![n] = sig[n]]
    /\ UNCHANGED <<plan, view, queue, timers, draft, sig, faults>>

Timer(c) ==
    /\ c \in timers
    /\ timers' = timers \ {c}
    /\ queue' = queue \cup {c}
    /\ UNCHANGED <<plan, view, draft, sig, seen, faults>>

\* Status().Update by controller c: refused when the cache is stale, and then
\* retried.
WriteStatus(c, p) ==
    \/ /\ view = plan
       /\ plan' = p
       /\ queue' = queue \ {c}
       /\ draft' = [draft EXCEPT !.fresh = FALSE]
    \/ /\ view # plan
       /\ UNCHANGED <<plan, queue, draft>>

\* Wrong on purpose: no timer is set.
RetryNever(c) ==
    /\ queue' = queue \ {c}
    /\ UNCHANGED <<plan, timers, draft, sig>>

\* `RequeueAfter`; what the handler computed is dropped.
Retry(c) ==
    /\ queue' = queue \ {c}
    /\ timers' = timers \cup {c}
    /\ UNCHANGED <<plan, draft, sig>>

-----------------------------------------------------------------------------
(* newplan *)

\* The status of a plan whose first k commands found their targets.
Discovered(k) ==
    [i \in 1..N |-> [n \in Nodes |->
        IF i <= k /\ n \in Targets(i) THEN "SignalPending" ELSE "NoTarget"]]

\* initProvidersHandler.Handle: append a status per command, until one fails.
InitPlan(p, k, failure) ==
    [state  |-> IF k = N THEN "SchedulableWait" ELSE failure,
     size   |-> IF k = N THEN p.size + N ELSE p.size + k + 1,
     cmd    |-> IF p.size > 0 THEN p.cmd ELSE
                [i \in 1..N |-> IF i <= k \/ (i = k + 1 /\ failure # "Warning")
                                THEN "SchedulableWait"
                                ELSE IF i = k + 1 THEN "Warning" ELSE "None"],
     target |-> IF p.size > 0 THEN p.target ELSE Discovered(k)]

\* Bound: newplan runs at most twice.
NewPlan ==
    /\ "newplan" \in queue
    /\ view.size = 0 \/ view.size = N
    /\ \/ /\ WriteStatus("newplan", InitPlan(view, N, "None"))
          /\ UNCHANGED faults
       \/ /\ Fault("badtarget")
          /\ \E k \in 0..N-1, failure \in {"IncompleteTargets", "Restricted", "Warning"} :
                WriteStatus("newplan", InitPlan(view, k, failure))
       \/ /\ Fault("lostreply")
          /\ view = plan
          /\ plan' = InitPlan(view, N, "None")
          /\ draft' = [draft EXCEPT !.fresh = FALSE]
          /\ UNCHANGED queue
    /\ UNCHANGED <<view, timers, sig, seen>>

-----------------------------------------------------------------------------
(* schedulablewait and schedulable *)

\* Wrong on purpose: the last command that is not completed.
IsCurrentLast(p, i) ==
    p.cmd[i] # "Completed" /\ \A j \in i+1..N : p.cmd[j] = "Completed"

\* planStateHandler.Handle gives each handler the first command that is not
\* completed.
IsCurrent(p, i) ==
    p.cmd[i] # "Completed" /\ \A j \in 1..i-1 : p.cmd[j] = "Completed"

AllCompleted(p) == \A i \in 1..N : p.cmd[i] = "Completed"

\* ensurePlanStatusSymmetry
Symmetric(p) == p.size \in {0, N}

\* A command that completes does not change the state of the plan.
Transition(p, i, state) ==
    [p EXCEPT !.cmd[i] = state,
              !.state = IF state = "Completed" THEN p.state ELSE state]

\* No command left: planStateHandler.Handle completes the plan; a broken
\* status is an error, which is logged and not retried.
Finish(c) ==
    /\ c \in queue \ {"newplan"}
    /\ c = "schedulable" => ~draft.on
    /\ \/ ~Symmetric(view) /\ queue' = queue \ {c} /\ UNCHANGED <<plan, draft>>
       \/ /\ Symmetric(view) /\ AllCompleted(view)
          /\ WriteStatus(c, [view EXCEPT !.state = "Completed"])
    /\ UNCHANGED <<view, timers, sig, seen, faults>>

\* IsSignalDataSameCommand compares kinds; with a spec.id used before, signals
\* of the earlier plan count too.
SameCommand(i, s) == s.kind = Kinds[i]

\* reconcileSignalNodeStatusTarget
Reconciled(i, state, s) ==
    IF state \in {"NoTarget", "SignalCompleted"} \/ ~SameCommand(i, s) THEN state
    ELSE CASE s.status = "FailedDownload" -> "SignalApplyFailed"
           [] s.status = "Completed"      -> "SignalCompleted"
           [] OTHER                       -> state

ReconcileTargets(p, i) ==
    [p EXCEPT !.target[i] = [n \in Nodes |-> Reconciled(i, p.target[i][n], seen[n])]]

\* Wrong on purpose: a signalled target counts as completed.
IsCompletedOnceSent(p, i, T) == In(p, i, T, "SignalPending") = {}

IsCompleted(p, i, T) == \A n \in T : p.target[i][n] \in {"SignalCompleted", "NoTarget"}

\* Wrong on purpose: two controllers at a time.
ControllerSlotsTwo(i) == 2

\* isSchedulableControllers
ControllerSlots(i) == 1

\* isSchedulableWorkers
WorkerSlots(i) == Limit[i]

\* isSchedulable
CanSchedule(p, i, T, limit) ==
    /\ In(p, i, T, "SignalPending") # {}
    /\ Cardinality(In(p, i, T, "SignalSent")) < limit

IsNotRecoverable(p, i) == In(p, i, Targets(i), "SignalApplyFailed") # {}

\* What SchedulableWait makes of the reconciled targets of command i.
WaitNext(p, i) ==
    IF IsNotRecoverable(p, i) THEN "ApplyFailed"
    ELSE IF IsCompleted(p, i, Targets(i)) THEN "Completed"
    ELSE IF \/ CanSchedule(p, i, Controllers[i], ControllerSlots(i))
            \/ /\ IsCompleted(p, i, Controllers[i])
               /\ CanSchedule(p, i, Workers[i], WorkerSlots(i))
         THEN "Schedulable"
    ELSE "SchedulableWait"

\* Both providers; an airgap update has no controllers.
SchedulableWait ==
    /\ "schedulablewait" \in queue
    /\ Symmetric(view)
    /\ \E i \in 1..N :
          /\ IsCurrent(view, i)
          /\ LET p == ReconcileTargets(view, i) IN
             IF WaitNext(p, i) = "SchedulableWait"
             THEN Retry("schedulablewait")
             ELSE /\ WriteStatus("schedulablewait", Transition(p, i, WaitNext(p, i)))
                  /\ UNCHANGED <<timers, sig>>
    /\ UNCHANGED <<view, seen, faults>>

\* findNextSchedulableTarget: controllers first.
Candidates(p, i) ==
    IF In(p, i, Controllers[i], "SignalPending") # {}
    THEN In(p, i, Controllers[i], "SignalPending")
    ELSE In(p, i, Workers[i], "SignalPending")

SchedulableReady(i) ==
    /\ "schedulable" \in queue
    /\ ~draft.on
    /\ Symmetric(view)
    /\ IsCurrent(view, i)

\* Nothing is pending, or a target cannot be signalled.
SchedulableEnds(i) ==
    /\ SchedulableReady(i)
    /\ \/ /\ Candidates(view, i) = {}
          /\ WriteStatus("schedulable", Transition(view, i, "Completed"))
          /\ UNCHANGED faults
       \/ /\ Fault("badtarget")
          /\ \E n \in Candidates(view, i), t \in {"SignalPending", "SignalMissingPlatform"} :
                WriteStatus("schedulable",
                    [Transition(view, i, "IncompleteTargets") EXCEPT !.target[i][n] = t])
    /\ UNCHANGED <<view, timers, sig, seen>>

\* K0sUpdateReady: the Ready condition of a worker, a probe of all the target
\* controllers for a controller; nothing for an airgap update.
MayBeNotReady(i) == Kinds[i] = "K0sUpdate"

\* The node is not ready, or its cached copy is stale (conflict); any other
\* error is logged and not retried.
SchedulableFails(i) ==
    /\ SchedulableReady(i)
    /\ \E n \in Candidates(view, i) :
          \/ /\ MayBeNotReady(i) \/ seen[n] # sig[n]
             /\ Retry("schedulable")
             /\ UNCHANGED faults
          \/ /\ Fault("apierror")
             /\ queue' = queue \ {"schedulable"}
             /\ UNCHANGED <<plan, timers, draft, sig>>
    /\ UNCHANGED <<view, seen>>

Signalled(p, i, n) ==
    [Transition(p, i, "SchedulableWait") EXCEPT !.target[i][n] = "SignalSent"]

\* Signal a node; the status of the plan is written in another step.
Schedulable(i) ==
    /\ SchedulableReady(i)
    /\ \E n \in Candidates(view, i) :
          /\ seen[n] = sig[n]
          /\ sig' = [sig EXCEPT ![n] = [cmd |-> i, kind |-> Kinds[i], status |-> "Sent"]]
          /\ draft' = [on |-> TRUE, fresh |-> view = plan, plan |-> Signalled(view, i, n)]
    /\ queue' = queue \ {"schedulable"}
    /\ UNCHANGED <<plan, view, timers, seen, faults>>

\* planStateController.Reconcile, after the handler of schedulable.
SchedulableWrites ==
    /\ draft.on
    /\ draft' = NoDraft
    /\ \/ /\ draft.fresh
          /\ plan' = draft.plan
          /\ UNCHANGED <<queue, faults>>
       \/ /\ ~draft.fresh \/ "midwrite" \in Allowed
          /\ queue' = queue \cup {"schedulable"}
          /\ UNCHANGED plan
          /\ IF draft.fresh THEN Fault("midwrite") ELSE UNCHANGED faults
    /\ UNCHANGED <<view, timers, sig, seen>>

-----------------------------------------------------------------------------
(* Nodes and environment *)

\* The node ends its update (SignalNode).
NodeEnds(n) ==
    /\ sig[n].status = "Sent"
    /\ \E r \in {"Completed", "FailedDownload"} :
          sig' = [sig EXCEPT ![n].status = r]
    /\ UNCHANGED <<plan, view, queue, timers, draft, seen, faults>>

\* Another controller becomes the leader: fresh caches, create events.
Failover ==
    /\ IF draft.on THEN Fault("midwrite") ELSE Fault("failover")
    /\ view' = plan
    /\ seen' = sig
    /\ queue' = CreateKeys(plan.state)
    /\ timers' = {}
    /\ draft' = NoDraft
    /\ UNCHANGED <<plan, sig>>

\* Someone else changes the plan object, or the informer resyncs.
Touch ==
    /\ Fault("touch")
    /\ view = plan
    /\ queue' = queue \cup UpdateKeys(plan.state)
    /\ draft' = [draft EXCEPT !.fresh = FALSE]
    /\ UNCHANGED <<plan, view, timers, sig, seen>>

Init ==
    /\ plan = EmptyPlan
    /\ view = plan
    /\ queue = CreateKeys(plan.state)
    /\ timers = {}
    /\ draft = NoDraft
    /\ sig \in [Nodes -> {NoSignal} \cup
                   (IF "oldsignal" \in Allowed
                    THEN {[NoSignal EXCEPT !.status = "Completed"]} ELSE {})]
    /\ seen = sig
    /\ faults = 0

Reconcile ==
    \/ NewPlan
    \/ SchedulableWait
    \/ \E i \in 1..N : SchedulableEnds(i) \/ SchedulableFails(i) \/ Schedulable(i)
    \/ SchedulableWrites
    \/ \E c \in Names : Finish(c)

Next ==
    \/ Reconcile
    \/ ObservePlan
    \/ \E c \in Names : Timer(c)
    \/ \E n \in Nodes : ObserveNode(n) \/ NodeEnds(n)
    \/ Failover
    \/ Touch

Spec == Init /\ [][Next]_vars

\* Caches catch up, timers fire, requests are served, a ready node is signalled
\* sooner or later, and every node ends its update.
FairSpec ==
    /\ Spec
    /\ WF_vars(ObservePlan)
    /\ WF_vars(NewPlan /\ UNCHANGED faults) /\ WF_vars(SchedulableWait)
    /\ WF_vars(SchedulableWrites)
    /\ \A i \in 1..N : /\ SF_vars(Schedulable(i))
                       /\ WF_vars(SchedulableEnds(i) /\ UNCHANGED faults)
    /\ \A c \in Names : WF_vars(Timer(c)) /\ WF_vars(Finish(c))
    /\ \A n \in Nodes : WF_vars(ObserveNode(n)) /\ WF_vars(NodeEnds(n))

-----------------------------------------------------------------------------
(* Properties *)

\* Every variable has its type.
TypeOK ==
    /\ plan \in Plans
    /\ view \in Plans
    /\ queue \subseteq Names
    /\ timers \subseteq Names
    /\ draft \in [on : BOOLEAN, fresh : BOOLEAN, plan : Plans]
    /\ sig \in [Nodes -> Signals]
    /\ seen \in [Nodes -> Signals]
    /\ faults \in 0..MaxFaults

Updating(T) == {n \in T : sig[n].status = "Sent"}

\* docs/autopilot.md: "only **one** controller will be updated at a time."
OneControllerAtATime ==
    \A i \in 1..N : \A c, d \in Updating(Controllers[i]) : c = d

\* docs/autopilot.md: a `concurrent` value "will allow for that number of
\* workers to be updated at a time".
WorkerLimit ==
    \A i \in 1..N :
        Cardinality({n \in Updating(Workers[i]) : sig[n].cmd = i}) <= Limit[i]

\* "It is only when all controllers have updated successfully that worker
\* nodes will receive their update instructions."
WorkersAfterControllers ==
    \A i \in 1..N : \A w \in Workers[i] :
        sig[w].cmd = i =>
            \A c \in Controllers[i] :
                sig[c].cmd > i \/ (sig[c].cmd = i /\ sig[c].status = "Completed")

\* A command is executed only when those before it have completed.
CommandsInOrder ==
    \A n \in Nodes : \A i \in 1..N :
        sig[n].cmd = i => \A j \in 1..i-1 : plan.cmd[j] = "Completed"

\* A completed command has been carried out by every target: its node was
\* signalled for it and ended it successfully, or was signalled again since.
CompletedMeansCarriedOut ==
    \A i \in 1..N : plan.cmd[i] = "Completed" =>
        \A n \in Targets(i) :
            sig[n].cmd >= i /\ (sig[n].cmd = i => sig[n].status = "Completed")

Final == {"Completed"} \cup Errors

\* Once a plan is completed or has failed, no controller changes its state, and
\* none signals a node any more.
StaysFinal ==
    plan.state \in Final =>
        /\ plan'.state = plan.state
        /\ \A n \in Nodes : sig'[n].status = "Sent" => sig[n].status = "Sent"

\* Every plan ends.
PlanEnds == <>(plan.state \in Final)
=============================================================================
