------------------------- MODULE PlanSchedulerProofs -------------------------
(***************************************************************************)
(* Of PlanScheduler, for any plan and any nodes, under every kind of       *)
(* disturbance: TypeOK and CommandsInOrder.  And the invariant Orderly     *)
(* under the disturbances of Calm: which status a plan may be in, and what *)
(* the caches and the pending write have to do with it.  Then the          *)
(* invariant Rollout, for plans without two commands of a kind: what the   *)
(* status says of the signals of the nodes, and that the limits of the     *)
(* plan are kept.                                                          *)
(***************************************************************************)
EXTENDS PlanScheduler, TLAPS

\* Zenon is the prover, and SMT that of the leaves that name it.
USE ZenonT(60)

\* The numbers among the constants.
LEMMA Numbers == N \in Nat /\ N > 0 /\ MaxFaults \in Nat
BY SMTT(30), PlanAssumption

\* A new state for a command keeps the shape of the plan.
LEMMA TransitionType ==
    ASSUME NEW p \in Plans, NEW i \in 1..N, NEW s \in PlanStates
    PROVE  Transition(p, i, s) \in Plans
BY DEF Transition, Plans

\* So does a new state for a target.
LEMMA TargetType ==
    ASSUME NEW p \in Plans, NEW i \in 1..N, NEW n \in Nodes, NEW t \in TargetStates
    PROVE  [p EXCEPT !.target[i][n] = t] \in Plans
BY DEF Plans

\* So does signalling a node.
LEMMA SignalledType ==
    ASSUME NEW p \in Plans, NEW i \in 1..N, NEW n \in Nodes
    PROVE  Signalled(p, i, n) \in Plans
<1>1. Transition(p, i, "SchedulableWait") \in Plans
  BY TransitionType DEF PlanStates
<1>2. QED
  BY <1>1, TargetType DEF Signalled, TargetStates

\* So does reconciling the targets of a command with the signals.
LEMMA ReconcileType ==
    ASSUME NEW p \in Plans, NEW i \in 1..N
    PROVE  /\ ReconcileTargets(p, i) \in Plans
           /\ ReconcileTargets(p, i).cmd = p.cmd
           /\ ReconcileTargets(p, i).size = p.size
<1>1. \A n \in Nodes : Reconciled(i, p.target[i][n], seen[n]) \in TargetStates
  BY DEF Reconciled, TargetStates, Plans
<1>2. QED
  BY <1>1 DEF ReconcileTargets, Plans

\* What SchedulableWait decides is a state.
LEMMA WaitNextType ==
    ASSUME NEW p, NEW i
    PROVE  WaitNext(p, i) \in PlanStates
BY DEF WaitNext, PlanStates, Errors

\* So does newplan, which runs at most twice.
LEMMA InitPlanType ==
    ASSUME NEW p \in Plans, p.size = 0 \/ p.size = N, NEW k \in 0..N,
           NEW f \in {"None", "IncompleteTargets", "Restricted", "Warning"}
    PROVE  InitPlan(p, k, f) \in Plans
<1>1. InitPlan(p, k, f).state \in PlanStates
  BY DEF InitPlan, PlanStates, Errors
<1>2. InitPlan(p, k, f).size \in 0..2*N
  <2>1. k \in Nat /\ k <= N
    BY SMTT(30), Numbers
  <2>2. InitPlan(p, k, f).size = IF k = N THEN p.size + N ELSE p.size + k + 1
    BY DEF InitPlan
  <2>3. CASE p.size = 0
    BY SMTT(30), <2>1, <2>2, <2>3, Numbers
  <2>4. CASE p.size = N
    BY SMTT(30), <2>1, <2>2, <2>4, Numbers
  <2>5. QED
    BY <2>3, <2>4
<1>3. InitPlan(p, k, f).cmd \in [1..N -> PlanStates]
  BY DEF InitPlan, Plans, PlanStates, Errors
<1>4. Discovered(k) \in [1..N -> [Nodes -> TargetStates]]
  BY DEF Discovered, TargetStates
<1>5. InitPlan(p, k, f).target \in [1..N -> [Nodes -> TargetStates]]
  BY <1>4 DEF InitPlan, Plans
<1>6. QED
  BY <1>1, <1>2, <1>3, <1>5 DEF InitPlan, Plans

\* The empty plan and the initial signals have their types.
LEMMA EmptyType == EmptyPlan \in Plans /\ NoDraft \in [on : BOOLEAN, fresh : BOOLEAN, plan : Plans]
<1>1. EmptyPlan \in Plans
  BY SMTT(30), Numbers DEF EmptyPlan, Plans, PlanStates, TargetStates
<1>2. QED
  BY <1>1 DEF NoDraft

\* Requests are for known controllers.
LEMMA KeysType == \A s : UpdateKeys(s) \subseteq Names /\ CreateKeys(s) \subseteq Names
BY DEF UpdateKeys, CreateKeys, Names

\* A write of the status.
LEMMA WriteType ==
    ASSUME TypeOK, NEW c, NEW p \in Plans, WriteStatus(c, p)
    PROVE  /\ plan' \in Plans
           /\ queue' \subseteq Names
           /\ draft' \in [on : BOOLEAN, fresh : BOOLEAN, plan : Plans]
BY DEF TypeOK, WriteStatus

\* A disturbance stays within its bound.
LEMMA FaultType ==
    ASSUME TypeOK, NEW d, Fault(d)
    PROVE  faults' \in 0..MaxFaults
BY SMTT(30), Numbers DEF TypeOK, Fault

-----------------------------------------------------------------------------
(* Types *)

LEMMA TypeInit == Init => TypeOK
<1> SUFFICES ASSUME Init PROVE TypeOK
  OBVIOUS
<1>1. plan \in Plans /\ view \in Plans
  BY EmptyType DEF Init
<1>2. sig \in [Nodes -> Signals]
  <2>1. NoSignal \in Signals /\ [NoSignal EXCEPT !.status = "Completed"] \in Signals
    BY SMTT(30), Numbers DEF NoSignal, Signals
  <2>2. QED
    BY <2>1 DEF Init
<1>3. queue \subseteq Names
  BY KeysType DEF Init
<1>4. faults \in 0..MaxFaults
  BY SMTT(30), Numbers DEF Init
<1>5. timers \subseteq Names
  BY DEF Init
<1>6. draft \in [on : BOOLEAN, fresh : BOOLEAN, plan : Plans]
  BY EmptyType DEF Init
<1>7. seen \in [Nodes -> Signals]
  BY <1>2 DEF Init
<1>8. QED
  BY <1>1, <1>2, <1>3, <1>4, <1>5, <1>6, <1>7 DEF TypeOK

\* What newplan, schedulablewait and Finish write has its type.
LEMMA PlanWritesType ==
    ASSUME TypeOK, NewPlan \/ SchedulableWait \/ \E c \in Names : Finish(c)
    PROVE  TypeOK'
<1>1. CASE NewPlan
  <2>1. InitPlan(view, N, "None") \in Plans
    BY SMTT(30), <1>1, InitPlanType, Numbers DEF NewPlan, TypeOK
  <2>2. CASE WriteStatus("newplan", InitPlan(view, N, "None")) /\ UNCHANGED faults
    BY <1>1, <2>1, <2>2, WriteType DEF NewPlan, TypeOK
  <2>3. CASE /\ Fault("badtarget")
             /\ \E k \in 0..N-1, f \in {"IncompleteTargets", "Restricted", "Warning"} :
                   WriteStatus("newplan", InitPlan(view, k, f))
    <3>1. PICK k \in 0..N-1, f \in {"IncompleteTargets", "Restricted", "Warning"} :
                   WriteStatus("newplan", InitPlan(view, k, f))
      BY <2>3
    <3>2. InitPlan(view, k, f) \in Plans
      BY SMTT(30), <1>1, InitPlanType, Numbers DEF NewPlan, TypeOK
    <3>3. QED
      BY <1>1, <2>3, <3>1, <3>2, WriteType, FaultType DEF NewPlan, TypeOK
  <2>4. CASE Fault("lostreply") /\ plan' = InitPlan(view, N, "None")
             /\ draft' = [draft EXCEPT !.fresh = FALSE] /\ UNCHANGED queue
    BY <1>1, <2>1, <2>4, FaultType DEF NewPlan, TypeOK
  <2>5. QED
    BY <1>1, <2>2, <2>3, <2>4 DEF NewPlan
<1>2. CASE SchedulableWait
  <2>1. PICK i \in 1..N : LET p == ReconcileTargets(view, i) IN
             IF WaitNext(p, i) = "SchedulableWait"
             THEN Retry("schedulablewait")
             ELSE /\ WriteStatus("schedulablewait", Transition(p, i, WaitNext(p, i)))
                  /\ UNCHANGED <<timers, sig>>
    BY <1>2 DEF SchedulableWait
  <2>2. CASE Retry("schedulablewait")
    BY <1>2, <2>2 DEF SchedulableWait, Retry, TypeOK, Names
  <2>3. CASE /\ WriteStatus("schedulablewait", Transition(ReconcileTargets(view, i), i,
                                     WaitNext(ReconcileTargets(view, i), i)))
             /\ UNCHANGED <<timers, sig>>
    <3>1. Transition(ReconcileTargets(view, i), i,
                     WaitNext(ReconcileTargets(view, i), i)) \in Plans
      BY ReconcileType, WaitNextType, TransitionType DEF TypeOK
    <3>2. QED
      BY <1>2, <2>3, <3>1, WriteType DEF SchedulableWait, TypeOK
  <2>4. QED
    BY <2>1, <2>2, <2>3
<1>3. ASSUME NEW c \in Names, Finish(c) PROVE TypeOK'
  <2>1. [view EXCEPT !.state = "Completed"] \in Plans
    BY DEF TypeOK, Plans, PlanStates
  <2>2. QED
    BY <1>3, <2>1, WriteType DEF Finish, TypeOK
<1>4. QED
  BY <1>1, <1>2, <1>3

\* Candidates are nodes.
LEMMA CandidatesType ==
    ASSUME NEW i \in 1..N
    PROVE  Candidates(view, i) \subseteq Nodes
BY PlanAssumption DEF Candidates, In

\* The steps of the schedulable controller keep the types.
LEMMA SchedulableType ==
    ASSUME TypeOK, NEW i \in 1..N,
           SchedulableEnds(i) \/ SchedulableFails(i) \/ Schedulable(i)
    PROVE  TypeOK'
<1>1. CASE SchedulableEnds(i)
  <2>1. Transition(view, i, "Completed") \in Plans
    BY TransitionType DEF TypeOK, PlanStates
  <2>2. CASE WriteStatus("schedulable", Transition(view, i, "Completed")) /\ UNCHANGED faults
    BY <1>1, <2>1, <2>2, WriteType DEF SchedulableEnds, TypeOK
  <2>3. CASE /\ Fault("badtarget")
             /\ \E n \in Candidates(view, i), t \in {"SignalPending", "SignalMissingPlatform"} :
                   WriteStatus("schedulable",
                       [Transition(view, i, "IncompleteTargets") EXCEPT !.target[i][n] = t])
    <3>1. PICK n \in Candidates(view, i), t \in {"SignalPending", "SignalMissingPlatform"} :
                   WriteStatus("schedulable",
                       [Transition(view, i, "IncompleteTargets") EXCEPT !.target[i][n] = t])
      BY <2>3
    <3>2. Transition(view, i, "IncompleteTargets") \in Plans
      BY TransitionType DEF TypeOK, PlanStates, Errors
    <3>3. n \in Nodes /\ t \in TargetStates
      BY CandidatesType DEF TargetStates
    <3>4. [Transition(view, i, "IncompleteTargets") EXCEPT !.target[i][n] = t] \in Plans
      BY <3>2, <3>3, TargetType
    <3>5. QED
      BY <1>1, <2>3, <3>1, <3>4, WriteType, FaultType DEF SchedulableEnds, TypeOK
  <2>4. QED
    BY <1>1, <2>2, <2>3 DEF SchedulableEnds
<1>2. CASE SchedulableFails(i)
  BY <1>2, FaultType DEF SchedulableFails, Retry, TypeOK, Names
<1>3. CASE Schedulable(i)
  <2>1. PICK n \in Candidates(view, i) :
          /\ sig' = [sig EXCEPT ![n] = [cmd |-> i, kind |-> Kinds[i], status |-> "Sent"]]
          /\ draft' = [on |-> TRUE, fresh |-> view = plan, plan |-> Signalled(view, i, n)]
    BY <1>3 DEF Schedulable
  <2>2. n \in Nodes
    BY CandidatesType
  <2>3. [cmd |-> i, kind |-> Kinds[i], status |-> "Sent"] \in Signals
    BY SMTT(30), PlanAssumption, Numbers DEF Signals
  <2>4. sig' \in [Nodes -> Signals]
    BY <2>1, <2>2, <2>3 DEF TypeOK
  <2>5. Signalled(view, i, n) \in Plans
    BY <2>2, SignalledType DEF TypeOK
  <2>6. (view = plan) \in BOOLEAN
    OBVIOUS
  <2>7. draft' \in [on : BOOLEAN, fresh : BOOLEAN, plan : Plans]
    BY <2>1, <2>5, <2>6
  <2>8. QED
    BY <1>3, <2>4, <2>7 DEF Schedulable, TypeOK
<1>4. QED
  BY <1>1, <1>2, <1>3

LEMMA TypeNext == TypeOK /\ [Next]_vars => TypeOK'
<1> SUFFICES ASSUME TypeOK, [Next]_vars PROVE TypeOK'
  OBVIOUS
<1>1. CASE NewPlan \/ SchedulableWait \/ \E c \in Names : Finish(c)
  BY <1>1, PlanWritesType
<1>2. ASSUME NEW i \in 1..N, SchedulableEnds(i) \/ SchedulableFails(i) \/ Schedulable(i)
      PROVE  TypeOK'
  BY <1>2, SchedulableType
<1>3. CASE SchedulableWrites
  <2>1. faults' \in 0..MaxFaults
    BY <1>3, FaultType DEF SchedulableWrites, TypeOK
  <2>2. plan' \in Plans /\ queue' \subseteq Names
    BY <1>3 DEF SchedulableWrites, TypeOK, Names
  <2>3. QED
    BY <1>3, <2>1, <2>2, EmptyType DEF SchedulableWrites, TypeOK
<1>4. CASE ObservePlan
  BY <1>4, KeysType DEF ObservePlan, TypeOK
<1>5. ASSUME NEW c \in Names, Timer(c) PROVE TypeOK'
  BY <1>5 DEF Timer, TypeOK
<1>6. ASSUME NEW n \in Nodes, ObserveNode(n) \/ NodeEnds(n) PROVE TypeOK'
  <2>1. CASE ObserveNode(n)
    BY <2>1 DEF ObserveNode, TypeOK
  <2>2. CASE NodeEnds(n)
    <3>1. PICK r \in {"Completed", "FailedDownload"} : sig' = [sig EXCEPT ![n].status = r]
      BY <2>2 DEF NodeEnds
    <3>2. [sig[n] EXCEPT !.status = r] \in Signals
      BY SMTT(30) DEF TypeOK, Signals
    <3>3. sig' \in [Nodes -> Signals]
      BY <3>1, <3>2 DEF TypeOK
    <3>4. QED
      BY <2>2, <3>3 DEF NodeEnds, TypeOK
  <2>3. QED
    BY <1>6, <2>1, <2>2
<1>7. CASE Failover
  <2>1. faults' \in 0..MaxFaults
    BY <1>7, FaultType DEF Failover
  <2>2. QED
    BY <1>7, <2>1, KeysType, EmptyType DEF Failover, TypeOK
<1>8. CASE Touch
  <2>1. faults' \in 0..MaxFaults
    BY <1>8, FaultType DEF Touch
  <2>2. QED
    BY <1>8, <2>1, KeysType DEF Touch, TypeOK
<1>9. CASE UNCHANGED vars
  BY <1>9 DEF vars, TypeOK
<1>10. QED
  BY <1>1, <1>2, <1>3, <1>4, <1>5, <1>6, <1>7, <1>8, <1>9 DEF Next, Reconcile

\* Every variable keeps its type, in every environment.
THEOREM PlanTypeCorrect == Spec => []TypeOK
BY TypeInit, TypeNext, PTL DEF Spec

-----------------------------------------------------------------------------
(* Order of the commands *)

Done(p) == {j \in 1..N : p.cmd[j] = "Completed"}

\* Completed commands stay completed: the cache never runs ahead of the plan,
\* a status that would be accepted undoes no completion, and nothing but
\* newplan runs on a plan that has no statuses yet.
Ordered ==
    /\ Done(view) \subseteq Done(plan)
    /\ draft.on /\ draft.fresh => Done(plan) \subseteq Done(draft.plan)
    /\ \A n \in Nodes : \A j \in 1..N : j < sig[n].cmd => j \in Done(plan)
    /\ plan.size = 0 => plan.state = "None" /\ Done(plan) = {}
    /\ view.size # 0 => plan.size # 0
    /\ (queue \cup timers) \cap {"schedulablewait", "schedulable"} # {} => view.size # 0
    /\ draft.on => draft.plan.size # 0 /\ view.size # 0

LEMMA OrderedInit == Init => Ordered
<1> SUFFICES ASSUME Init PROVE Ordered
  OBVIOUS
<1>1. plan = EmptyPlan /\ view = EmptyPlan /\ timers = {} /\ draft = NoDraft
  BY DEF Init
<1>2. Done(plan) = {} /\ plan.size = 0 /\ plan.state = "None"
  BY <1>1 DEF Done, EmptyPlan
<1>3. queue = {"newplan"}
  BY SMTT(30), <1>1 DEF Init, CreateKeys, EmptyPlan
<1>4. \A n \in Nodes : sig[n].cmd = 0
  BY SMTT(30) DEF Init, NoSignal
<1>5. draft.on = FALSE
  BY <1>1 DEF NoDraft
<1>6. \A n \in Nodes : \A j \in 1..N : ~(j < sig[n].cmd)
  BY SMTT(30), <1>4, Numbers
<1>7. QED
  BY <1>1, <1>2, <1>3, <1>5, <1>6 DEF Ordered

\* A new state for the current command undoes no completion.
LEMMA TransitionKeeps ==
    ASSUME NEW p \in Plans, NEW i \in 1..N, NEW s, IsCurrent(p, i)
    PROVE  /\ Done(p) \subseteq Done(Transition(p, i, s))
           /\ Transition(p, i, s).size = p.size
BY DEF Transition, Plans, Done, IsCurrent

\* Neither does newplan, as long as a plan without statuses has none to undo.
LEMMA InitPlanKeeps ==
    ASSUME NEW p \in Plans, p.size = 0 \/ p.size = N, NEW k \in 0..N, NEW f,
           p.size = 0 => Done(p) = {}
    PROVE  Done(p) \subseteq Done(InitPlan(p, k, f)) /\ InitPlan(p, k, f).size # 0
<1>1. Done(p) \subseteq Done(InitPlan(p, k, f))
  <2>1. CASE p.size = 0
    BY <2>1
  <2>2. CASE p.size = N
    <3>1. InitPlan(p, k, f).cmd = p.cmd
      BY <2>2, Numbers DEF InitPlan
    <3>2. QED
      BY <3>1 DEF Done
  <2>3. QED
    BY <2>1, <2>2
<1>2. InitPlan(p, k, f).size # 0
  <2>1. InitPlan(p, k, f).size = IF k = N THEN p.size + N ELSE p.size + k + 1
    BY DEF InitPlan
  <2>2. CASE p.size = 0
    BY SMTT(30), <2>1, <2>2, Numbers
  <2>3. CASE p.size = N
    BY SMTT(30), <2>1, <2>3, Numbers
  <2>4. QED
    BY <2>2, <2>3
<1>3. QED
  BY <1>1, <1>2

\* A status that undoes no completion may replace the plan.
LEMMA AcceptedKeeps ==
    ASSUME Ordered, NEW p \in Plans, Done(plan) \subseteq Done(p), p.size # 0,
           plan' = p, queue' \subseteq queue,
           draft' = [draft EXCEPT !.fresh = FALSE], TypeOK,
           UNCHANGED <<view, timers, sig>>
    PROVE  Ordered'
<1>1. ~draft'.fresh /\ draft'.on = draft.on /\ draft'.plan = draft.plan
  BY DEF TypeOK
<1>2. Done(plan') = Done(p) /\ Done(view') = Done(view) /\ Done(draft'.plan) = Done(draft.plan)
  BY <1>1
<1>3. QED
  BY <1>1, <1>2 DEF Ordered

\* A write of the status by controller c.
LEMMA WriteKeeps ==
    ASSUME TypeOK, Ordered, NEW c, NEW p \in Plans, WriteStatus(c, p),
           Done(view) \subseteq Done(p), p.size # 0,
           UNCHANGED <<view, timers, sig>>
    PROVE  Ordered'
<1>1. CASE view = plan /\ plan' = p /\ queue' = queue \ {c}
           /\ draft' = [draft EXCEPT !.fresh = FALSE]
  BY <1>1, AcceptedKeeps
<1>2. CASE view # plan /\ UNCHANGED <<plan, queue, draft>>
  BY <1>2 DEF Ordered, Done
<1>3. QED
  BY <1>1, <1>2 DEF WriteStatus

\* newplan.
LEMMA NewPlanKeeps ==
    ASSUME TypeOK, Ordered, NewPlan
    PROVE  Ordered'
<1>1. view \in Plans /\ (view.size = 0 \/ view.size = N)
  BY DEF TypeOK, NewPlan
<1>2. CASE view = plan
  <2>1. view.size = 0 => Done(view) = {}
    BY <1>2 DEF Ordered
  <2>2. ASSUME NEW k \in 0..N, NEW f \in {"None", "IncompleteTargets", "Restricted", "Warning"}
        PROVE  /\ InitPlan(view, k, f) \in Plans
               /\ Done(view) \subseteq Done(InitPlan(view, k, f))
               /\ InitPlan(view, k, f).size # 0
    BY <1>1, <2>1, InitPlanType, InitPlanKeeps
  <2>3. CASE WriteStatus("newplan", InitPlan(view, N, "None"))
    BY SMTT(30), <2>2, <2>3, WriteKeeps, Numbers DEF NewPlan
  <2>4. ASSUME NEW k \in 0..N-1, NEW f \in {"IncompleteTargets", "Restricted", "Warning"},
               WriteStatus("newplan", InitPlan(view, k, f))
        PROVE  Ordered'
    <3>1. k \in 0..N
      BY SMTT(30), Numbers
    <3>2. QED
      BY <2>2, <2>4, <3>1, WriteKeeps DEF NewPlan
  <2>5. CASE plan' = InitPlan(view, N, "None") /\ UNCHANGED queue
             /\ draft' = [draft EXCEPT !.fresh = FALSE]
    BY SMTT(30), <1>2, <2>2, <2>5, AcceptedKeeps, Numbers DEF NewPlan
  <2>6. QED
    BY <2>3, <2>4, <2>5 DEF NewPlan
<1>3. CASE view # plan
  <2>1. UNCHANGED <<plan, queue, draft, view, timers, sig>>
    BY <1>3 DEF NewPlan, WriteStatus
  <2>2. QED
    BY <2>1 DEF Ordered, Done
<1>4. QED
  BY <1>2, <1>3

\* schedulablewait, and the completion of a plan.
LEMMA SchedulableWaitKeeps ==
    ASSUME TypeOK, Ordered, SchedulableWait \/ \E c \in Names : Finish(c)
    PROVE  Ordered'
<1>1. CASE SchedulableWait
  <2>1. PICK i \in 1..N :
          /\ IsCurrent(view, i)
          /\ LET p == ReconcileTargets(view, i) IN
             IF WaitNext(p, i) = "SchedulableWait"
             THEN Retry("schedulablewait")
             ELSE /\ WriteStatus("schedulablewait", Transition(p, i, WaitNext(p, i)))
                  /\ UNCHANGED <<timers, sig>>
    BY <1>1 DEF SchedulableWait
  <2> DEFINE q == ReconcileTargets(view, i)
             r == Transition(q, i, WaitNext(q, i))
  <2>2. view.size # 0 /\ view \in Plans
    BY <1>1 DEF SchedulableWait, Ordered, TypeOK
  <2>3. q \in Plans /\ q.cmd = view.cmd /\ q.size = view.size
    BY <2>2, ReconcileType
  <2>4. IsCurrent(q, i) /\ Done(q) = Done(view)
    BY <2>1, <2>3 DEF IsCurrent, Done
  <2>5. r \in Plans /\ Done(view) \subseteq Done(r) /\ r.size # 0
    BY <2>2, <2>3, <2>4, TransitionType, WaitNextType, TransitionKeeps
  <2>6. CASE Retry("schedulablewait")
    BY <1>1, <2>2, <2>6 DEF SchedulableWait, Retry, Ordered, Done
  <2>7. CASE WriteStatus("schedulablewait", r) /\ UNCHANGED <<timers, sig>>
    BY <1>1, <2>5, <2>7, WriteKeeps DEF SchedulableWait
  <2>8. QED
    BY <2>1, <2>6, <2>7
<1>2. ASSUME NEW c \in Names, Finish(c) PROVE Ordered'
  <2>1. view.size # 0 /\ view \in Plans
    BY <1>2 DEF Finish, Ordered, TypeOK, Names
  <2> DEFINE r == [view EXCEPT !.state = "Completed"]
  <2>2. r \in Plans /\ Done(view) \subseteq Done(r) /\ r.size # 0
    BY <2>1 DEF Plans, PlanStates, Done
  <2>3. CASE queue' = queue \ {c} /\ UNCHANGED <<plan, draft>>
    BY <1>2, <2>3 DEF Finish, Ordered, Done
  <2>4. CASE WriteStatus(c, r)
    BY <1>2, <2>2, <2>4, WriteKeeps DEF Finish
  <2>5. QED
    BY <1>2, <2>3, <2>4 DEF Finish
<1>3. QED
  BY <1>1, <1>2

\* The handler of schedulable.
LEMMA SchedulableKeeps ==
    ASSUME TypeOK, Ordered, NEW i \in 1..N,
           SchedulableEnds(i) \/ SchedulableFails(i) \/ Schedulable(i)
    PROVE  Ordered'
<1>1. /\ view.size # 0 /\ view \in Plans
      /\ IsCurrent(view, i)
      /\ "schedulable" \in queue
      /\ ~draft.on
  BY DEF SchedulableEnds, SchedulableFails, Schedulable, SchedulableReady, Ordered, TypeOK
<1>2. ASSUME NEW s \in PlanStates
      PROVE  /\ Transition(view, i, s) \in Plans
             /\ Done(view) \subseteq Done(Transition(view, i, s))
             /\ Transition(view, i, s).size # 0
  BY <1>1, TransitionType, TransitionKeeps
<1>3. ASSUME NEW s \in PlanStates, NEW n \in Nodes, NEW t \in TargetStates
      PROVE  LET p == [Transition(view, i, s) EXCEPT !.target[i][n] = t] IN
             /\ p \in Plans
             /\ Done(view) \subseteq Done(p)
             /\ p.size # 0
  <2>1. [Transition(view, i, s) EXCEPT !.target[i][n] = t] \in Plans
    BY <1>2, TargetType
  <2>2. QED
    BY <1>2, <2>1 DEF Done, Plans
<1>4. CASE SchedulableEnds(i)
  <2>1. CASE WriteStatus("schedulable", Transition(view, i, "Completed"))
    <3>1. "Completed" \in PlanStates
      BY DEF PlanStates
    <3>2. QED
      BY <1>2, <1>4, <2>1, <3>1, WriteKeeps DEF SchedulableEnds
  <2>2. ASSUME NEW n \in Candidates(view, i), NEW t \in {"SignalPending", "SignalMissingPlatform"},
               WriteStatus("schedulable",
                   [Transition(view, i, "IncompleteTargets") EXCEPT !.target[i][n] = t])
        PROVE  Ordered'
    <3>1. "IncompleteTargets" \in PlanStates /\ n \in Nodes /\ t \in TargetStates
      BY CandidatesType DEF PlanStates, Errors, TargetStates
    <3>2. QED
      BY <1>3, <1>4, <2>2, <3>1, WriteKeeps DEF SchedulableEnds
  <2>3. QED
    BY <1>4, <2>1, <2>2 DEF SchedulableEnds
<1>5. CASE SchedulableFails(i)
  BY <1>1, <1>5 DEF SchedulableFails, Retry, Ordered, Done
<1>6. CASE Schedulable(i)
  <2>1. PICK n \in Candidates(view, i) :
          /\ sig' = [sig EXCEPT ![n] = [cmd |-> i, kind |-> Kinds[i], status |-> "Sent"]]
          /\ draft' = [on |-> TRUE, fresh |-> view = plan, plan |-> Signalled(view, i, n)]
    BY <1>6 DEF Schedulable
  <2>2. n \in Nodes /\ "SchedulableWait" \in PlanStates /\ "SignalSent" \in TargetStates
    BY CandidatesType DEF PlanStates, TargetStates
  <2>3. Done(view) \subseteq Done(Signalled(view, i, n)) /\ Signalled(view, i, n).size # 0
    BY <1>3, <2>2 DEF Signalled
  <2>4. UNCHANGED <<plan, view, timers>> /\ queue' \subseteq queue
    BY <1>6 DEF Schedulable
  <2>5. \A j \in 1..N : j < i => j \in Done(plan)
    BY SMTT(30), <1>1, Numbers DEF IsCurrent, Done, Ordered
  <2>6. \A m \in Nodes : \A j \in 1..N : j < sig'[m].cmd => j \in Done(plan)
    BY <2>1, <2>2, <2>5 DEF Ordered, TypeOK
  <2>7. draft'.fresh => Done(plan) \subseteq Done(draft'.plan)
    BY <2>1, <2>3
  <2>8. draft'.plan.size # 0
    BY <2>1, <2>3
  <2>9. QED
    BY <1>1, <2>4, <2>6, <2>7, <2>8 DEF Ordered, Done
<1>7. QED
  BY <1>4, <1>5, <1>6

\* A plan in a state that has a controller has statuses.
LEMMA KeysNeedStatuses ==
    ASSUME Ordered, UpdateKeys(plan.state) # {}
    PROVE  plan.size # 0
BY DEF Ordered, UpdateKeys

LEMMA OrderedNext == TypeOK /\ Ordered /\ [Next]_vars => Ordered'
<1> SUFFICES ASSUME TypeOK, Ordered, [Next]_vars PROVE Ordered'
  OBVIOUS
<1>1. CASE NewPlan
  BY <1>1, NewPlanKeeps
<1>2. CASE SchedulableWait \/ \E c \in Names : Finish(c)
  BY <1>2, SchedulableWaitKeeps
<1>3. ASSUME NEW i \in 1..N, SchedulableEnds(i) \/ SchedulableFails(i) \/ Schedulable(i)
      PROVE  Ordered'
  BY <1>3, SchedulableKeeps
<1>4. CASE SchedulableWrites
  <2>1. draft.on /\ draft' = NoDraft /\ UNCHANGED <<view, timers, sig>>
    BY <1>4 DEF SchedulableWrites
  <2>2. ~draft'.on
    BY <2>1 DEF NoDraft
  <2>3. CASE draft.fresh /\ plan' = draft.plan /\ UNCHANGED queue
    BY <2>1, <2>2, <2>3 DEF Ordered, Done
  <2>4. CASE queue' = queue \cup {"schedulable"} /\ UNCHANGED plan
    <3>1. view.size # 0
      BY <2>1 DEF Ordered
    <3>2. QED
      BY <2>1, <2>2, <2>4, <3>1 DEF Ordered, Done
  <2>5. QED
    BY <1>4, <2>3, <2>4 DEF SchedulableWrites
<1>5. CASE ObservePlan
  BY <1>5, KeysNeedStatuses DEF ObservePlan, Ordered, Done
<1>6. ASSUME NEW c \in Names, Timer(c) PROVE Ordered'
  BY <1>6 DEF Timer, Ordered, Done
<1>7. ASSUME NEW n \in Nodes, ObserveNode(n) PROVE Ordered'
  BY <1>7 DEF ObserveNode, Ordered, Done
<1>8. ASSUME NEW n \in Nodes, NodeEnds(n) PROVE Ordered'
  <2>1. \A m \in Nodes : sig'[m].cmd = sig[m].cmd
    BY SMTT(30), <1>8 DEF NodeEnds, TypeOK, Signals
  <2>2. QED
    BY <1>8, <2>1 DEF NodeEnds, Ordered, Done
<1>9. CASE Failover
  <2>1. ~draft'.on
    BY <1>9 DEF Failover, NoDraft
  <2>2. queue' \cap {"schedulablewait", "schedulable"} # {} => plan.size # 0
    BY <1>9, KeysNeedStatuses DEF Failover, CreateKeys
  <2>3. QED
    BY <1>9, <2>1, <2>2 DEF Failover, Ordered, Done
<1>10. CASE Touch
  <2>1. ~draft'.fresh /\ draft'.on = draft.on /\ draft'.plan = draft.plan
    BY <1>10 DEF Touch, TypeOK
  <2>2. QED
    BY <1>10, <2>1, KeysNeedStatuses DEF Touch, Ordered, Done
<1>11. CASE UNCHANGED vars
  BY <1>11 DEF vars, Ordered, Done
<1>12. QED
  BY <1>1, <1>2, <1>3, <1>4, <1>5, <1>6, <1>7, <1>8, <1>9, <1>10, <1>11 DEF Next, Reconcile

LEMMA OrderedImplies == TypeOK /\ Ordered => CommandsInOrder
BY SMTT(30), Numbers DEF Ordered, Done, CommandsInOrder

\* No node is ever signalled for a command before all earlier commands of the
\* plan have completed: whatever is stale, lost, crashed or changed meanwhile.
THEOREM CommandsRunInOrder == Spec => []CommandsInOrder
<1>1. Init => TypeOK /\ Ordered
  BY TypeInit, OrderedInit
<1>2. TypeOK /\ Ordered /\ [Next]_vars => (TypeOK /\ Ordered)'
  BY TypeNext, OrderedNext
<1>3. QED
  BY <1>1, <1>2, OrderedImplies, PTL DEF Spec
-----------------------------------------------------------------------------
(* One request at a time *)

\* The disturbances under which the promises of the documentation are kept.
Calm == Allowed \subseteq {"failover", "apierror", "badtarget"}

\* One request at a time, for the controller that the state of the plan is for: while a
\* node is being signalled there is none, and while the cache is behind neither.
Orderly ==
    /\ draft.on => /\ view = plan /\ draft.fresh /\ plan.state = "Schedulable"
                   /\ draft.plan.state = "SchedulableWait"
                   /\ queue = {} /\ timers = {}
    /\ view # plan => queue = {} /\ timers = {} /\ plan.state # "None"
    /\ view = plan => queue \cup timers \subseteq CreateKeys(plan.state)
    /\ queue \cap timers = {}
    /\ plan.state = "None" => plan = EmptyPlan


LEMMA TransitionFields ==
    ASSUME NEW p \in Plans, NEW i \in 1..N, NEW s \in PlanStates
    PROVE  /\ Transition(p, i, s).target = p.target
           /\ Transition(p, i, s).cmd = [p.cmd EXCEPT ![i] = s]
           /\ Transition(p, i, s).state = IF s = "Completed" THEN p.state ELSE s
BY DEF Transition, Plans

LEMMA ReconcileFields ==
    ASSUME NEW p \in Plans, NEW i \in 1..N
    PROVE  /\ ReconcileTargets(p, i).target = [p.target EXCEPT ![i] =
                             [n \in Nodes |-> Reconciled(i, p.target[i][n], seen[n])]]
           /\ ReconcileTargets(p, i).cmd = p.cmd
           /\ ReconcileTargets(p, i).state = p.state
BY DEF ReconcileTargets, Plans

LEMMA SignalledFields ==
    ASSUME NEW p \in Plans, NEW i \in 1..N, NEW n \in Nodes
    PROVE  /\ Signalled(p, i, n).target = [p.target EXCEPT ![i] = [@ EXCEPT ![n] = "SignalSent"]]
           /\ Signalled(p, i, n).cmd = [p.cmd EXCEPT ![i] = "SchedulableWait"]
           /\ Signalled(p, i, n).state = "SchedulableWait"
BY DEF Signalled, Transition, Plans

LEMMA SignalledState ==
    ASSUME NEW p \in Plans, NEW i \in 1..N, NEW n \in Nodes
    PROVE  Signalled(p, i, n).state = "SchedulableWait"
BY DEF Signalled, Transition, Plans

LEMMA InitPlanState ==
    ASSUME NEW p, NEW k, NEW f
    PROVE  InitPlan(p, k, f).state = IF k = N THEN "SchedulableWait" ELSE f
BY DEF InitPlan

\* A request that is served is the only one, and about the plan as it is stored.
LEMMA Served ==
    ASSUME TypeOK, Orderly, NEW c \in queue
    PROVE  /\ view = plan /\ ~draft.on
           /\ queue = {c} /\ timers = {} /\ c \in CreateKeys(plan.state)
<1>1. view = plan /\ ~draft.on
  BY DEF Orderly
<1>2. queue \subseteq CreateKeys(plan.state) /\ timers \subseteq CreateKeys(plan.state)
  BY <1>1 DEF Orderly
<1>3. \A x, y \in CreateKeys(plan.state) : x = y
  BY DEF CreateKeys, UpdateKeys
<1>4. timers = {}
  BY <1>2, <1>3 DEF Orderly
<1> QED BY <1>1, <1>2, <1>3, <1>4

\* The write that ends a request.
LEMMA ServedWrite ==
    ASSUME TypeOK, Orderly, NEW c \in queue, NEW p \in Plans, WriteStatus(c, p)
    PROVE  plan' = p /\ queue' = {} /\ ~draft'.on
<1>1. view = plan /\ ~draft.on /\ queue = {c}
  BY Served
<1> QED BY <1>1 DEF WriteStatus, TypeOK

LEMMA OrderlyWrite ==
    ASSUME TypeOK, Orderly, NEW c \in queue, NEW p \in Plans, WriteStatus(c, p),
           p.state # "None", UNCHANGED <<view, timers>>
    PROVE  Orderly'
<1>1. plan' = p /\ queue' = {} /\ timers' = {} /\ ~draft'.on
  BY Served, ServedWrite
<1> QED BY <1>1 DEF Orderly

\* A request that is dropped or put off.
LEMMA OrderlyRetry ==
    ASSUME TypeOK, Orderly, NEW c \in queue, queue' = queue \ {c}, timers' \subseteq {c},
           UNCHANGED <<plan, view, draft>>
    PROVE  Orderly'
<1>1. view = plan /\ ~draft.on /\ queue = {c} /\ c \in CreateKeys(plan.state)
  BY Served
<1> QED BY <1>1 DEF Orderly

LEMMA OrderlyInit == Init => Orderly
BY SMTT(30) DEF Init, Orderly, NoDraft, EmptyPlan, CreateKeys

LEMMA OrderlyNext ==
    ASSUME Calm, TypeOK, Orderly, [Next]_vars
    PROVE  Orderly'
<1>0. view \in Plans
  BY DEF TypeOK
<1>1. CASE NewPlan
  <2>1. "newplan" \in queue /\ (view.size = 0 \/ view.size = N) /\ UNCHANGED <<view, timers>>
    BY <1>1 DEF NewPlan
  <2>2. PICK k \in 0..N, f \in {"None", "IncompleteTargets", "Restricted", "Warning"} :
          /\ WriteStatus("newplan", InitPlan(view, k, f))
          /\ k # N => f # "None"
    BY SMTT(30), <1>1, Numbers DEF NewPlan, Fault, Calm
  <2>3. InitPlan(view, k, f) \in Plans
    BY <1>0, <2>1, InitPlanType
  <2>4. InitPlan(view, k, f).state # "None"
    BY <2>2, InitPlanState
  <2> QED BY <2>1, <2>2, <2>3, <2>4, OrderlyWrite
<1>2. CASE SchedulableWait
  <2>1. "schedulablewait" \in queue /\ UNCHANGED view
    BY <1>2 DEF SchedulableWait
  <2>2. PICK i \in 1..N :
          LET p == ReconcileTargets(view, i) IN
          \/ Retry("schedulablewait")
          \/ /\ WriteStatus("schedulablewait", Transition(p, i, WaitNext(p, i)))
             /\ UNCHANGED timers
    BY <1>2 DEF SchedulableWait
  <2>3. CASE Retry("schedulablewait")
    BY <2>1, <2>3, Served, OrderlyRetry DEF Retry
  <2> DEFINE p == ReconcileTargets(view, i)
             q == Transition(p, i, WaitNext(p, i))
  <2>4. CASE WriteStatus("schedulablewait", q) /\ UNCHANGED timers
    <3>1. p \in Plans /\ q \in Plans
      BY <1>0, ReconcileType, WaitNextType, TransitionType
    <3>2. view.state = "SchedulableWait"
      BY <2>1, Served DEF CreateKeys, UpdateKeys
    <3>3. p.state = "SchedulableWait"
      BY <1>0, <3>2, ReconcileFields
    <3>4. WaitNext(p, i) # "None" /\ WaitNext(p, i) \in PlanStates
      BY WaitNextType DEF WaitNext
    <3> HIDE DEF p
    <3>5. q.state # "None"
      BY <3>1, <3>3, <3>4 DEF Transition, Plans
    <3> QED BY <2>1, <2>4, <3>1, <3>5, OrderlyWrite
  <2> QED BY <2>2, <2>3, <2>4
<1>3. ASSUME NEW i \in 1..N, SchedulableEnds(i) PROVE Orderly'
  <2>1. "schedulable" \in queue /\ UNCHANGED <<view, timers>>
    BY <1>3 DEF SchedulableEnds, SchedulableReady
  <2>2. view.state = "Schedulable"
    BY <2>1, Served DEF CreateKeys, UpdateKeys
  <2>3. CASE WriteStatus("schedulable", Transition(view, i, "Completed"))
    <3>1. Transition(view, i, "Completed") \in Plans
      BY <1>0, TransitionType DEF PlanStates
    <3>2. Transition(view, i, "Completed").state # "None"
      BY <1>0, <2>2, TransitionFields DEF PlanStates
    <3> QED BY <2>1, <2>3, <3>1, <3>2, OrderlyWrite
  <2>4. ASSUME NEW n \in Candidates(view, i), NEW t \in {"SignalPending", "SignalMissingPlatform"},
               WriteStatus("schedulable",
                   [Transition(view, i, "IncompleteTargets") EXCEPT !.target[i][n] = t])
        PROVE  Orderly'
    <3> DEFINE q == Transition(view, i, "IncompleteTargets")
               r == [q EXCEPT !.target[i][n] = t]
    <3>1. q \in Plans
      BY <1>0, TransitionType DEF PlanStates, Errors
    <3>2. q.state = "IncompleteTargets"
      BY <1>0 DEF Transition, Plans
    <3> HIDE DEF q
    <3>3. r \in Plans /\ r.state = "IncompleteTargets"
      BY <3>1, <3>2, CandidatesType, TargetType DEF TargetStates, Plans
    <3>4. WriteStatus("schedulable", r)
      BY <2>4 DEF q
    <3> HIDE DEF r
    <3> QED BY <2>1, <3>3, <3>4, OrderlyWrite
  <2> QED BY <1>3, <2>3, <2>4 DEF SchedulableEnds
<1>4. ASSUME NEW i \in 1..N, SchedulableFails(i) PROVE Orderly'
  BY <1>4, Served, OrderlyRetry DEF SchedulableFails, SchedulableReady, Retry
<1>5. ASSUME NEW i \in 1..N, Schedulable(i) PROVE Orderly'
  <2>1. "schedulable" \in queue
    BY <1>5 DEF Schedulable, SchedulableReady
  <2>2. view = plan /\ queue = {"schedulable"} /\ timers = {} /\ plan.state = "Schedulable"
    BY <2>1, Served DEF CreateKeys, UpdateKeys
  <2>3. PICK n \in Candidates(view, i) :
          draft' = [on |-> TRUE, fresh |-> view = plan, plan |-> Signalled(view, i, n)]
    BY <1>5 DEF Schedulable
  <2>4. Signalled(view, i, n).state = "SchedulableWait"
    <3>1. n \in Nodes
      BY CandidatesType
    <3>2. view \in Plans
      BY <1>0
    <3> QED BY <3>1, <3>2, SignalledState
  <2>5. queue' = {} /\ UNCHANGED <<plan, view, timers>>
    BY <1>5, <2>2 DEF Schedulable
  <2>6. draft'.on /\ draft'.fresh /\ draft'.plan.state = "SchedulableWait"
    BY <2>2, <2>3, <2>4
  <2> QED BY <2>2, <2>5, <2>6 DEF Orderly
<1>6. CASE SchedulableWrites
  <2>1. draft.on /\ draft.fresh /\ queue = {} /\ timers = {}
        /\ draft.plan.state = "SchedulableWait"
    BY <1>6 DEF SchedulableWrites, Orderly
  <2>2. plan' = draft.plan /\ ~draft'.on /\ UNCHANGED <<queue, timers, view>>
    BY <1>6, <2>1 DEF SchedulableWrites, Calm, NoDraft
  <2> QED BY <2>1, <2>2 DEF Orderly
<1>7. ASSUME NEW c \in Names, Finish(c) PROVE Orderly'
  <2>1. c \in queue /\ UNCHANGED <<view, timers>>
    BY <1>7 DEF Finish
  <2>2. CASE queue' = queue \ {c} /\ UNCHANGED <<plan, draft>>
    BY <2>1, <2>2, Served, OrderlyRetry
  <2>3. CASE WriteStatus(c, [view EXCEPT !.state = "Completed"])
    <3>1. [view EXCEPT !.state = "Completed"] \in Plans
          /\ [view EXCEPT !.state = "Completed"].state # "None"
      BY <1>0 DEF Plans, PlanStates
    <3> QED BY <2>1, <2>3, <3>1, OrderlyWrite
  <2> QED BY <1>7, <2>2, <2>3 DEF Finish
<1>8. CASE ObservePlan
  <2>1. view # plan /\ queue = {} /\ timers = {} /\ ~draft.on /\ plan.state # "None"
    BY <1>8 DEF ObservePlan, Orderly
  <2>2. view' = plan' /\ plan' = plan /\ draft' = draft /\ timers' = {}
        /\ queue' = UpdateKeys(plan.state)
    BY <1>8, <2>1 DEF ObservePlan
  <2>3. UpdateKeys(plan.state) \subseteq CreateKeys(plan.state)
    BY DEF CreateKeys, UpdateKeys
  <2> QED BY <2>1, <2>2, <2>3 DEF Orderly
<1>9. ASSUME NEW c \in Names, Timer(c) PROVE Orderly'
  BY <1>9 DEF Timer, Orderly
<1>10. ASSUME NEW n \in Nodes, ObserveNode(n) \/ NodeEnds(n) PROVE Orderly'
  BY <1>10 DEF ObserveNode, NodeEnds, Orderly
<1>11. CASE Failover
  <2>1. ~draft.on
    BY <1>11 DEF Failover, Fault, Calm
  <2>2. view' = plan' /\ plan' = plan /\ queue' = CreateKeys(plan.state) /\ timers' = {}
        /\ ~draft'.on
    BY <1>11 DEF Failover, NoDraft
  <2> QED BY <2>2 DEF Orderly
<1>12. CASE Touch
  BY <1>12 DEF Touch, Fault, Calm
<1>13. CASE UNCHANGED vars
  BY <1>13 DEF vars, Orderly
<1> QED
  BY <1>1, <1>2, <1>3, <1>4, <1>5, <1>6, <1>7, <1>8, <1>9, <1>10, <1>11, <1>12, <1>13
     DEF Next, Reconcile

-----------------------------------------------------------------------------
(* What the status says of the signals *)

\* Signals are told apart by the kind of their command.
OneOfAKind == \A i, j \in 1..N : Kinds[i] = Kinds[j] => i = j

\* The status of the plan, with the one about to be written.
Recorded == IF draft.on THEN draft.plan ELSE plan

\* The signal s of a node is one of the plan's, and the cached one, v, no newer.
SignalFits(n, s, v) ==
    /\ \/ s = NoSignal
       \/ /\ s.cmd \in 1..N /\ n \in Targets(s.cmd)
          /\ s.kind = Kinds[s.cmd] /\ s.status # "Absent"
    /\ \/ v = NoSignal
       \/ v = s
       \/ /\ v.cmd \in 1..N /\ v.kind = Kinds[v.cmd]
          /\ v.cmd < s.cmd \/ (v.cmd = s.cmd /\ v.status = "Sent")

SignalsFit == \A n \in Nodes : SignalFits(n, sig[n], seen[n])

\* What the state of a target of command i says of the signal of its node.
TargetFits(state, i, s) ==
    /\ state \in {"NoTarget", "SignalPending", "SignalMissingPlatform"} => s.cmd < i
    /\ state = "SignalSent" => s.cmd = i
    /\ state = "SignalCompleted" => s.cmd > i \/ (s.cmd = i /\ s.status = "Completed")
    /\ state = "SignalApplyFailed" => s.cmd = i /\ s.status = "FailedDownload"

\* A status says of the signals what they are, and a completed command has
\* completed targets.
FitsAt(q, i, n, s) ==
    /\ TargetFits(q.target[i][n], i, s)
    /\ q.cmd[i] = "Completed" => q.target[i][n] = "SignalCompleted"
    /\ q.state \in {"SchedulableWait", "Schedulable"} => q.target[i][n] # "NoTarget"

Fits(q, g) == \A i \in 1..N : \A n \in Targets(i) : FitsAt(q, i, n, g[n])

\* The limits, as recorded, and the order of controllers and workers.
SentC(q, i) == In(q, i, Controllers[i], "SignalSent")
SentW(q, i) == In(q, i, Workers[i], "SignalSent")

KeptAt(q, i, g) ==
    /\ \A c, d \in SentC(q, i) : c = d
    /\ Cardinality(SentW(q, i)) <= Limit[i]
    /\ \A w \in Workers[i] : g[w].cmd = i =>
           \A c \in Controllers[i] : q.target[i][c] = "SignalCompleted"

Kept(q, g) == \A i \in 1..N : KeptAt(q, i, g)

\* What schedulablewait has found before it makes a plan Schedulable.
Ready(p, i) ==
    \/ /\ In(p, i, Controllers[i], "SignalPending") # {}
       /\ SentC(p, i) = {}
    \/ /\ IsCompleted(p, i, Controllers[i])
       /\ In(p, i, Workers[i], "SignalPending") # {}
       /\ Cardinality(SentW(p, i)) < Limit[i]

ReadyWhenSchedulable(q) ==
    q.state = "Schedulable" => \E i \in 1..N : IsCurrent(q, i) /\ Ready(q, i)

Rollout ==
    SignalsFit /\ ReadyWhenSchedulable(plan) /\ Fits(Recorded, sig) /\ Kept(Recorded, sig)

\* What the rollout needs to know of numbers of nodes (CountingNodes, below).
Counting ==
    /\ Cardinality({}) = 0
    /\ \A S \in SUBSET Nodes : Cardinality(S) \in Nat /\ (Cardinality(S) = 0 => S = {})
    /\ \A S \in SUBSET Nodes : \A T \in SUBSET S : Cardinality(T) <= Cardinality(S)
    /\ \A S \in SUBSET Nodes : \A n \in Nodes \ S : Cardinality(S \cup {n}) = Cardinality(S) + 1

-----------------------------------------------------------------------------
(* Facts about statuses and signals *)

LEMMA NoSignalFields == NoSignal.cmd = 0 /\ NoSignal.status = "Absent"
BY DEF NoSignal

LEMMA PlanFields ==
    ASSUME NEW p \in Plans
    PROVE  p.target \in [1..N -> [Nodes -> TargetStates]] /\ p.cmd \in [1..N -> PlanStates]
BY DEF Plans

LEMMA TargetOf ==
    ASSUME NEW p \in Plans, NEW i \in 1..N, NEW n \in Nodes
    PROVE  p.target[i][n] \in TargetStates
<1>1. p.target \in [1..N -> [Nodes -> TargetStates]]
  BY PlanFields
<1>2. p.target[i] \in [Nodes -> TargetStates]
  BY <1>1
<1> QED BY <1>2

LEMMA SignalFields ==
    ASSUME NEW s \in Signals
    PROVE  s.cmd \in Nat
BY SMTT(30), Numbers DEF Signals

LEMMA Index ==
    ASSUME NEW i \in 1..N
    PROVE  i \in Nat /\ i > 0 /\ i <= N
BY SMTT(30), Numbers

\* Targets are nodes, and nodes are finitely many.
LEMMA NodesOf ==
    ASSUME NEW i \in 1..N
    PROVE  /\ Controllers[i] \subseteq Nodes /\ Workers[i] \subseteq Nodes
           /\ Targets(i) \subseteq Nodes /\ Limit[i] \in Nat
           /\ Controllers[i] \subseteq Targets(i) /\ Workers[i] \subseteq Targets(i)
BY PlanAssumption DEF Targets

LEMMA NumberIn ==
    ASSUME Counting, NEW q, NEW i \in 1..N
    PROVE  /\ SentC(q, i) \in SUBSET Nodes /\ Cardinality(SentC(q, i)) \in Nat
           /\ SentW(q, i) \in SUBSET Nodes /\ Cardinality(SentW(q, i)) \in Nat
<1>1. SentC(q, i) \in SUBSET Nodes /\ SentW(q, i) \in SUBSET Nodes
  BY NodesOf DEF SentC, SentW, In
<1> QED BY <1>1 DEF Counting

\* A command of a status that no target is signalled for.
LEMMA NobodySent ==
    ASSUME Counting, NEW q, NEW i \in 1..N, NEW g,
           \A n \in Targets(i) : q.target[i][n] # "SignalSent",
           \A n \in Targets(i) : g[n].cmd # i
    PROVE  KeptAt(q, i, g)
<1>1. SentC(q, i) = {} /\ SentW(q, i) = {}
  BY NodesOf DEF SentC, SentW, In
<1>2. Cardinality({}) = 0 /\ Limit[i] \in Nat
  BY NodesOf DEF Counting
<1>3. \A w \in Workers[i] : g[w].cmd # i
  BY NodesOf
<1> QED BY SMTT(30), <1>1, <1>2, <1>3 DEF KeptAt

\* What a write may do to the targets of command i: no target is lost, signalled,
\* or no longer completed.
AdvancesAt(p, q, i, n) ==
    /\ q.target[i][n] = "NoTarget" => p.target[i][n] = "NoTarget"
    /\ q.target[i][n] = "SignalSent" => p.target[i][n] = "SignalSent"
    /\ p.target[i][n] = "SignalCompleted" => q.target[i][n] = "SignalCompleted"

SameAt(p, q, j) == q.cmd[j] = p.cmd[j] /\ q.target[j] = p.target[j]

\* The limits stay kept.
LEMMA AdvanceKeeps ==
    ASSUME Counting, NEW p, NEW q, NEW i \in 1..N, NEW g, KeptAt(p, i, g),
           \A n \in Targets(i) : AdvancesAt(p, q, i, n)
    PROVE  KeptAt(q, i, g)
<1>1. SentC(q, i) \in SUBSET SentC(p, i) /\ SentW(q, i) \in SUBSET SentW(p, i)
  BY NodesOf DEF SentC, SentW, In, AdvancesAt
<1>2. \A c, d \in SentC(q, i) : c = d
  BY <1>1 DEF KeptAt
<1>3. Cardinality(SentW(q, i)) <= Limit[i]
  <2>1. /\ SentW(p, i) \in SUBSET Nodes /\ Cardinality(SentW(p, i)) \in Nat
        /\ Cardinality(SentW(q, i)) \in Nat /\ Limit[i] \in Nat
    BY NumberIn, NodesOf
  <2>2. Cardinality(SentW(q, i)) <= Cardinality(SentW(p, i))
    BY <1>1, <2>1 DEF Counting
  <2>3. Cardinality(SentW(p, i)) <= Limit[i]
    BY DEF KeptAt
  <2> QED BY SMTT(30), <2>1, <2>2, <2>3
<1>4. \A w \in Workers[i] : g[w].cmd = i =>
          \A c \in Controllers[i] : q.target[i][c] = "SignalCompleted"
  BY NodesOf DEF KeptAt, AdvancesAt
<1> QED BY <1>2, <1>3, <1>4 DEF KeptAt

LEMMA SameKeeps ==
    ASSUME NEW p, NEW q, NEW i \in 1..N, NEW g, KeptAt(p, i, g), SameAt(p, q, i)
    PROVE  KeptAt(q, i, g)
BY DEF KeptAt, SameAt, SentC, SentW, In

\* The limits hold when command i advances and the others stay as they are.
LEMMA WriteIsKept ==
    ASSUME Counting, NEW p, NEW q, NEW i \in 1..N, NEW g, Kept(p, g),
           \A j \in 1..N : j # i => SameAt(p, q, j),
           \A n \in Targets(i) : AdvancesAt(p, q, i, n)
    PROVE  Kept(q, g)
<1> SUFFICES ASSUME NEW j \in 1..N PROVE KeptAt(q, j, g)
  BY DEF Kept
<1>1. KeptAt(p, j, g)
  BY DEF Kept
<1>2. CASE j = i
  BY <1>1, <1>2, AdvanceKeeps
<1>3. CASE j # i
  BY <1>1, <1>3, SameKeeps
<1> QED BY <1>2, <1>3

LEMMA WriteFits ==
    ASSUME NEW p, NEW q, NEW i \in 1..N, NEW g, Fits(p, g),
           p.state \in {"SchedulableWait", "Schedulable"},
           \A j \in 1..N : j # i => SameAt(p, q, j),
           \A n \in Targets(i) : /\ TargetFits(q.target[i][n], i, g[n])
                                 /\ q.cmd[i] = "Completed" => q.target[i][n] = "SignalCompleted"
                                 /\ AdvancesAt(p, q, i, n)
    PROVE  Fits(q, g)
<1> SUFFICES ASSUME NEW j \in 1..N, NEW n \in Targets(j) PROVE FitsAt(q, j, n, g[n])
  BY DEF Fits
<1>1. FitsAt(p, j, n, g[n])
  BY DEF Fits
<1>2. CASE j = i
  BY <1>1, <1>2 DEF FitsAt, AdvancesAt
<1>3. CASE j # i
  BY <1>1, <1>3 DEF FitsAt, SameAt
<1> QED BY <1>2, <1>3

\* Reconciling a target with the cached signal of its node leaves it fitting, and
\* neither adds targets nor signals nor undoes a completion.
LEMMA ReconciledFits ==
    ASSUME OneOfAKind, NEW i \in 1..N, NEW n, NEW st \in TargetStates,
           NEW s \in Signals, NEW v \in Signals, SignalFits(n, s, v), TargetFits(st, i, s)
    PROVE  /\ TargetFits(Reconciled(i, st, v), i, s)
           /\ Reconciled(i, st, v) = "NoTarget" => st = "NoTarget"
           /\ Reconciled(i, st, v) = "SignalSent" => st = "SignalSent"
           /\ st = "SignalCompleted" => Reconciled(i, st, v) = "SignalCompleted"
<1>0. s.cmd \in Nat /\ v.cmd \in Nat /\ i \in Nat
  BY SignalFields, Index
<1>1. CASE Reconciled(i, st, v) = st
  BY <1>1
<1>2. CASE /\ st \notin {"NoTarget", "SignalCompleted"} /\ v.kind = Kinds[i]
           /\ v.status \in {"FailedDownload", "Completed"}
  <2>1. v # NoSignal
    BY <1>2, NoSignalFields
  <2>2. v.cmd \in 1..N /\ v.kind = Kinds[v.cmd]
    BY <2>1, <1>2 DEF SignalFits
  <2>3. v.cmd = i
    BY <1>2, <2>2 DEF OneOfAKind
  <2>4. ~(i < s.cmd)
    BY SMTT(30), <1>0, <1>2 DEF TargetFits, TargetStates
  <2>5. v = s
    BY <1>0, <1>2, <2>1, <2>3, <2>4 DEF SignalFits
  <2>6. Reconciled(i, st, v) = IF v.status = "FailedDownload"
                               THEN "SignalApplyFailed" ELSE "SignalCompleted"
    BY <1>2 DEF Reconciled, SameCommand
  <2> QED BY <1>0, <1>2, <2>3, <2>5, <2>6 DEF TargetFits
<1> QED BY <1>1, <1>2 DEF Reconciled, SameCommand

\* A signalled target.
LEMMA SignalledTargets ==
    ASSUME NEW p \in Plans, NEW i \in 1..N, NEW n \in Nodes
    PROVE  /\ Signalled(p, i, n).state = "SchedulableWait"
           /\ Signalled(p, i, n).cmd[i] = "SchedulableWait"
           /\ \A j \in 1..N : j # i => SameAt(p, Signalled(p, i, n), j)
           /\ \A m \in Nodes : Signalled(p, i, n).target[i][m]
                                 = IF m = n THEN "SignalSent" ELSE p.target[i][m]
<1> DEFINE q == Signalled(p, i, n)
<1>1. /\ q.target = [p.target EXCEPT ![i] = [@ EXCEPT ![n] = "SignalSent"]]
      /\ q.cmd = [p.cmd EXCEPT ![i] = "SchedulableWait"]
      /\ q.state = "SchedulableWait"
  BY SMTT(30), SignalledFields
<1> HIDE DEF q
<1>2. p.target \in [1..N -> [Nodes -> TargetStates]] /\ p.cmd \in [1..N -> PlanStates]
  BY PlanFields
<1>3. q.cmd[i] = "SchedulableWait" /\ \A j \in 1..N : j # i => SameAt(p, q, j)
  BY <1>1, <1>2 DEF SameAt
<1>4. q.target[i] = [p.target[i] EXCEPT ![n] = "SignalSent"] /\ p.target[i] \in [Nodes -> TargetStates]
  BY <1>1, <1>2
<1>5. \A m \in Nodes : q.target[i][m] = IF m = n THEN "SignalSent" ELSE p.target[i][m]
  BY <1>4
<1> QED BY <1>1, <1>3, <1>5 DEF q

\* schedulable signals a node: the signals g become h.
LEMMA SignalFitsStatus ==
    ASSUME NEW p \in Plans, NEW i \in 1..N, NEW n \in Targets(i), NEW g \in [Nodes -> Signals],
           NEW h, h[n].cmd = i, \A m \in Nodes : m # n => h[m] = g[m],
           p.state = "Schedulable", IsCurrent(p, i), p.target[i][n] = "SignalPending", Fits(p, g)
    PROVE  Fits(Signalled(p, i, n), h)
<1> DEFINE q == Signalled(p, i, n)
<1>1. n \in Nodes /\ i \in Nat
  BY NodesOf, Index
<1>2. /\ q.cmd[i] = "SchedulableWait"
      /\ \A j \in 1..N : j # i => SameAt(p, q, j)
      /\ \A m \in Nodes : q.target[i][m] = IF m = n THEN "SignalSent" ELSE p.target[i][m]
  BY SMTT(30), <1>1, SignalledTargets
<1> HIDE DEF q
<1>3. g[n].cmd < i /\ g[n].cmd \in Nat
  BY <1>1, SignalFields DEF Fits, FitsAt, TargetFits
<1> SUFFICES ASSUME NEW j \in 1..N, NEW m \in Targets(j) PROVE FitsAt(q, j, m, h[m])
  BY DEF Fits, q
<1>4. m \in Nodes /\ FitsAt(p, j, m, g[m]) /\ p.target[j][m] # "NoTarget"
  BY NodesOf DEF Fits, FitsAt
<1>5. CASE m # n /\ j # i
  BY <1>2, <1>4, <1>5 DEF FitsAt, SameAt
<1>6. CASE m # n /\ j = i
  BY <1>2, <1>4, <1>6 DEF FitsAt
<1>7. CASE m = n /\ j = i
  BY <1>1, <1>2, <1>7 DEF FitsAt, TargetFits
<1>8. CASE m = n /\ j < i
  <2>1. j \in 1..i-1 /\ h[m].cmd > j
    BY SMTT(30), <1>1, <1>8, Index
  <2>2. p.cmd[j] = "Completed"
    BY <2>1 DEF IsCurrent
  <2>3. p.target[j][m] = "SignalCompleted" /\ q.target[j][m] = "SignalCompleted"
    BY <1>2, <1>4, <1>8, <2>2 DEF FitsAt, SameAt
  <2> QED BY <2>1, <2>3 DEF FitsAt, TargetFits
<1>9. CASE m = n /\ j > i
  <2>1. ~(g[n].cmd > j) /\ g[n].cmd # j /\ h[n].cmd < j
    BY SMTT(30), <1>1, <1>3, <1>9, Index
  <2>2. p.target[j][n] \in TargetStates
    BY <1>1, TargetOf
  <2>3. p.target[j][n] \in {"SignalPending", "SignalMissingPlatform"}
    BY <1>4, <1>9, <2>1, <2>2 DEF FitsAt, TargetFits, TargetStates
  <2>4. q.target[j][n] = p.target[j][n] /\ q.cmd[j] = p.cmd[j]
    BY SMTT(30), <1>2, <1>9 DEF SameAt
  <2> QED BY <1>4, <1>9, <2>1, <2>3, <2>4 DEF FitsAt, TargetFits
<1> QED BY SMTT(30), <1>5, <1>6, <1>7, <1>8, <1>9, Index

LEMMA SignalKeepsLimits ==
    ASSUME Counting, NEW p \in Plans, NEW i \in 1..N, NEW n \in Candidates(p, i),
           NEW g, NEW h, h[n].cmd = i, \A m \in Nodes : m # n => h[m] = g[m],
           p.state = "Schedulable", Ready(p, i), Fits(p, g), Kept(p, g)
    PROVE  Kept(Signalled(p, i, n), h)
<1> DEFINE q == Signalled(p, i, n)
<1>1. n \in Nodes /\ p.target[i][n] = "SignalPending"
      /\ Controllers[i] \subseteq Nodes /\ Workers[i] \subseteq Nodes
  BY NodesOf DEF Candidates, In
<1>2. /\ \A j \in 1..N : j # i => SameAt(p, q, j)
      /\ \A m \in Nodes : q.target[i][m] = IF m = n THEN "SignalSent" ELSE p.target[i][m]
  BY SMTT(30), <1>1, SignalledTargets
<1> HIDE DEF q
<1> SUFFICES ASSUME NEW j \in 1..N PROVE KeptAt(q, j, h)
  BY DEF Kept, q
<1>3. KeptAt(p, j, g)
  BY DEF Kept
<1>4. CASE j # i
  <2>1. KeptAt(q, j, g)
    BY <1>2, <1>3, <1>4, SameKeeps
  <2>2. \A w \in Workers[j] : h[w].cmd = j => g[w].cmd = j
    BY <1>4, NodesOf
  <2> QED BY <2>1, <2>2 DEF KeptAt
<1>5. CASE j = i /\ n \in Controllers[i]
  <2>1. n \notin Workers[i]
    BY <1>5, PlanAssumption
  <2>2. SentW(q, i) = SentW(p, i)
    BY <1>1, <1>2, <2>1 DEF SentW, In
  <2>3. SentC(p, i) = {}
    BY <1>1, <1>5 DEF Ready, IsCompleted
  <2>4. \A c \in SentC(q, i) : c = n
    BY <1>1, <1>2, <2>3 DEF SentC, In
  <2>5. \A w \in Workers[i] : h[w].cmd # i
    BY <1>1, <1>3, <1>5, <2>1 DEF KeptAt
  <2> QED BY <1>3, <1>5, <2>2, <2>4, <2>5 DEF KeptAt
<1>6. CASE j = i /\ n \in Workers[i]
  <2>1. n \notin Controllers[i]
    BY <1>6, PlanAssumption
  <2>2. In(p, i, Controllers[i], "SignalPending") = {}
    BY <2>1 DEF Candidates, In
  <2>3. IsCompleted(p, i, Controllers[i]) /\ Cardinality(SentW(p, i)) < Limit[i]
    BY <2>2 DEF Ready
  <2>4. \A c \in Controllers[i] : p.target[i][c] = "SignalCompleted"
    BY <2>3, NodesOf DEF IsCompleted, Fits, FitsAt
  <2>5. \A c \in Controllers[i] : q.target[i][c] = "SignalCompleted"
    BY <1>1, <1>2, <2>1, <2>4
  <2>6. SentC(q, i) = {}
    BY <2>5 DEF SentC, In
  <2>7. SentW(q, i) = SentW(p, i) \cup {n} /\ n \notin SentW(p, i)
    BY <1>1, <1>2, <1>6 DEF SentW, In
  <2>8. /\ SentW(p, i) \in SUBSET Nodes /\ Cardinality(SentW(p, i)) \in Nat /\ Limit[i] \in Nat
    BY NumberIn, NodesOf
  <2>9. Cardinality(SentW(q, i)) = Cardinality(SentW(p, i)) + 1
    BY SMTT(30), <1>1, <2>7, <2>8 DEF Counting
  <2>10. Cardinality(SentW(q, i)) <= Limit[i]
    BY SMTT(30), <2>3, <2>8, <2>9
  <2> QED BY <1>6, <2>5, <2>6, <2>10 DEF KeptAt
<1> QED BY <1>4, <1>5, <1>6 DEF Candidates, In

\* A node ends its update.
LEMMA EndFits ==
    ASSUME NEW q, NEW n \in Nodes, NEW g, NEW h, g[n].status = "Sent", h[n].cmd = g[n].cmd,
           \A m \in Nodes : m # n => h[m] = g[m], Fits(q, g)
    PROVE  Fits(q, h)
<1> SUFFICES ASSUME NEW i \in 1..N, NEW m \in Targets(i) PROVE FitsAt(q, i, m, h[m])
  BY DEF Fits
<1>1. m \in Nodes /\ FitsAt(q, i, m, g[m])
  BY NodesOf DEF Fits
<1>2. CASE m = n
  BY <1>1, <1>2 DEF FitsAt, TargetFits
<1> QED BY <1>1, <1>2

LEMMA EndKeeps ==
    ASSUME NEW q, NEW g, NEW h, \A m \in Nodes : h[m].cmd = g[m].cmd, Kept(q, g)
    PROVE  Kept(q, h)
<1> SUFFICES ASSUME NEW i \in 1..N PROVE KeptAt(q, i, h)
  BY DEF Kept
<1>1. KeptAt(q, i, g) /\ \A w \in Workers[i] : h[w].cmd = g[w].cmd
  BY NodesOf DEF Kept
<1> QED BY <1>1 DEF KeptAt

\* A node that is updating is recorded as signalled.
LEMMA UpdatingIsSent ==
    ASSUME NEW q \in Plans, NEW g \in [Nodes -> Signals], Fits(q, g),
           NEW n \in Nodes, NEW v, SignalFits(n, g[n], v), g[n].status = "Sent"
    PROVE  /\ g[n].cmd \in 1..N /\ n \in Targets(g[n].cmd)
           /\ q.target[g[n].cmd][n] = "SignalSent"
<1>1. g[n].cmd \in 1..N /\ n \in Targets(g[n].cmd)
  BY NoSignalFields DEF SignalFits
<1>2. PICK i \in 1..N : i = g[n].cmd /\ n \in Targets(i)
  BY <1>1
<1>3. q.target[i][n] \in TargetStates /\ TargetFits(q.target[i][n], i, g[n]) /\ i \in Nat
  BY <1>2, TargetOf, Index DEF Fits, FitsAt
<1>4. q.target[i][n] = "SignalSent"
  BY SMTT(30), <1>2, <1>3 DEF TargetFits, TargetStates
<1> QED BY <1>2, <1>4

-----------------------------------------------------------------------------
(* The steps of the rollout *)

LEMMA RolloutInit ==
    ASSUME Counting, Calm, Init
    PROVE  Rollout
<1>1. plan = EmptyPlan /\ Recorded = EmptyPlan
  BY DEF Init, Recorded, NoDraft
<1>2. \A n \in Nodes : sig[n] = NoSignal /\ seen[n] = NoSignal
  BY DEF Init, Calm
<1>3. /\ EmptyPlan.state = "None"
      /\ \A i \in 1..N : EmptyPlan.cmd[i] = "None"
      /\ \A i \in 1..N : \A n \in Nodes : EmptyPlan.target[i][n] = "NoTarget"
  BY DEF EmptyPlan
<1>4. SignalsFit /\ ReadyWhenSchedulable(plan)
  BY <1>1, <1>2, <1>3 DEF SignalsFit, SignalFits, ReadyWhenSchedulable
<1>5. \A i \in 1..N : \A n \in Targets(i) :
        sig[n].cmd < i /\ sig[n].cmd # i /\ EmptyPlan.target[i][n] = "NoTarget"
  BY SMTT(30), <1>2, <1>3, NodesOf, Index, NoSignalFields
<1>6. Fits(EmptyPlan, sig)
  BY <1>3, <1>5 DEF Fits, FitsAt, TargetFits
<1>7. Kept(EmptyPlan, sig)
  BY <1>5, NobodySent DEF Kept
<1> QED BY <1>1, <1>4, <1>6, <1>7 DEF Rollout

\* The status that newplan writes.
LEMMA DiscoveredTargets ==
    ASSUME NEW k \in 0..N, NEW f \in {"None", "IncompleteTargets", "Restricted", "Warning"},
           NEW i \in 1..N, NEW n \in Nodes, n \in Targets(i)
    PROVE  /\ InitPlan(EmptyPlan, k, f).cmd[i] # "Completed"
           /\ InitPlan(EmptyPlan, k, f).target[i][n]
                = IF i <= k THEN "SignalPending" ELSE "NoTarget"
           /\ InitPlan(EmptyPlan, k, f).state = IF k = N THEN "SchedulableWait" ELSE f
<1>1. EmptyPlan.size = 0
  BY DEF EmptyPlan
<1>2. /\ InitPlan(EmptyPlan, k, f).state = IF k = N THEN "SchedulableWait" ELSE f
      /\ InitPlan(EmptyPlan, k, f).target = Discovered(k)
      /\ InitPlan(EmptyPlan, k, f).cmd[i] # "Completed"
  BY SMTT(30), <1>1 DEF InitPlan
<1>3. Discovered(k)[i][n] = IF i <= k THEN "SignalPending" ELSE "NoTarget"
  BY DEF Discovered
<1> QED BY <1>2, <1>3

LEMMA RolloutNewPlan ==
    ASSUME Counting, Calm, TypeOK, Orderly, Rollout, NewPlan
    PROVE  Rollout'
<1>1. view = plan /\ ~draft.on /\ plan = EmptyPlan /\ "newplan" \in queue
      /\ UNCHANGED <<sig, seen>>
  BY Served DEF NewPlan, Orderly, CreateKeys, UpdateKeys
<1>2. PICK k \in 0..N, f \in {"None", "IncompleteTargets", "Restricted", "Warning"} :
        WriteStatus("newplan", InitPlan(view, k, f))
  BY SMTT(30), Numbers DEF NewPlan, Fault, Calm
<1> DEFINE q == InitPlan(EmptyPlan, k, f)
<1>3. q \in Plans
  BY InitPlanType, EmptyType DEF EmptyPlan
<1>4. plan' = q /\ Recorded' = q
  BY <1>1, <1>2, <1>3, ServedWrite DEF Recorded
<1>5. \A i \in 1..N : \A n \in Targets(i) :
        /\ q.cmd[i] # "Completed"
        /\ q.target[i][n] = IF i <= k THEN "SignalPending" ELSE "NoTarget"
  BY SMTT(30), DiscoveredTargets, NodesOf
<1>6. q.state = IF k = N THEN "SchedulableWait" ELSE f
  BY InitPlanState
<1> HIDE DEF q
<1>7. \A i \in 1..N : \A n \in Targets(i) : sig[n].cmd < i /\ sig[n].cmd # i
  <2> SUFFICES ASSUME NEW i \in 1..N, NEW n \in Targets(i)
               PROVE  sig[n].cmd < i /\ sig[n].cmd # i
    OBVIOUS
  <2>1. n \in Nodes /\ sig[n].cmd \in Nat /\ i \in Nat
    BY NodesOf, Index, SignalFields DEF TypeOK
  <2>2. TargetFits(EmptyPlan.target[i][n], i, sig[n])
    BY <1>1 DEF Rollout, Recorded, Fits, FitsAt
  <2>3. EmptyPlan.target[i][n] = "NoTarget"
    BY <2>1 DEF EmptyPlan
  <2> QED BY SMTT(30), <2>1, <2>2, <2>3 DEF TargetFits
<1>8. Fits(q, sig)
  <2> SUFFICES ASSUME NEW i \in 1..N, NEW n \in Targets(i) PROVE FitsAt(q, i, n, sig[n])
    BY DEF Fits
  <2>1. q.state \in {"SchedulableWait", "Schedulable"} => i <= k
    BY <1>6, Index
  <2> QED BY <1>5, <1>7, <2>1 DEF FitsAt, TargetFits
<1>9. Kept(q, sig)
  BY <1>5, <1>7, NobodySent DEF Kept
<1>10. SignalsFit' /\ ReadyWhenSchedulable(plan')
  BY <1>1, <1>4, <1>6 DEF Rollout, SignalsFit, ReadyWhenSchedulable
<1> QED BY <1>1, <1>4, <1>8, <1>9, <1>10 DEF Rollout

\* A write of the status while the plan is under way.
LEMMA RolloutWrite ==
    ASSUME Counting, TypeOK, Rollout, UNCHANGED <<sig, seen>>,
           ~draft.on, ~draft'.on, plan.state \in {"SchedulableWait", "Schedulable"},
           NEW i \in 1..N, ReadyWhenSchedulable(plan'),
           \A j \in 1..N : j # i => SameAt(plan, plan', j),
           \A n \in Targets(i) : /\ TargetFits(plan'.target[i][n], i, sig[n])
                                 /\ plan'.cmd[i] = "Completed" => plan'.target[i][n] = "SignalCompleted"
                                 /\ AdvancesAt(plan, plan', i, n)
    PROVE  Rollout'
<1>1. Recorded = plan /\ Recorded' = plan'
  BY DEF Recorded
<1>2. Fits(plan, sig) /\ Kept(plan, sig) /\ SignalsFit'
  BY <1>1 DEF Rollout, SignalsFit
<1>3. Fits(plan', sig)
  BY <1>2, WriteFits
<1>4. Kept(plan', sig)
  BY <1>2, WriteIsKept
<1> QED BY <1>1, <1>2, <1>3, <1>4 DEF Rollout

\* What schedulablewait finds in the targets of command i.
LEMMA WaitIsReady ==
    ASSUME Counting, NEW p, NEW i \in 1..N, WaitNext(p, i) = "Schedulable"
    PROVE  Ready(p, i)
<1>1. \/ CanSchedule(p, i, Controllers[i], 1)
      \/ IsCompleted(p, i, Controllers[i]) /\ CanSchedule(p, i, Workers[i], Limit[i])
  BY DEF WaitNext, ControllerSlots, WorkerSlots
<1>2. CASE CanSchedule(p, i, Controllers[i], 1)
  <2>1. Cardinality(SentC(p, i)) < 1 /\ Cardinality(SentC(p, i)) \in Nat
        /\ SentC(p, i) \in SUBSET Nodes
    BY <1>2, NumberIn DEF CanSchedule, SentC
  <2>2. Cardinality(SentC(p, i)) = 0
    BY SMTT(30), <2>1
  <2>3. SentC(p, i) = {}
    BY <2>1, <2>2 DEF Counting
  <2> QED BY <1>2, <2>3 DEF CanSchedule, Ready
<1> QED BY <1>1, <1>2 DEF CanSchedule, Ready, SentW

LEMMA WaitTargets ==
    ASSUME TypeOK, OneOfAKind, SignalsFit, NEW p \in Plans, NEW i \in 1..N, NEW n \in Targets(i),
           Fits(p, sig), p.state = "SchedulableWait"
    PROVE  /\ TargetFits(ReconcileTargets(p, i).target[i][n], i, sig[n])
           /\ WaitNext(ReconcileTargets(p, i), i) = "Completed"
                => ReconcileTargets(p, i).target[i][n] = "SignalCompleted"
           /\ AdvancesAt(p, ReconcileTargets(p, i), i, n)
<1> DEFINE q == ReconcileTargets(p, i)
<1>1. n \in Nodes /\ sig[n] \in Signals /\ seen[n] \in Signals
  BY NodesOf DEF TypeOK
<1>2. p.target[i][n] \in TargetStates
  BY <1>1, TargetOf
<1>3. q.target[i][n] = Reconciled(i, p.target[i][n], seen[n])
  <2>1. q.target = [p.target EXCEPT ![i] = [m \in Nodes |-> Reconciled(i, p.target[i][m], seen[m])]]
    BY ReconcileFields
  <2>2. p.target \in [1..N -> [Nodes -> TargetStates]]
    BY PlanFields
  <2> HIDE DEF q
  <2>3. q.target[i] = [m \in Nodes |-> Reconciled(i, p.target[i][m], seen[m])]
    BY <2>1, <2>2
  <2> QED BY <1>1, <2>3
<1> HIDE DEF q
<1>4. TargetFits(p.target[i][n], i, sig[n]) /\ SignalFits(n, sig[n], seen[n])
      /\ p.target[i][n] # "NoTarget"
  BY <1>1 DEF Fits, FitsAt, SignalsFit
<1>5. /\ TargetFits(q.target[i][n], i, sig[n])
      /\ q.target[i][n] = "NoTarget" => p.target[i][n] = "NoTarget"
      /\ q.target[i][n] = "SignalSent" => p.target[i][n] = "SignalSent"
      /\ p.target[i][n] = "SignalCompleted" => q.target[i][n] = "SignalCompleted"
  <2> DEFINE st == p.target[i][n]
             v == seen[n]
             g == sig[n]
  <2>1. st \in TargetStates /\ v \in Signals /\ g \in Signals /\ SignalFits(n, g, v)
        /\ TargetFits(st, i, g) /\ q.target[i][n] = Reconciled(i, st, v)
    BY <1>1, <1>2, <1>3, <1>4
  <2> HIDE DEF st, v, g
  <2>2. /\ TargetFits(Reconciled(i, st, v), i, g)
        /\ Reconciled(i, st, v) = "NoTarget" => st = "NoTarget"
        /\ Reconciled(i, st, v) = "SignalSent" => st = "SignalSent"
        /\ st = "SignalCompleted" => Reconciled(i, st, v) = "SignalCompleted"
    BY SMTT(30), <2>1, ReconciledFits
  <2> QED BY <2>1, <2>2 DEF st, g
<1>6. WaitNext(q, i) = "Completed" => IsCompleted(q, i, Targets(i))
  BY DEF WaitNext
<1> QED BY <1>4, <1>5, <1>6 DEF AdvancesAt, IsCompleted, q

\* schedulablewait: the targets of the current command are reconciled.
LEMMA RolloutWait ==
    ASSUME Counting, TypeOK, OneOfAKind, Orderly, Rollout, SchedulableWait
    PROVE  Rollout'
<1>1. /\ "schedulablewait" \in queue /\ UNCHANGED <<view, seen, sig>>
      /\ view = plan /\ ~draft.on /\ plan.state = "SchedulableWait" /\ plan \in Plans
  BY Served DEF SchedulableWait, Retry, CreateKeys, UpdateKeys, TypeOK
<1>2. PICK i \in 1..N :
        /\ IsCurrent(plan, i)
        /\ \/ Retry("schedulablewait")
           \/ WriteStatus("schedulablewait", Transition(ReconcileTargets(plan, i), i,
                                                 WaitNext(ReconcileTargets(plan, i), i)))
  BY <1>1 DEF SchedulableWait
<1>3. CASE Retry("schedulablewait")
  BY <1>1, <1>3 DEF Retry, Rollout, SignalsFit, Recorded
<1> DEFINE p == ReconcileTargets(plan, i)
           s == WaitNext(p, i)
           q == Transition(p, i, s)
<1>4. CASE WriteStatus("schedulablewait", q)
  <2>1. p \in Plans /\ s \in PlanStates /\ q \in Plans
    BY <1>1, ReconcileType, WaitNextType, TransitionType
  <2>2. plan' = q /\ ~draft'.on
    BY <1>1, <1>4, <2>1, ServedWrite
  <2>3. Fits(plan, sig) /\ SignalsFit
    BY <1>1 DEF Rollout, Recorded
  <2>4. \A n \in Targets(i) : /\ TargetFits(p.target[i][n], i, sig[n])
                              /\ s = "Completed" => p.target[i][n] = "SignalCompleted"
                              /\ AdvancesAt(plan, p, i, n)
    BY <1>1, <2>3, WaitTargets
  <2>5. \A j \in 1..N : j # i => SameAt(plan, p, j)
    <3>1. plan.target \in [1..N -> [Nodes -> TargetStates]]
      BY <1>1, PlanFields
    <3> QED BY <1>1, <3>1, ReconcileFields DEF SameAt
  <2>6. s = "Schedulable" => Ready(p, i)
    BY WaitIsReady
  <2>7. p.state = "SchedulableWait" /\ p.cmd = plan.cmd
    BY <1>1, ReconcileFields
  <2> HIDE DEF p, s
  <2>8. /\ q.target = p.target /\ q.cmd[i] = s
        /\ \A j \in 1..N : j # i => q.cmd[j] = p.cmd[j]
        /\ q.state = IF s = "Completed" THEN p.state ELSE s
    <3>1. /\ q.target = p.target /\ q.cmd = [p.cmd EXCEPT ![i] = s]
          /\ q.state = IF s = "Completed" THEN p.state ELSE s
      BY SMTT(30), <2>1, TransitionFields
    <3>2. p.cmd \in [1..N -> PlanStates]
      BY <2>1, PlanFields
    <3> HIDE DEF q
    <3> QED BY <3>1, <3>2
  <2> HIDE DEF q
  <2>9. ReadyWhenSchedulable(q)
    <3> SUFFICES ASSUME q.state = "Schedulable" PROVE IsCurrent(q, i) /\ Ready(q, i)
      BY DEF ReadyWhenSchedulable
    <3>1. s = "Schedulable"
      BY <2>7, <2>8
    <3>2. \A j \in 1..i-1 : j \in 1..N /\ j # i
      BY SMTT(30), Numbers
    <3>3. IsCurrent(q, i)
      BY <1>2, <2>7, <2>8, <3>1, <3>2 DEF IsCurrent
    <3> QED BY SMTT(30), <2>6, <2>8, <3>1, <3>3 DEF Ready, SentC, SentW, In, IsCompleted
  <2>10. \A j \in 1..N : j # i => SameAt(plan, q, j)
    BY <2>5, <2>8 DEF SameAt
  <2>11. \A n \in Targets(i) : /\ TargetFits(q.target[i][n], i, sig[n])
                               /\ q.cmd[i] = "Completed" => q.target[i][n] = "SignalCompleted"
                               /\ AdvancesAt(plan, q, i, n)
    BY <2>4, <2>8 DEF AdvancesAt
  <2> QED BY <1>1, <2>2, <2>9, <2>10, <2>11, RolloutWrite
<1> QED BY <1>2, <1>3, <1>4
=============================================================================
