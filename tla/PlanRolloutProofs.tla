-------------------------- MODULE PlanRolloutProofs --------------------------
(***************************************************************************)
(* The promises of docs/autopilot.md about the rollout of a plan, for any  *)
(* plan and any nodes, from the invariants of PlanSchedulerProofs.         *)
(***************************************************************************)
EXTENDS MCPlan, PlanSchedulerProofs, TLAPS

\* Zenon is the prover, and SMT that of the leaves that name it.
USE ZenonT(60)

\* The command that a Schedulable plan is about, and what is pending of it.
LEMMA CurrentIsReady ==
    ASSUME TypeOK, Orderly, Rollout, NEW i \in 1..N, SchedulableReady(i)
    PROVE  /\ view = plan /\ plan \in Plans /\ ~draft.on /\ plan.state = "Schedulable"
           /\ IsCurrent(plan, i) /\ Ready(plan, i) /\ Candidates(plan, i) # {}
<1>1. /\ view = plan /\ plan \in Plans /\ ~draft.on /\ plan.state = "Schedulable"
      /\ IsCurrent(plan, i)
  BY Served DEF SchedulableReady, CreateKeys, UpdateKeys, TypeOK
<1>2. PICK k \in 1..N : IsCurrent(plan, k) /\ Ready(plan, k)
  BY <1>1 DEF Rollout, ReadyWhenSchedulable
<1>3. k = i
  <2>1. ~(k < i) /\ ~(i < k)
    BY SMTT(30), <1>1, <1>2, Numbers DEF IsCurrent
  <2> QED BY SMTT(30), <2>1, Numbers
<1> QED BY <1>1, <1>2, <1>3 DEF Ready, Candidates

LEMMA PendingCandidates ==
    ASSUME NEW p, NEW i \in 1..N, NEW n \in Candidates(p, i)
    PROVE  n \in Nodes /\ n \in Targets(i) /\ p.target[i][n] = "SignalPending"
BY NodesOf DEF Candidates, In

\* A command that cannot go on.
Incomplete(p, i, n, t) == [Transition(p, i, "IncompleteTargets") EXCEPT !.target[i][n] = t]

LEMMA IncompleteTargets ==
    ASSUME NEW p \in Plans, NEW i \in 1..N, NEW n \in Nodes, NEW t \in TargetStates
    PROVE  /\ Incomplete(p, i, n, t) \in Plans
           /\ Incomplete(p, i, n, t).state = "IncompleteTargets"
           /\ Incomplete(p, i, n, t).cmd[i] = "IncompleteTargets"
           /\ \A j \in 1..N : j # i => SameAt(p, Incomplete(p, i, n, t), j)
           /\ \A m \in Nodes : Incomplete(p, i, n, t).target[i][m]
                                 = IF m = n THEN t ELSE p.target[i][m]
<1> DEFINE r == Transition(p, i, "IncompleteTargets")
           q == Incomplete(p, i, n, t)
<1>1. "IncompleteTargets" \in PlanStates
  BY DEF PlanStates, Errors
<1>2. r \in Plans
  BY <1>1, TransitionType
<1>3. r.target = p.target /\ r.cmd = [p.cmd EXCEPT ![i] = "IncompleteTargets"]
      /\ r.state = "IncompleteTargets"
  BY SMTT(30), <1>1, TransitionFields
<1> HIDE DEF r
<1>4. q = [r EXCEPT !.target[i][n] = t]
  BY DEF r, Incomplete
<1> HIDE DEF q
<1>5. q \in Plans
  BY <1>2, <1>4, TargetType
<1>6. /\ q.state = "IncompleteTargets" /\ q.cmd = [p.cmd EXCEPT ![i] = "IncompleteTargets"]
      /\ q.target = [p.target EXCEPT ![i] = [@ EXCEPT ![n] = t]]
  <2>1. /\ q.state = r.state /\ q.cmd = r.cmd
        /\ q.target = [r.target EXCEPT ![i] = [@ EXCEPT ![n] = t]]
    BY <1>2, <1>4 DEF Plans
  <2> QED BY <1>3, <2>1
<1>7. p.target \in [1..N -> [Nodes -> TargetStates]] /\ p.cmd \in [1..N -> PlanStates]
  BY PlanFields
<1>8. /\ q.cmd[i] = "IncompleteTargets"
      /\ \A j \in 1..N : j # i => SameAt(p, q, j)
  BY <1>6, <1>7 DEF SameAt
<1>9. q.target[i] = [p.target[i] EXCEPT ![n] = t] /\ p.target[i] \in [Nodes -> TargetStates]
  BY <1>6, <1>7
<1>10. \A m \in Nodes : q.target[i][m] = IF m = n THEN t ELSE p.target[i][m]
  BY <1>9
<1> QED BY <1>5, <1>6, <1>8, <1>10 DEF q

\* schedulable finds that a target cannot be signalled.
LEMMA RolloutEnds ==
    ASSUME Counting, TypeOK, Orderly, Rollout, NEW i \in 1..N, SchedulableEnds(i)
    PROVE  Rollout'
<1>1. /\ view = plan /\ plan \in Plans /\ ~draft.on /\ plan.state = "Schedulable"
      /\ Candidates(plan, i) # {} /\ "schedulable" \in queue /\ UNCHANGED <<sig, seen>>
  BY CurrentIsReady DEF SchedulableEnds, SchedulableReady
<1>2. PICK n \in Candidates(plan, i), t \in {"SignalPending", "SignalMissingPlatform"} :
        WriteStatus("schedulable", Incomplete(plan, i, n, t))
  BY <1>1 DEF SchedulableEnds, Incomplete
<1>3. n \in Nodes /\ n \in Targets(i) /\ plan.target[i][n] = "SignalPending" /\ t \in TargetStates
  BY PendingCandidates DEF TargetStates
<1> DEFINE q == Incomplete(plan, i, n, t)
<1>4. /\ q \in Plans /\ q.state = "IncompleteTargets" /\ q.cmd[i] = "IncompleteTargets"
      /\ \A j \in 1..N : j # i => SameAt(plan, q, j)
      /\ \A m \in Nodes : q.target[i][m] = IF m = n THEN t ELSE plan.target[i][m]
  BY SMTT(30), <1>1, <1>3, IncompleteTargets
<1>5. plan' = q /\ ~draft'.on
  BY <1>1, <1>2, <1>4, ServedWrite
<1> HIDE DEF q
<1>6. ASSUME NEW m \in Targets(i)
      PROVE  TargetFits(q.target[i][m], i, sig[m]) /\ AdvancesAt(plan, q, i, m)
  <2>1. m \in Nodes /\ TargetFits(plan.target[i][m], i, sig[m])
    BY <1>1, NodesOf DEF Rollout, Recorded, Fits, FitsAt
  <2>2. CASE m = n
    BY <1>3, <1>4, <2>1, <2>2 DEF TargetFits, AdvancesAt
  <2>3. CASE m # n
    BY <1>4, <2>1, <2>3 DEF AdvancesAt
  <2> QED BY <2>2, <2>3
<1>7. ReadyWhenSchedulable(q)
  BY <1>4 DEF ReadyWhenSchedulable
<1> QED BY <1>1, <1>4, <1>5, <1>6, <1>7, RolloutWrite

\* The plan completes.
LEMMA RolloutFinish ==
    ASSUME Counting, TypeOK, Orderly, Rollout, NEW c \in Names, Finish(c)
    PROVE  Rollout'
<1>1. /\ c \in queue /\ UNCHANGED <<view, sig, seen>>
      /\ view = plan /\ ~draft.on /\ plan \in Plans
      /\ plan.state \in {"SchedulableWait", "Schedulable"}
  BY Served DEF Finish, CreateKeys, UpdateKeys, TypeOK
<1>2. CASE UNCHANGED <<plan, draft>>
  BY <1>1, <1>2 DEF Rollout, SignalsFit, Recorded
<1>3. CASE WriteStatus(c, [plan EXCEPT !.state = "Completed"])
  <2> DEFINE q == [plan EXCEPT !.state = "Completed"]
  <2>1. q \in Plans /\ q.state = "Completed" /\ q.cmd = plan.cmd /\ q.target = plan.target
    BY <1>1 DEF Plans, PlanStates
  <2>2. plan' = q /\ ~draft'.on
    BY <1>1, <1>3, <2>1, ServedWrite
  <2> HIDE DEF q
  <2>3. 1 \in 1..N
    BY SMTT(30), Numbers
  <2>4. \A n \in Targets(1) : FitsAt(plan, 1, n, sig[n])
    BY <1>1, <2>3 DEF Rollout, Recorded, Fits
  <2>5. \A n \in Targets(1) : /\ TargetFits(q.target[1][n], 1, sig[n])
                              /\ q.cmd[1] = "Completed" => q.target[1][n] = "SignalCompleted"
                              /\ AdvancesAt(plan, q, 1, n)
    BY <2>1, <2>4 DEF FitsAt, AdvancesAt
  <2>6. /\ ReadyWhenSchedulable(q)
        /\ \A j \in 1..N : j # 1 => SameAt(plan, q, j)
    BY <2>1 DEF ReadyWhenSchedulable, SameAt
  <2> QED BY <1>1, <2>2, <2>3, <2>5, <2>6, RolloutWrite
<1> QED BY <1>1, <1>2, <1>3 DEF Finish

\* schedulable signals a node: within the limits, and controllers first.
LEMMA RolloutSignal ==
    ASSUME Counting, TypeOK, Orderly, Rollout, NEW i \in 1..N, Schedulable(i)
    PROVE  Rollout'
<1>1. /\ view = plan /\ plan \in Plans /\ ~draft.on /\ plan.state = "Schedulable"
      /\ IsCurrent(plan, i) /\ Ready(plan, i) /\ UNCHANGED <<plan, seen>>
  BY CurrentIsReady DEF Schedulable
<1>2. PICK n \in Candidates(plan, i) :
        /\ seen[n] = sig[n]
        /\ sig' = [sig EXCEPT ![n] = [cmd |-> i, kind |-> Kinds[i], status |-> "Sent"]]
        /\ draft' = [on |-> TRUE, fresh |-> view = plan, plan |-> Signalled(view, i, n)]
  BY <1>1 DEF Schedulable
<1>3. Recorded' = Signalled(plan, i, n)
  BY <1>1, <1>2 DEF Recorded
<1>4. n \in Nodes /\ n \in Targets(i) /\ plan.target[i][n] = "SignalPending"
  BY PendingCandidates
<1>5. /\ sig \in [Nodes -> Signals]
      /\ sig'[n].cmd = i /\ sig'[n].kind = Kinds[i] /\ sig'[n].status = "Sent"
      /\ \A m \in Nodes : m # n => sig'[m] = sig[m]
  BY <1>2, <1>4 DEF TypeOK
<1>6. Fits(plan, sig) /\ Kept(plan, sig) /\ SignalsFit /\ ReadyWhenSchedulable(plan')
  BY <1>1 DEF Rollout, Recorded
<1>7. SignalsFit'
  <2> SUFFICES ASSUME NEW m \in Nodes PROVE SignalFits(m, sig'[m], seen[m])
    BY <1>1 DEF SignalsFit
  <2>1. SignalFits(m, sig[m], seen[m])
    BY <1>6 DEF SignalsFit
  <2>2. CASE m = n
    <3>1. sig[n].cmd < i
      BY <1>4, <1>6 DEF Fits, FitsAt, TargetFits
    <3> QED BY <1>2, <1>4, <1>5, <2>1, <2>2, <3>1 DEF SignalFits
  <2> QED BY <1>5, <2>1, <2>2
<1>8. Fits(Signalled(plan, i, n), sig')
  BY SMTT(30), <1>1, <1>4, <1>5, <1>6, SignalFitsStatus
<1>9. Kept(Signalled(plan, i, n), sig')
  BY SMTT(30), <1>1, <1>5, <1>6, SignalKeepsLimits
<1> QED BY <1>3, <1>6, <1>7, <1>8, <1>9 DEF Rollout

\* A node ends its update.
LEMMA RolloutNodeEnds ==
    ASSUME TypeOK, Rollout, NEW n \in Nodes, NodeEnds(n)
    PROVE  Rollout'
<1>1. sig[n].status = "Sent" /\ UNCHANGED <<plan, draft, seen>>
  BY DEF NodeEnds
<1>2. PICK r \in {"Completed", "FailedDownload"} : sig' = [sig EXCEPT ![n].status = r]
  BY DEF NodeEnds
<1>3. /\ sig'[n].cmd = sig[n].cmd /\ sig'[n].kind = sig[n].kind /\ sig'[n].status = r
      /\ \A m \in Nodes : m # n => sig'[m] = sig[m]
  BY SMTT(30), <1>2 DEF TypeOK, Signals
<1>4. Recorded' = Recorded /\ ReadyWhenSchedulable(plan')
  BY <1>1 DEF Recorded, Rollout
<1>5. SignalsFit'
  <2> SUFFICES ASSUME NEW m \in Nodes PROVE SignalFits(m, sig'[m], seen[m])
    BY <1>1 DEF SignalsFit
  <2>1. SignalFits(m, sig[m], seen[m])
    BY DEF Rollout, SignalsFit
  <2>2. CASE m = n
    BY <1>1, <1>3, <2>1, <2>2, NoSignalFields DEF SignalFits
  <2> QED BY <1>3, <2>1, <2>2
<1>6. Fits(Recorded, sig')
  BY <1>1, <1>3, EndFits DEF Rollout
<1>7. Kept(Recorded, sig')
  BY <1>3, EndKeeps DEF Rollout
<1> QED BY <1>4, <1>5, <1>6, <1>7 DEF Rollout

\* The caches of nodes follow.
LEMMA RolloutObserve ==
    ASSUME Rollout, UNCHANGED <<plan, sig, Recorded>>,
           \A n \in Nodes : seen'[n] = seen[n] \/ seen'[n] = sig[n]
    PROVE  Rollout'
<1>1. SignalsFit'
  <2> SUFFICES ASSUME NEW n \in Nodes PROVE SignalFits(n, sig[n], seen'[n])
    BY DEF SignalsFit
  <2> QED BY DEF Rollout, SignalsFit, SignalFits
<1> QED BY <1>1 DEF Rollout

LEMMA RolloutNext ==
    ASSUME Counting, Calm, OneOfAKind, TypeOK, Orderly, Rollout, [Next]_vars
    PROVE  Rollout'
<1>1. ASSUME NEW i \in 1..N, SchedulableFails(i) PROVE UNCHANGED <<plan, draft, sig, seen>>
  BY <1>1 DEF SchedulableFails, Retry
<1>2. CASE SchedulableWrites
  <2>1. draft.on /\ draft.fresh /\ draft.plan.state = "SchedulableWait"
    BY <1>2 DEF SchedulableWrites, Orderly
  <2>2. plan' = draft.plan /\ ~draft'.on /\ UNCHANGED <<sig, seen>>
    BY <1>2, <2>1 DEF SchedulableWrites, Calm, NoDraft
  <2> QED BY <2>1, <2>2 DEF Rollout, SignalsFit, ReadyWhenSchedulable, Recorded
<1>3. CASE UNCHANGED <<plan, draft, sig, seen>>
  BY <1>3, RolloutObserve DEF Recorded
<1>4. ASSUME NEW n \in Nodes, ObserveNode(n) PROVE Rollout'
  <2>1. UNCHANGED <<plan, sig, Recorded>>
    BY <1>4 DEF ObserveNode, Recorded
  <2>2. \A m \in Nodes : seen'[m] = seen[m] \/ seen'[m] = sig[m]
    BY <1>4 DEF ObserveNode, TypeOK
  <2> QED BY <2>1, <2>2, RolloutObserve
<1>5. CASE Failover
  BY <1>5, RolloutObserve DEF Failover, Fault, Calm, NoDraft, Recorded
<1>6. ~Touch
  BY DEF Touch, Fault, Calm
<1>7. ObservePlan \/ (\E c \in Names : Timer(c)) => UNCHANGED <<plan, draft, sig, seen>>
  BY DEF ObservePlan, Timer
<1>8. UNCHANGED vars => UNCHANGED <<plan, draft, sig, seen>>
  BY DEF vars
<1>9. Reconcile => Rollout'
  BY <1>1, <1>2, <1>3, RolloutNewPlan, RolloutWait, RolloutEnds, RolloutSignal, RolloutFinish
     DEF Reconcile
<1> QED BY <1>3, <1>4, <1>5, <1>6, <1>7, <1>8, <1>9, RolloutNodeEnds DEF Next

-----------------------------------------------------------------------------
(* What the rollout means *)

LEMMA RecordedIsPlan ==
    ASSUME TypeOK, Rollout
    PROVE  /\ Recorded \in Plans /\ sig \in [Nodes -> Signals]
           /\ Fits(Recorded, sig) /\ Kept(Recorded, sig)
           /\ \A n \in Nodes : SignalFits(n, sig[n], seen[n])
BY DEF TypeOK, Rollout, SignalsFit, Recorded

\* What is completed is so in the status that is about to be written, and its
\* targets are.
LEMMA RecordedCompleted ==
    ASSUME Ordered, Orderly, Rollout, NEW i \in 1..N, plan.cmd[i] = "Completed",
           NEW n \in Targets(i)
    PROVE  Recorded.target[i][n] = "SignalCompleted"
<1>1. Recorded.cmd[i] = "Completed"
  BY DEF Ordered, Orderly, Done, Recorded
<1> QED BY <1>1 DEF Rollout, Fits, FitsAt

LEMMA RolloutOneController ==
    ASSUME TypeOK, Ordered, Orderly, Rollout
    PROVE  OneControllerAtATime
<1> SUFFICES ASSUME NEW i \in 1..N, NEW c \in Updating(Controllers[i]),
                    NEW d \in Updating(Controllers[i])
             PROVE  c = d
  BY DEF OneControllerAtATime
<1>1. c \in Nodes /\ d \in Nodes /\ sig[c].status = "Sent" /\ sig[d].status = "Sent"
      /\ c \in Controllers[i] /\ d \in Controllers[i]
  BY NodesOf DEF Updating
<1> DEFINE a == sig[c].cmd
           b == sig[d].cmd
<1>2. /\ a \in 1..N /\ c \in Targets(a) /\ Recorded.target[a][c] = "SignalSent"
      /\ b \in 1..N /\ d \in Targets(b) /\ Recorded.target[b][d] = "SignalSent"
  BY <1>1, RecordedIsPlan, UpdatingIsSent
<1>3. \A j \in 1..N : j < a \/ j < b => plan.cmd[j] = "Completed"
  BY <1>1 DEF Ordered, Done
<1> HIDE DEF a, b
<1>4. c \in Controllers[a] /\ d \in Controllers[b]
  BY <1>1, <1>2, PlanAssumption DEF Targets
<1>5. a = b
  <2>1. ~(a < b) /\ ~(b < a)
    BY <1>2, <1>3, RecordedCompleted
  <2> QED BY SMTT(30), <1>2, <2>1, Index
<1>6. c \in SentC(Recorded, a) /\ d \in SentC(Recorded, a)
  BY <1>2, <1>4, <1>5 DEF SentC, In
<1> QED BY <1>2, <1>6, RecordedIsPlan DEF Kept, KeptAt

LEMMA RolloutWorkerLimit ==
    ASSUME Counting, TypeOK, Rollout
    PROVE  WorkerLimit
<1> SUFFICES ASSUME NEW i \in 1..N
             PROVE  Cardinality({n \in Updating(Workers[i]) : sig[n].cmd = i}) <= Limit[i]
  BY DEF WorkerLimit
<1> DEFINE U == {n \in Updating(Workers[i]) : sig[n].cmd = i}
           S == SentW(Recorded, i)
<1>1. ASSUME NEW n \in U PROVE n \in S
  <2>1. n \in Nodes /\ n \in Workers[i] /\ sig[n].status = "Sent" /\ sig[n].cmd = i
    BY NodesOf DEF Updating
  <2>2. Recorded.target[i][n] = "SignalSent"
    BY <2>1, RecordedIsPlan, UpdatingIsSent
  <2> QED BY <2>1, <2>2 DEF SentW, In
<1>2. S \in SUBSET Nodes /\ Cardinality(S) \in Nat /\ Limit[i] \in Nat
  BY NumberIn, NodesOf
<1>3. Cardinality(S) <= Limit[i]
  BY RecordedIsPlan DEF Kept, KeptAt
<1> HIDE DEF U, S
<1>4. U \in SUBSET S /\ U \in SUBSET Nodes
  BY <1>1, <1>2
<1>5. Cardinality(U) \in Nat /\ Cardinality(U) <= Cardinality(S)
  BY <1>2, <1>4 DEF Counting
<1>6. Cardinality(U) <= Limit[i]
  BY SMTT(30), <1>2, <1>3, <1>5
<1> QED BY <1>6 DEF U

LEMMA RolloutWorkersAfter ==
    ASSUME TypeOK, Rollout
    PROVE  WorkersAfterControllers
<1> SUFFICES ASSUME NEW i \in 1..N, NEW w \in Workers[i], sig[w].cmd = i, NEW c \in Controllers[i]
             PROVE  sig[c].cmd > i \/ (sig[c].cmd = i /\ sig[c].status = "Completed")
  BY DEF WorkersAfterControllers
<1>1. Recorded.target[i][c] = "SignalCompleted" /\ c \in Targets(i)
  BY RecordedIsPlan, NodesOf DEF Kept, KeptAt
<1> QED BY <1>1, RecordedIsPlan DEF Fits, FitsAt, TargetFits

LEMMA RolloutCarriedOut ==
    ASSUME TypeOK, Ordered, Orderly, Rollout
    PROVE  CompletedMeansCarriedOut
<1> SUFFICES ASSUME NEW i \in 1..N, plan.cmd[i] = "Completed", NEW n \in Targets(i)
             PROVE  sig[n].cmd >= i /\ (sig[n].cmd = i => sig[n].status = "Completed")
  BY DEF CompletedMeansCarriedOut
<1>1. sig[n].cmd > i \/ (sig[n].cmd = i /\ sig[n].status = "Completed")
  BY SMTT(30), RecordedCompleted, RecordedIsPlan DEF Fits, FitsAt, TargetFits
<1>2. sig[n].cmd \in Nat /\ i \in Nat
  BY NodesOf, Index, SignalFields, RecordedIsPlan
<1> QED BY SMTT(30), <1>1, <1>2

\* A plan that has ended is not asked for: caches and nodes are all that moves.
LEMMA EndedStays ==
    ASSUME Calm, TypeOK, Orderly, [Next]_vars
    PROVE  StaysFinal
<1> SUFFICES ASSUME plan.state \in Final
             PROVE  /\ plan'.state = plan.state
                    /\ \A n \in Nodes : sig'[n].status = "Sent" => sig[n].status = "Sent"
  BY DEF StaysFinal
<1>1. queue = {} /\ timers = {} /\ ~draft.on
  BY DEF Orderly, Final, Errors, CreateKeys, UpdateKeys
<1>2. ~Reconcile
  BY <1>1 DEF Reconcile, NewPlan, SchedulableWait, SchedulableEnds, SchedulableFails, Schedulable,
              SchedulableReady, SchedulableWrites, Finish
<1>3. CASE UNCHANGED <<plan, sig>>
  BY <1>3
<1>4. ASSUME NEW n \in Nodes, NodeEnds(n) PROVE UNCHANGED plan /\ sig'[n].status # "Sent"
                                                /\ \A m \in Nodes : m # n => sig'[m] = sig[m]
  BY SMTT(30), <1>4 DEF NodeEnds, TypeOK, Signals
<1>5. ~Touch /\ ~\E c \in Names : Timer(c)
  BY <1>1 DEF Touch, Fault, Calm, Timer
<1>6. ObservePlan \/ (\E n \in Nodes : ObserveNode(n)) \/ Failover => UNCHANGED <<plan, sig>>
  BY DEF ObservePlan, ObserveNode, Failover
<1> QED BY <1>2, <1>3, <1>4, <1>5, <1>6 DEF Next, vars

\* The invariant of the rollout, of whatever kinds its commands are.
RolloutInv == ~disturbed => TypeOK /\ Ordered /\ Orderly /\ (OneOfAKind => Rollout)

LEMMA RolloutInvInit ==
    ASSUME Counting, Calm, PlanInit
    PROVE  RolloutInv
BY TypeInit, OrderedInit, OrderlyInit, RolloutInit DEF PlanInit, RolloutInv

LEMMA RolloutInvNext ==
    ASSUME Counting, Calm, RolloutInv, [PlanNext]_<<disturbed, vars>>
    PROVE  RolloutInv'
<1> SUFFICES ASSUME ~disturbed'
             PROVE  TypeOK' /\ Ordered' /\ Orderly' /\ (OneOfAKind => Rollout')
  BY DEF RolloutInv
<1>1. ~disturbed /\ [Next]_vars
  BY SMTT(30) DEF PlanNext
<1>2. TypeOK /\ Ordered /\ Orderly /\ (OneOfAKind => Rollout)
  BY <1>1 DEF RolloutInv
<1> QED BY <1>1, <1>2, TypeNext, OrderedNext, OrderlyNext, RolloutNext

LEMMA RolloutInvImplies ==
    ASSUME Counting, OneOfAKind, RolloutInv
    PROVE  RolloutDiscipline /\ CommandsAreCarriedOut
BY RolloutOneController, RolloutWorkerLimit, RolloutWorkersAfter, RolloutCarriedOut
   DEF RolloutInv, RolloutDiscipline, CommandsAreCarriedOut

LEMMA RolloutInvEnded ==
    ASSUME Calm, RolloutInv, [PlanNext]_<<disturbed, vars>>
    PROVE  [~disturbed => StaysFinal]_vars
<1> SUFFICES ASSUME ~disturbed, ~UNCHANGED vars PROVE StaysFinal
  OBVIOUS
<1>1. Next /\ TypeOK /\ Orderly
  BY DEF PlanNext, RolloutInv
<1> QED BY <1>1, EndedStays

-----------------------------------------------------------------------------
INSTANCE FiniteSetTheorems

LEMMA CountingNodes == Counting
<1>1. \A S \in SUBSET Nodes : IsFiniteSet(S) /\ Cardinality(S) \in Nat
  BY PlanAssumption, FS_Subset, FS_CardinalityType
<1>2. Cardinality({}) = 0 /\ \A S \in SUBSET Nodes : Cardinality(S) = 0 => S = {}
  BY <1>1, FS_EmptySet
<1>3. \A S \in SUBSET Nodes : \A T \in SUBSET S : Cardinality(T) <= Cardinality(S)
  BY <1>1, FS_Subset
<1>4. \A S \in SUBSET Nodes : \A n \in Nodes \ S : Cardinality(S \cup {n}) = Cardinality(S) + 1
  BY <1>1, FS_AddElement
<1> QED BY <1>1, <1>2, <1>3, <1>4 DEF Counting

\* docs/autopilot.md: controllers one at a time, workers only after them and never
\* more than the plan allows, whatever the plan, as long as no two of its commands
\* are of a kind (IsSignalDataSameCommand could not tell their signals apart): also
\* when the leader changes between two reconciles, nodes cannot be written, and
\* targets are missing.
THEOREM RolloutIsDisciplined ==
    Calm /\ OneOfAKind => (PlanSpec => []RolloutDiscipline)
<1> SUFFICES ASSUME Calm, OneOfAKind PROVE PlanSpec => []RolloutDiscipline
  OBVIOUS
<1>1. PlanInit => RolloutInv
  BY RolloutInvInit, CountingNodes
<1>2. RolloutInv /\ [PlanNext]_<<disturbed, vars>> => RolloutInv'
  BY RolloutInvNext, CountingNodes
<1>3. RolloutInv => RolloutDiscipline
  BY RolloutInvImplies, CountingNodes
<1> QED BY <1>1, <1>2, <1>3, PTL DEF PlanSpec

\* Under the same conditions a command that is recorded as completed was carried
\* out by each of its targets (schedulablewait, reconcileSignalNodeStatusTarget).
THEOREM CompletedIsCarriedOut ==
    Calm /\ OneOfAKind => (PlanSpec => []CommandsAreCarriedOut)
<1> SUFFICES ASSUME Calm, OneOfAKind PROVE PlanSpec => []CommandsAreCarriedOut
  OBVIOUS
<1>1. PlanInit => RolloutInv
  BY RolloutInvInit, CountingNodes
<1>2. RolloutInv /\ [PlanNext]_<<disturbed, vars>> => RolloutInv'
  BY RolloutInvNext, CountingNodes
<1>3. RolloutInv => CommandsAreCarriedOut
  BY RolloutInvImplies, CountingNodes
<1> QED BY <1>1, <1>2, <1>3, PTL DEF PlanSpec

\* An ended plan stays ended, and signals nobody (the event filters of
\* plans/cmdprovider and plans/init.go), for commands of whatever kinds.
THEOREM EndedPlansStay == Calm => (PlanSpec => PlansStayFinal)
<1> SUFFICES ASSUME Calm PROVE PlanSpec => PlansStayFinal
  OBVIOUS
<1>1. PlanInit => RolloutInv
  BY RolloutInvInit, CountingNodes
<1>2. RolloutInv /\ [PlanNext]_<<disturbed, vars>> => RolloutInv'
  BY RolloutInvNext, CountingNodes
<1>3. RolloutInv /\ [PlanNext]_<<disturbed, vars>> => [~disturbed => StaysFinal]_vars
  BY RolloutInvEnded
<1> QED BY <1>1, <1>2, <1>3, PTL DEF PlanSpec, PlansStayFinal
=============================================================================
