-------------------------------- MODULE MCPlan --------------------------------
(***************************************************************************)
(* Instances of PlanScheduler for TLC: a plan that brings an airgap bundle *)
(* to the workers and then k0s to everyone.                                *)
(*                                                                         *)
(*   - the rollout: two nodes of each kind, and those disturbances under   *)
(*     which the documentation's promises are kept;                        *)
(*   - "disturbed" (module Disturbed): one node of each kind that the plan *)
(*     is for, and every disturbance.                                      *)
(***************************************************************************)
EXTENDS PlanScheduler

CONSTANTS c1, c2, w1, w2

VARIABLE disturbed

AirgapThenK0s == <<"AirgapUpdate", "K0sUpdate">>
TwoControllers == <<{}, {c1, c2}>>
TwoWorkers == <<{w1, w2}, {w1, w2}>>
TwoThenOne == <<2, 1>>

Disturbed == INSTANCE PlanScheduler WITH
    Controllers <- <<{}, {c1}>>, Workers <- <<{w1}, {w1}>>, Limit <- <<1, 1>>,
    Allowed <- Disturbances

PlanInit ==
    /\ disturbed \in BOOLEAN
    /\ \/ disturbed /\ Disturbed!Init /\ sig[c2] = NoSignal /\ sig[w2] = NoSignal
       \/ ~disturbed /\ Init

PlanNext == \/ disturbed /\ Disturbed!Next /\ UNCHANGED disturbed
            \/ ~disturbed /\ Next /\ UNCHANGED disturbed

\* The fairness of PlanScheduler's FairSpec, for the rollout.
PlanSpec ==
    /\ PlanInit /\ [][PlanNext]_<<disturbed, vars>>
    /\ WF_vars(~disturbed /\ ObservePlan)
    /\ WF_vars(~disturbed /\ NewPlan /\ UNCHANGED faults)
    /\ WF_vars(~disturbed /\ SchedulableWait)
    /\ WF_vars(~disturbed /\ SchedulableWrites)
    /\ \A i \in 1..N : /\ SF_vars(~disturbed /\ Schedulable(i))
                       /\ WF_vars(~disturbed /\ SchedulableEnds(i) /\ UNCHANGED faults)
    /\ \A c \in Names : /\ WF_vars(~disturbed /\ Timer(c))
                        /\ WF_vars(~disturbed /\ Finish(c))
    /\ \A n \in Nodes : /\ WF_vars(~disturbed /\ ObserveNode(n))
                        /\ WF_vars(~disturbed /\ NodeEnds(n))

-------------------------------------------------------------------------------
\* docs/autopilot.md: controllers are updated one at a time, workers only after
\* them and never more than the plan allows (isSchedulableControllers,
\* isSchedulableWorkers, findNextSchedulableTarget).
RolloutDiscipline ==
    ~disturbed => /\ OneControllerAtATime
                  /\ WorkerLimit
                  /\ WorkersAfterControllers

\* A completed command has been carried out by all of its targets
\* (reconcileSignalNodeStatusTarget, schedulablewait).
CommandsAreCarriedOut == ~disturbed => CompletedMeansCarriedOut

\* Once a plan is completed or has failed, that is final, and nobody is signalled
\* any more (the event filters of plans/cmdprovider and plans/init.go).
PlansStayFinal ==
    [][~disturbed => StaysFinal]_vars

\* Every plan ends, also when the leader changes between two reconciliations.
PlansEnd == ~disturbed => PlanEnds

=============================================================================
