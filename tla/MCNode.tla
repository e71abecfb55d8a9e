-------------------------------- MODULE MCNode --------------------------------
(***************************************************************************)
(* Instances for TLC of the components that make a host a node of the      *)
(* cluster.  Their models share no state, so one run takes them in turn:   *)
(* "part" says which of them moves, the others rest in an initial state.   *)
(***************************************************************************)
EXTENDS StaticPods, NodeLocalLB, Containerd, NodeLifecycle, JoinCluster, TLC

VARIABLE part

CONSTANTS f1, f2, x, y

\* Two bundles with an image in common.
MCBundles == <<f1, f2>>
MCContents == (f1 :> {x}) @@ (f2 :> {x, y})

\* Nodes of every kind; lean ones have fewer components, so that each kind of
\* component is there at least once and the orders stay few.
Base == [mode |-> "controller+worker", storage |-> "etcd", joinable |-> TRUE, external |-> TRUE,
         cplb |-> FALSE, cloud |-> TRUE, dynamic |-> TRUE, scraper |-> TRUE, telemetry |-> TRUE,
         nllb |-> TRUE, criSocket |-> FALSE, initOnly |-> FALSE, iptables |-> "auto",
         disabled |-> {"network", "telemetry"}]
Lean == {"windows", "kubeproxy", "coredns", "metricserver", "systemrbac", "noderole", "scheduler",
         "controllermanager", "network", "updateprober", "extensions", "cloudprovider",
         "csrapprover", "status", "metrics", "autopilot"}
Leaner == Lean \cup {"konnectivity", "applier", "leasecounter", "configinit", "workerconfig",
                     "workerconfiglease"}
MCSetups ==
    {[Base EXCEPT !.disabled = Leaner],
     [Base EXCEPT !.mode = "controller", !.cplb = TRUE, !.storage = "external etcd", !.disabled = Lean],
     [Base EXCEPT !.mode = "worker"],
     [Base EXCEPT !.mode = "single", !.nllb = FALSE, !.storage = "kine", !.joinable = FALSE,
                  !.criSocket = TRUE, !.disabled = Leaner],
     [Base EXCEPT !.mode = "controller", !.initOnly = TRUE]}
MCHostRules == {[nft |-> "none", legacy |-> "other"], [nft |-> "other", legacy |-> "other"]}

-------------------------------------------------------------------------------
nodeVars == <<part, spVars, nlVars, ctVars, lcVars, jcVars>>

NodeInit ==
    /\ part \in {"pods", "balancer", "containerd", "lifecycle", "join"}
    /\ SpInit /\ NlInit /\ CtInit /\ LcInit /\ JcInit
    /\ part = "balancer" \/ (nlPublished = {} /\ nlBackend = CHOOSE b \in Backends : TRUE)
    /\ part = "lifecycle" \/ (lcSetup = (CHOOSE s \in Setups : TRUE) /\ lcRules = CHOOSE r \in HostRules : TRUE)
    /\ part = "join" \/ jcStorage = CHOOSE s \in Storages : TRUE

\* Workers do not see the storage: they get tokens in the cluster with etcd only.
WorkersJoinEtcd == jcStorage # "etcd" => \A n \in Workers : jcHeld[n] = 0

NodeNext ==
    /\ UNCHANGED part
    /\ \/ part = "pods" /\ SpNext /\ UNCHANGED <<nlVars, ctVars, lcVars, jcVars>>
       \/ part = "balancer" /\ NlNext /\ UNCHANGED <<spVars, ctVars, lcVars, jcVars>>
       \/ part = "containerd" /\ CtNext /\ UNCHANGED <<spVars, nlVars, lcVars, jcVars>>
       \/ part = "lifecycle" /\ LcNext /\ UNCHANGED <<spVars, nlVars, ctVars, jcVars>>
       \/ part = "join" /\ JcNext /\ WorkersJoinEtcd' /\ UNCHANGED <<spVars, nlVars, ctVars, lcVars>>

\* The fairness of each component, for the one that moves.
NodeSpec ==
    /\ NodeInit /\ [][NodeNext]_nodeVars
    /\ WF_nlVars(part = "balancer" /\ NlWorker)
    /\ WF_nlVars(part = "balancer" /\ PublishProfile)
    /\ WF_nlVars(part = "balancer" /\ WatchProfile)
    /\ WF_nlVars(part = "balancer" /\ TakeUpdate)
    /\ WF_nlVars(part = "balancer" /\ Tick)
    /\ WF_ctVars(part = "containerd" /\ CtRuns)
    /\ WF_ctVars(part = "containerd" /\ WatchDropinConfigs)
    /\ WF_ctVars(part = "containerd" /\ ReconcileCondition)
    /\ WF_lcVars(part = "lifecycle" /\ LcProcess)
    /\ \A n \in Controllers : WF_jcVars(part = "join" /\ ControllerStep(n))
    /\ \A n \in Workers : WF_jcVars(part = "join" /\ WorkerStep(n))

-------------------------------------------------------------------------------
\* The state of every component keeps its type.
NodeTypeOK == SpTypeOK /\ NlTypeOK /\ CtTypeOK /\ LcTypeOK /\ JcTypeOK

\* The files a worker's components leave for others fit what those components
\* do: the load balancer's files are there and whole while its pod is, and gone
\* once it is stopped (nllb/reconciler.go), the manifests that the kubelet can
\* fetch are those of the claimed pods (static_pods.go), and once the image
\* bundles are taken in, exactly the images of the bundles that are there are
\* pinned (ocibundle.go).
WorkerFilesAgree == NodeTypeOK /\ BalancerIsWhole /\ ContentIsCurrent /\ PinsFollowBundles

\* The node's components run only while those they use run, and none is left
\* when k0s returns (pkg/component/manager/manager.go).
\* The iptables mode stays what the kubelet's own rules say (iptables.go).
NodeKeepsOrder == [][StopsInOrder' /\ IptablesModeStays]_lcVars

\* A worker's components follow what changes around them: the load balancer the
\* published API servers (nllb/reconciler.go), containerd its drop-in
\* configuration (containerd/component.go).
WorkerSettles ==
    /\ BalancerCatchesUp
    /\ <>[](part = "containerd" => DropinsInEffect)

\* A process that is told to end ends and one that starts gets somewhere
\* (cmd/controller, cmd/worker), and a node that has joined comes up again after
\* every crash (needToJoin).
NodeComesAndGoes == ShutdownEnds /\ JoinedComeBack

=============================================================================
