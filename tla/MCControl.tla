------------------------------ MODULE MCControl -------------------------------
(***************************************************************************)
(* Instances for TLC of the components that keep a cluster's control plane *)
(* and what it deploys in shape.  Their models share no state, so one run  *)
(* takes them in turn: "part" says which of them moves, the others rest in *)
(* an initial state.                                                       *)
(***************************************************************************)
EXTENDS ControlPlaneLB, ControlPlane, WorkerConfig, HelmExtensions, ClusterUpkeep, MCClusterConfig

VARIABLE part

\* One virtual IP, and a link that carries it already and one that does not.
MCVIPs == {[ip |-> "v", bits |-> 24]}
MCLinks == {{}, {[ip |-> "v", bits |-> 32], [ip |-> "w", bits |-> 32]}}

\* Configurations of kube-apiserver: all combinations of the flags that depend
\* on each other, all combinations of the timeouts, and one with every process.
Plain == [storage |-> "etcd", konnectivity |-> FALSE, noEndpoints |-> FALSE, authFile |-> "none",
          user |-> {}, request |-> -1, grace |-> -1, stopTimeout |-> 0]
MCApiSetups ==
    {[Plain EXCEPT !.noEndpoints = n, !.authFile = a, !.user = u] :
        n \in BOOLEAN, a \in {"none", "plain", "anonymous", "broken"},
        u \in SUBSET {"anonymous-auth", "endpoint-reconciler-type"}}
      \cup {[Plain EXCEPT !.storage = "external", !.request = r, !.grace = g, !.stopTimeout = t] :
              r \in {-1, 0, 10}, g \in {-1, 0, 30}, t \in {0, 1, 40}}
      \cup {[Plain EXCEPT !.storage = "kine", !.konnectivity = TRUE]}

\* The first configuration has a worker profile, the next one has not.
MCVersions == [config |-> 2, servers |-> 1]
MCProfiles == [v \in 0 .. 2 |-> IF v = 1 THEN {"custom"} ELSE {}]
MCUpsets == {[failure |-> 1, lease |-> 1, stop |-> 0], [failure |-> 0, lease |-> 0, stop |-> 1]}

\* Two changes around a duty, but one around the certificates, whose requests
\* pile up.
MCShifts == [d \in Duties |-> IF d = "csr" THEN 1 ELSE 2]

-------------------------------------------------------------------------------
controlVars == <<part, cpVars, kpVars, wcVars, hxVars, upVars, cfVars>>

Parts == {"cplb", "processes", "profiles", "helm", "upkeep", "document"}

ControlInit ==
    /\ part \in Parts
    /\ CpInit /\ (part # "cplb" => cpMode = "proxy" /\ cpLink = {})
    /\ KpInit /\ (part # "processes" => kpSetup = Plain)
    /\ WcInit /\ (part # "profiles" => wcUpsets["stop"] = 0)
    /\ HxInit /\ (part # "helm" => hxKind = CHOOSE k \in ChartKinds : TRUE)
    /\ UpInit /\ (part # "upkeep" => upDuty = "stack" /\ upWorld.node.provided = {})
    /\ upWorld.dns = {CHOOSE ip \in IPs : TRUE}   \* the addresses are interchangeable
    /\ CfInit /\ (part # "document" => cfDoc = NoConfig /\ ~cfSingle)

ControlNext ==
    \/ part = "cplb" /\ CpNext /\ UNCHANGED <<part, kpVars, wcVars, hxVars, upVars, cfVars>>
    \/ part = "processes" /\ KpNext /\ UNCHANGED <<part, cpVars, wcVars, hxVars, upVars, cfVars>>
    \/ part = "profiles" /\ WcNext /\ UNCHANGED <<part, cpVars, kpVars, hxVars, upVars, cfVars>>
    \/ part = "helm" /\ HxNext /\ UNCHANGED <<part, cpVars, kpVars, wcVars, upVars, cfVars>>
    \/ part = "upkeep" /\ UpNext /\ UNCHANGED <<part, cpVars, kpVars, wcVars, hxVars, cfVars>>
    \/ part = "document" /\ CfNext /\ UNCHANGED <<part, cpVars, kpVars, wcVars, hxVars, upVars>>

\* The fairness of each component, for the one that moves.
ControlSpec ==
    /\ ControlInit /\ [][ControlNext]_controlVars
    /\ WF_kpVars(part = "processes" /\ KonnectivityLoop)
    /\ \A m \in Members : WF_wcVars(part = "profiles" /\ (MemberLoops(m) \/ StartReconciler(m)))
    /\ WF_wcVars(part = "profiles" /\ \E m \in Members, k \in Callers : MemberCalls(m, k))
    /\ WF_wcVars(part = "profiles" /\ (\/ \E m \in Members : AcquireLease(m)
                                       \/ (LoseLease /\ wcState[wcLeader] # "started")))
    /\ WF_hxVars(part = "helm" /\ HxLoop) /\ WF_hxVars(part = "helm" /\ HxTask)
    /\ WF_hxVars(part = "helm" /\ HxWork) /\ WF_hxVars(part = "helm" /\ TakeLead)
    /\ \A c \in Controllers : WF_upVars(part = "upkeep" /\ Rounds(c))
    /\ WF_upVars(part = "upkeep" /\ UpdateNodeAddress)
    /\ WF_upVars(part = "upkeep" /\ KubeletRequests)
    /\ WF_upVars(part = "upkeep" /\ SomebodyLeads)

-------------------------------------------------------------------------------
\* The state of every component keeps its type.
ControlTypeOK == CpTypeOK /\ KpTypeOK /\ WcTypeOK /\ HxTypeOK /\ UpTypeOK

\* What runs on a controller is what its inputs say: the flags of kube-apiserver
\* fit together (apiserver.go), the load balancer routes to the API servers that
\* are healthy (cplb_reconciler.go, cplb_linux.go), and nothing is certified or
\* reported that should not be (csrapprover.go, telemetry/component.go); and the
\* configuration fits together, survives its way through the ClusterConfig object,
\* and gets the images of a newer version (clusterconfig_types.go).
ControlPlaneIsCurrent ==
    /\ ControlTypeOK
    /\ FlagsFit /\ RoutesAreFresh /\ UpkeepHoldsBack
    /\ ConfigSurvives /\ UpgradeBringsImages /\ RunsConsistently

\* The worker profiles follow the configuration and the API servers, and every
\* update handed to their reconciler is answered (workerconfig/reconciler.go).
ProfilesAreServed == ProfilesCatchUp /\ UpdatesAreAnswered

\* The periodic duties of the leader get done (csrapprover.go,
\* apiendpointreconciler.go, noderole.go, crd.go, autopilot.go).
DutiesGetDone == <>[](part = "upkeep" => UpkeepIsDone)

=============================================================================
