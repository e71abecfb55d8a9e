---------------------------- MODULE NodeLifecycle ----------------------------
(***************************************************************************)
(* The life of a k0s process: `k0s controller` (cmd/controller) and        *)
(* `k0s worker` (cmd/worker), the component managers they drive            *)
(* (pkg/component/manager), the prober behind `k0s status components`      *)
(* (pkg/component/prober, pkg/component/status) and the choice of the      *)
(* iptables mode (pkg/component/iptables).                                 *)
(*                                                                         *)
(* A controller has a manager for the components of the node, one for      *)
(* those of the cluster and, when it runs workloads, the worker's: each    *)
(* initializes its components, starts them one after the other and, when   *)
(* it ends or when one fails, stops those it has started in reverse order. *)
(***************************************************************************)
EXTENDS Naturals, Sequences, FiniteSets, SequencesExt

CONSTANTS
    Setups,       \* the configurations a node is run with
    HostRules,    \* what the two iptables-save may show before k0s has run
    MaxLaunches,  \* bound: how often the process is launched
    MaxMishaps,   \* bound: how many operations of components fail
    MaxProbes     \* bound: how many health probes are made

VARIABLES
    lcSetup,      \* the configuration of the node
    lcComponents, \* Manager.Components: per manager, in the order they are added
    lcPhase,      \* what the process is doing
    lcManager,    \* the manager it is doing it with: "node", "cluster" or "worker"
    lcNext,       \* the index of the component to start
    lcStarted,    \* Manager.started: per manager, the last one started first
    lcContext,    \* "live", "left" (cancelled by an etcd leave) or "signalled"
    lcFailed,     \* start() is returning an error
    lcProber,     \* "idle", "running" or "closed" (its only run is over)
    lcRing,       \* the health probes that are kept, the oldest first
    lcProbes,     \* how many probes have been made
    lcMode,       \* the iptables mode chosen, or "none"
    lcRules,      \* what iptables-save shows per mode: "none", "other" or "kube"
    lcWedged,     \* the component that does not get ready in this run, or "none"
    lcLaunches, lcMishaps

lcVars == <<lcSetup, lcComponents, lcPhase, lcManager, lcNext, lcStarted, lcContext, lcFailed,
            lcProber, lcRing, lcProbes, lcMode, lcRules, lcWedged, lcLaunches, lcMishaps>>

lcProbing == <<lcProber, lcRing, lcProbes>>
lcTables == <<lcMode, lcRules>>

ProbesTrackLength == 3

------------------------------------------------------------------------------
(* The components of a node, in the order in which they are added.         *)

SingleController(s) == s.mode = "single" \/ ~s.joinable

Workloads(s) == s.mode \in {"single", "controller+worker"}

Konnectivity(s) == s.mode # "single" /\ "konnectivity" \notin s.disabled

EndpointReconciler(s) == s.external /\ "endpoint" \notin s.disabled /\ ~s.cplb

(* The servers of the node and what they need ...                          *)
ServerComponents(s) ==
    SelectSeq(<<"storage", "iptables", "cplb", "konnectivity", "apiserver", "leasecounter", "leaderelector">>,
              LAMBDA c :
                 /\ c \notin s.disabled
                 /\ c = "storage" => s.storage # "external etcd"
                 /\ c \in {"iptables", "cplb"} => s.cplb
                 /\ c = "konnectivity" => Konnectivity(s)
                 /\ c = "leasecounter" => ~SingleController(s))

(* ... and what runs beside them on every controller.                      *)
NodeComponents(s) ==
    ServerComponents(s) \o
    SelectSeq(<<"applier", "controlapi", "csrapprover", "cloudprovider", "status">>,
              LAMBDA c :
                 /\ c \notin s.disabled
                 /\ c = "controlapi" => s.joinable
                 /\ c = "cloudprovider" => s.cloud)

(* The first half of the cluster's components ...                          *)
ConfigComponents(s) ==
    SelectSeq(<<"configinit", "configreconciler", "extensions", "endpoint", "windows", "kubeproxy",
                "coredns", "calico", "kuberouter", "metricserver", "metrics">>,
              LAMBDA c :
                 /\ c \notin s.disabled
                 /\ c = "configinit" => s.dynamic
                 /\ c = "endpoint" => EndpointReconciler(s)
                 /\ c \in {"calico", "kuberouter"} => "network" \notin s.disabled
                 /\ c = "metrics" => s.scraper)

(* ... and the second, whose last one sets the reconciliation off.         *)
ClusterComponents(s) ==
    ConfigComponents(s) \o
    SelectSeq(<<"workerconfiglease", "workerconfig", "systemrbac", "noderole", "konnectivityagent",
                "scheduler", "controllermanager", "etcdcrd", "etcdmember", "telemetry", "autopilot",
                "updateprober", "configsource">>,
              LAMBDA c :
                 /\ c \notin s.disabled
                 /\ c = "konnectivityagent" => Konnectivity(s)
                 /\ c \in {"etcdcrd", "etcdmember"} => s.storage = "etcd"
                 /\ c = "telemetry" => s.telemetry)

(* The worker's, alone or embedded into a controller.  The autopilot of an *)
(* embedded worker is the controller's, and so is the status.              *)
WorkerComponents(s) ==
    SelectSeq(<<"staticpods", "nllb", "containerd", "ocibundle", "deprecation", "workeriptables",
                "kubelet", "workerautopilot", "workerstatus">>,
              LAMBDA c :
                 /\ c \in {"staticpods", "nllb"} => s.nllb
                 /\ c \in {"containerd", "ocibundle", "deprecation"} => ~s.criSocket
                 /\ c = "workeriptables" => s.mode = "worker" \/ ~s.cplb
                 /\ c = "workerautopilot" => "autopilot" \notin s.disabled /\ s.mode = "worker"
                 /\ c = "workerstatus" => s.mode = "worker")

Added(s) == [node |-> NodeComponents(s), cluster |-> ClusterComponents(s), worker |-> WorkerComponents(s)]

Components(m) == lcComponents[m]

(* Those with a Ready method, which the manager waits for, and the one     *)
(* with a Healthy method, which the prober asks.                           *)
HasReady(c) == c \in {"storage", "konnectivity", "apiserver", "staticpods", "nllb"}
HasHealthy(c) == c = "konnectivity"

Running == UNION {Range(lcStarted[m]) : m \in DOMAIN lcStarted}

Cancelled == lcContext # "live"

------------------------------------------------------------------------------
(* How the process ends: a controller's deferred calls stop the cluster's  *)
(* components and then the node's, whatever made it return; the worker     *)
(* stops its own.                                                          *)

Unwind(m) ==
    CASE m = "worker" /\ lcSetup.mode # "worker" ->
           lcManager' = "cluster" /\ lcPhase' = "stopping"
      [] m = "cluster" -> lcManager' = "node" /\ lcPhase' = "stopping"
      [] OTHER -> lcManager' = lcManager /\ lcPhase' = "returned"

Mishap == lcMishaps < MaxMishaps /\ lcMishaps' = lcMishaps + 1 /\ lcFailed' = TRUE
NoMishap == UNCHANGED <<lcMishaps, lcFailed>>

StopFirstStartedFirst ==
    /\ lcPhase = "stopping"
    /\ IF lcStarted[lcManager] = <<>>
         THEN Unwind(lcManager) /\ UNCHANGED lcStarted
         ELSE /\ lcStarted' = [lcStarted EXCEPT ![lcManager] = Front(@)]
              /\ UNCHANGED <<lcManager, lcPhase>>
    /\ UNCHANGED <<lcSetup, lcComponents, lcNext, lcContext, lcProbing, lcTables, lcWedged, lcLaunches>>
    /\ NoMishap

(* Manager.Stop: the last component started is stopped first; an error of  *)
(* its Stop is logged only.  The Stop of the control plane load balancer   *)
(* may never return: the goroutine it waits for and a health checker can   *)
(* wait for each other (see StopCleansUp of ControlPlaneLB).               *)
StopComponent ==
    /\ lcPhase = "stopping"
    /\ \/ /\ lcStarted[lcManager] = <<>>
          /\ Unwind(lcManager)
          /\ UNCHANGED lcStarted
          /\ NoMishap
       \/ /\ lcStarted[lcManager] # <<>>
          /\ lcStarted' = [lcStarted EXCEPT ![lcManager] = Tail(@)]
          /\ UNCHANGED <<lcManager, lcPhase>>
          /\ NoMishap
       \/ /\ lcStarted[lcManager] # <<>>
          /\ Head(lcStarted[lcManager]) = "cplb"
          /\ lcPhase' = "hung"
          /\ lcMishaps < MaxMishaps
          /\ lcMishaps' = lcMishaps + 1
          /\ UNCHANGED <<lcManager, lcStarted, lcFailed>>
    /\ UNCHANGED <<lcSetup, lcComponents, lcNext, lcContext, lcProbing, lcTables, lcWedged, lcLaunches>>

------------------------------------------------------------------------------
(* The iptables component stages its binaries and links the mode in use.   *)

(* findMatchingEntries fails only if both address families fail.           *)
FindMatchingEntries(mode, failing) ==
    IF mode \in failing THEN "error" ELSE lcRules[mode]

(* DetectHostIPTablesMode: kube-related entries decide, nft's before       *)
(* legacy's; then the number of entries; then the host's iptables.         *)
DetectHostIPTablesMode(failing, host) ==
    LET nft == FindMatchingEntries("nft", failing)
        legacy == FindMatchingEntries("legacy", failing)
    IN CASE nft = "kube" -> "nft"
         [] nft # "kube" /\ legacy = "kube" -> "legacy"
         [] nft = "none" /\ legacy = "other" -> "legacy"
         [] OTHER -> host

(* extractIPTablesBinaries: the mode of the configuration, else the one    *)
(* detected, else the default for the kernel, which host covers too.       *)
ExtractIPTablesBinaries(failing, host) ==
    lcMode' = IF lcSetup.iptables # "auto" THEN lcSetup.iptables
              ELSE DetectHostIPTablesMode(failing, host)

------------------------------------------------------------------------------
(* The managers                                                            *)

(* Manager.Init: all of them at once, and the first error is returned      *)
(* after all have ended.                                                   *)
ManagerInit ==
    /\ lcPhase = "initializing"
    /\ \/ /\ Mishap
          /\ Unwind(lcManager)
          /\ UNCHANGED <<lcNext, lcMode>>
       \/ /\ lcPhase' = IF lcManager = "node" /\ lcSetup.initOnly THEN "returned" ELSE "starting"
          /\ lcNext' = 1
          /\ lcManager' = lcManager
          /\ UNCHANGED lcFailed
          /\ IF Range(Components(lcManager)) \cap {"iptables", "workeriptables"} = {}
               THEN UNCHANGED <<lcMode, lcMishaps>>
               ELSE \E failing \in SUBSET {"nft", "legacy"}, host \in {"nft", "legacy"} :
                       /\ failing # {} => lcMishaps < MaxMishaps
                       /\ lcMishaps' = IF failing = {} THEN lcMishaps ELSE lcMishaps + 1
                       /\ ExtractIPTablesBinaries(failing, host)
    /\ UNCHANGED <<lcSetup, lcComponents, lcStarted, lcContext, lcProbing, lcRules, lcWedged, lcLaunches>>

(* The next phase when all the components of a manager are ready.          *)
AllStarted ==
    CASE lcManager = "node" -> lcManager' = "cluster" /\ lcPhase' = "initializing"
      [] lcManager = "cluster" /\ Workloads(lcSetup) ->
           lcManager' = "worker" /\ lcPhase' = "bootstrapping"
      [] OTHER -> lcManager' = lcManager /\ lcPhase' = "running"

(* A component whose Start has failed is not stopped: it is not in the     *)
(* list yet.  The prober's loop is started along with the first manager.   *)
StartComponent ==
    /\ lcPhase = "starting"
    /\ lcProber' = IF lcProber = "idle" THEN "running" ELSE lcProber
    /\ IF lcNext > Len(Components(lcManager))
         THEN AllStarted /\ UNCHANGED <<lcStarted, lcRules>> /\ NoMishap
         ELSE LET c == Components(lcManager)[lcNext] IN
              /\ lcManager' = lcManager
              /\ \/ /\ lcPhase' = "awaiting"
                    /\ lcStarted' = [lcStarted EXCEPT ![lcManager] = <<c>> \o @]
                    /\ lcRules' = IF c = "kubelet" /\ lcMode # "none"
                                    THEN [lcRules EXCEPT ![lcMode] = "kube"] ELSE lcRules
                    /\ NoMishap
                 \/ /\ lcPhase' = "stopping"
                    /\ Mishap
                    /\ UNCHANGED <<lcStarted, lcRules>>
    /\ UNCHANGED <<lcSetup, lcComponents, lcNext, lcContext, lcRing, lcProbes, lcMode, lcWedged, lcLaunches>>

(* Mutant of WaitForReady: without the time limit.                         *)
WaitForReadyForever ==
    /\ lcPhase = "awaiting"
    /\ \/ /\ Components(lcManager)[lcNext] # lcWedged
          /\ lcPhase' = "starting"
          /\ lcNext' = lcNext + 1
          /\ NoMishap
       \/ /\ Cancelled
          /\ HasReady(Components(lcManager)[lcNext])
          /\ lcPhase' = "stopping"
          /\ lcFailed' = TRUE
          /\ UNCHANGED <<lcNext, lcMishaps>>
    /\ UNCHANGED <<lcSetup, lcComponents, lcManager, lcStarted, lcContext, lcProbing, lcTables, lcWedged, lcLaunches>>

(* waitForReady: until the component is ready, two minutes have passed or  *)
(* the context is done.  A component that cannot tell is ready.            *)
WaitForReady ==
    /\ lcPhase = "awaiting"
    /\ \/ /\ Components(lcManager)[lcNext] # lcWedged
          /\ lcPhase' = "starting"
          /\ lcNext' = lcNext + 1
          /\ NoMishap
       \/ /\ Components(lcManager)[lcNext] = lcWedged \/ Cancelled
          /\ HasReady(Components(lcManager)[lcNext])
          /\ lcPhase' = "stopping"
          /\ lcFailed' = TRUE
          /\ UNCHANGED <<lcNext, lcMishaps>>
    /\ UNCHANGED <<lcSetup, lcComponents, lcManager, lcStarted, lcContext, lcProbing, lcTables, lcWedged, lcLaunches>>

------------------------------------------------------------------------------
(* The commands                                                            *)

(* `k0s controller` ensures its certificates and initializes the node's    *)
(* components; `k0s worker` goes on with the bootstrapping of the kubelet. *)
Launch ==
    /\ lcPhase = "off"
    /\ lcLaunches < MaxLaunches
    /\ lcLaunches' = lcLaunches + 1
    /\ lcContext' = "live" /\ lcFailed' = FALSE
    /\ lcProber' = "idle" /\ lcRing' = <<>>
    /\ lcNext' = 1
    /\ IF lcSetup.mode = "worker"
         THEN lcManager' = "worker" /\ lcPhase' = "bootstrapping"
         ELSE lcManager' = "node" /\ lcPhase' = "certificates"
    /\ \/ lcWedged' = "none" /\ UNCHANGED lcMishaps
       \/ /\ lcMishaps < MaxMishaps
          /\ lcMishaps' = lcMishaps + 1
          /\ lcWedged' \in {c \in Range(Components("node") \o Components("worker")) : HasReady(c)}
    /\ UNCHANGED <<lcSetup, lcComponents, lcStarted, lcProbes, lcTables>>

EnsureCertificates ==
    /\ lcPhase = "certificates"
    /\ IF lcSetup.mode = "single" /\ lcSetup.cplb
         THEN lcPhase' = "returned" /\ lcFailed' = TRUE /\ UNCHANGED lcMishaps
         ELSE \/ lcPhase' = "initializing" /\ NoMishap
              \/ lcPhase' = "returned" /\ Mishap
    /\ UNCHANGED <<lcSetup, lcComponents, lcManager, lcNext, lcStarted, lcContext, lcProbing, lcTables, lcWedged, lcLaunches>>

(* The start of the worker: the kubelet's client configuration, on a       *)
(* controller the one that goes to the local API server, and the profile.  *)
(* The retries end with the context.                                       *)
BootstrapWorker ==
    /\ lcPhase = "bootstrapping"
    /\ IF lcSetup.mode = "single" /\ lcSetup.nllb
         THEN Unwind("worker") /\ lcFailed' = TRUE /\ UNCHANGED lcMishaps
         ELSE \/ lcPhase' = "initializing" /\ lcManager' = lcManager /\ NoMishap
              \/ Unwind("worker") /\ Mishap
              \/ Cancelled /\ Unwind("worker") /\ lcFailed' = TRUE /\ UNCHANGED lcMishaps
    /\ UNCHANGED <<lcSetup, lcComponents, lcNext, lcStarted, lcContext, lcProbing, lcTables, lcWedged, lcLaunches>>

(* All is up: the process waits for its context.                           *)
AwaitShutdown ==
    /\ lcPhase = "running"
    /\ Cancelled
    /\ lcPhase' = "stopping"
    /\ UNCHANGED <<lcSetup, lcComponents, lcManager, lcNext, lcStarted, lcContext, lcProbing, lcTables, lcWedged, lcLaunches>>
    /\ NoMishap

(* start() has returned: its context is cancelled.  With an error, and as  *)
(* a worker, the process exits; a controller waits for the signal (its     *)
(* components may have stopped because it has left the etcd cluster).      *)
Exit ==
    /\ lcPhase = "returned"
    /\ lcFailed \/ lcSetup.initOnly \/ lcSetup.mode = "worker" \/ lcContext = "signalled"
    /\ lcPhase' = "off"
    /\ lcProber' = "closed"
    /\ UNCHANGED <<lcSetup, lcComponents, lcManager, lcNext, lcStarted, lcContext, lcRing, lcProbes, lcTables, lcWedged, lcLaunches>>
    /\ NoMishap

(* SIGTERM, and the etcd member reconciler that has left the cluster.      *)
Signal ==
    /\ lcPhase # "off"
    /\ lcContext # "signalled"
    /\ lcContext' = "signalled"
    /\ UNCHANGED <<lcSetup, lcComponents, lcPhase, lcManager, lcNext, lcStarted, lcProbing, lcTables, lcWedged, lcLaunches>>
    /\ NoMishap

LeaveCancels ==
    /\ "etcdmember" \in Running
    /\ lcContext = "live"
    /\ lcContext' = "left"
    /\ UNCHANGED <<lcSetup, lcComponents, lcPhase, lcManager, lcNext, lcStarted, lcProbing, lcTables, lcWedged, lcLaunches>>
    /\ NoMishap

(* Prober.healthCheckLoop: a probe of the components registered so far,    *)
(* until the context is done.  Of each, a ring keeps the last three.       *)
CheckComponentsHealth ==
    /\ lcProber = "running"
    /\ \/ /\ Cancelled
          /\ lcProber' = "closed"
          /\ UNCHANGED <<lcRing, lcProbes>>
       \/ /\ \E c \in Running : HasHealthy(c)
          /\ lcProbes < MaxProbes
          /\ lcProbes' = lcProbes + 1
          /\ lcRing' = (IF Len(lcRing) = ProbesTrackLength THEN Tail(lcRing) ELSE lcRing)
                       \o <<lcProbes + 1>>
          /\ UNCHANGED lcProber
    /\ UNCHANGED <<lcSetup, lcComponents, lcPhase, lcManager, lcNext, lcStarted, lcContext, lcTables, lcWedged, lcLaunches>>
    /\ NoMishap

(* Prober.State, which `k0s status components --max-count` shows.          *)
ProberState(maxCount) ==
    SubSeq(lcRing, 1, Min({maxCount, ProbesTrackLength, Len(lcRing)}))

LcInit ==
    /\ lcSetup \in Setups
    /\ lcComponents = Added(lcSetup)
    /\ lcPhase = "off" /\ lcManager = "node" /\ lcNext = 1
    /\ lcStarted = [m \in {"node", "cluster", "worker"} |-> <<>>]
    /\ lcContext = "live" /\ lcFailed = FALSE
    /\ lcProber = "idle" /\ lcRing = <<>> /\ lcProbes = 0
    /\ lcMode = "none" /\ lcWedged = "none"
    /\ lcRules \in HostRules
    /\ lcLaunches = 0 /\ lcMishaps = 0

LcProcess ==
    \/ EnsureCertificates \/ BootstrapWorker \/ ManagerInit \/ StartComponent \/ WaitForReady
    \/ AwaitShutdown \/ StopComponent \/ Exit

LcNext == Launch \/ LcProcess \/ Signal \/ LeaveCancels \/ CheckComponentsHealth

(* The main goroutine goes on as long as it can: readiness is awaited with *)
(* a timeout and everything else returns, but for a Stop that hangs.       *)
LcSpec == LcInit /\ [][LcNext]_lcVars /\ WF_lcVars(LcProcess)

------------------------------------------------------------------------------
LcTypeOK ==
    /\ lcSetup \in Setups
    /\ lcPhase \in {"off", "certificates", "bootstrapping", "initializing", "starting", "awaiting",
                    "running", "stopping", "hung", "returned"}
    /\ lcManager \in {"node", "cluster", "worker"}
    /\ lcContext \in {"live", "left", "signalled"}
    /\ lcProber \in {"idle", "running", "closed"}
    /\ lcMode \in {"none", "nft", "legacy"}
    /\ lcFailed \in BOOLEAN

(* What a component works through while it runs: the store of the API      *)
(* server, the API server and the leases of the controllers, containerd    *)
(* and the static pods of the kubelet.  The config source sets off the     *)
(* reconciliation of all the others.                                       *)
Uses(c) ==
    CASE c = "apiserver" -> {"storage"}
      [] c = "cplb" -> {"iptables"}
      [] c \in {"leasecounter", "leaderelector", "workerconfiglease", "configreconciler", "coredns"} ->
           {"apiserver"}
      [] c \in {"applier", "csrapprover", "extensions", "etcdcrd", "etcdmember", "autopilot",
                "updateprober"} -> {"apiserver", "leaderelector"}
      [] c = "workerconfig" -> {"workerconfiglease"}
      [] c = "configsource" -> Range(Components("cluster")) \ {"configsource"}
      [] c = "nllb" -> {"staticpods"}
      [] c \in {"ocibundle", "deprecation"} -> {"containerd"}
      [] c = "kubelet" -> {"apiserver", "staticpods", "nllb", "containerd", "iptables", "workeriptables"}
      [] OTHER -> {}

Wanted ==
    UNION {Range(Components(m)) :
             m \in IF lcSetup.mode = "worker" THEN {"worker"}
                   ELSE {"node", "cluster"} \cup IF Workloads(lcSetup) THEN {"worker"} ELSE {}}

(* A component only runs while those it works through run, whatever fails  *)
(* and whenever the process is told to end, and when start() has returned  *)
(* none that was started is left running (Manager.Start, Manager.Stop and  *)
(* the deferred calls of cmd/controller).                                  *)
StopsInOrder ==
    /\ \A c \in Running : Uses(c) \cap Wanted \subseteq Running
    /\ lcPhase \in {"returned", "off"} => Running = {}

(* Once a kubelet has run with an iptables mode, that mode is chosen again *)
(* whenever k0s starts, unless the rules could not be inspected: the       *)
(* entries the kubelet leaves behind decide, and not what the host's       *)
(* iptables or the number of other entries suggest.                        *)
IptablesModeStays ==
    lcMode # "none" /\ lcRules[lcMode] = "kube" /\ lcMode' # lcMode => lcMishaps' > lcMishaps

(* A process that is told to end ends, even while it awaits a component    *)
(* that never gets ready (a context stays cancelled until the next         *)
(* launch); and without being told, a start ends with all components       *)
(* running or with an error.  Excepted is a Stop of the control plane load *)
(* balancer that never returns.                                            *)
ShutdownEnds ==
    /\ []<>(Cancelled => lcPhase \in {"returned", "off", "hung"})
    /\ []<>(lcPhase \in {"running", "returned", "off", "hung"})

(* Every process that is told to end ends.  It does not, with the control  *)
(* plane load balancer on: Keepalived.Stop waits without a time limit      *)
(* (cplb_linux.go:196), and so does all that would be stopped after it.    *)
ShutdownAlwaysEnds == []<>(Cancelled => lcPhase \in {"returned", "off"})

(* "how many latest probes to show" (cmd/status/status.go:97): with a      *)
(* maximum of one, the latest probe is shown.                              *)
LatestProbesShown ==
    lcRing # <<>> => ProberState(1) = <<Last(lcRing)>>

==============================================================================
