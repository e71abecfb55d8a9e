# A TLA+ verification of k0s

k0s is a Kubernetes distribution in a single binary. A controller runs etcd (or
kine), the API server and the other control plane processes as supervised
children, elects a leader among the controllers, turns the cluster
configuration into manifests, applies these, and, with autopilot, updates its
own binary on all nodes. A worker runs containerd and the kubelet, and reaches
the controllers through a load balancer of its own. This directory has TLA+
models of these parts, above all where several goroutines, processes or
machines depend on each other, the TLC configurations that check them on small
instances, and TLAPS proofs of the most important properties for every
instance.

`PROJECT.json` is the index: components, runs, the source lines that every
definition stands for, a mutant for every property, findings, hazards and
theorems.

1. [The system](#1-the-system)
2. [The modules](#2-the-modules)
3. [The runs](#3-the-runs)
4. [What the models leave out, and what does not hold](#4-what-the-models-leave-out-and-what-does-not-hold)
5. [The proofs](#5-the-proofs)
6. [Findings](#6-findings)
7. [Not modelled](#7-not-modelled)

## 1. The system

```
  k0s.yaml ─► defaults, validation ─► ClusterConfig object ─► config source ─► reconciler
                                              ▲                                   │
             feature gates written back ──────┘        ┌──────────────────────────┼───────────────┐
                                                       ▼                          ▼               ▼
  leader election ── leading or not ──► manifests, charts, worker profiles   kube-scheduler, …   CPLB
        │                                   │        │          │            (supervisor: one
        │                       manifest deployer    │          │             child process each)
        │                                   ▼        ▼          │
        │                               API server ◄─ Helm      ▼
        │                                   ▲              worker: profile loader ─► NLLB ─► static pods ─► kubelet
        ├──► etcd member reconciler         │                      containerd ◄─ drop-ins, image bundles
        └──► autopilot leader: updates ─► plans ─► signal annotations ─► signal controllers of every node
```

* **Joining** (`cmd/controller`, `cmd/api`, `pkg/token`, `pkg/certificate`):
  the first controller makes the cluster's keys, others fetch them with a token.
* **The life of a process** (`cmd/controller`, `cmd/worker`,
  `pkg/component/manager`): components are started in order and stopped in
  reverse.
* **etcd membership** (`etcd.go`, `etcd_member_reconciler.go`): controllers join
  as learners, get promoted, leave on request.
* **Leader election** (`pkg/leaderelection`, `leaderelector`) tells each
  controller whether it leads; most writers to the API server work only while
  they do.
* **The configuration** (`pkg/apis/k0s/v1beta1`) is defaulted, validated,
  stripped, stored, and read again; **the configuration pipeline**
  (`pkg/component/controller`) takes it through `Reconcile` of every cluster
  component into manifests, worker profiles, charts and process arguments.
* **The manifest deployer** (`pkg/applier`) applies the manifests and prunes
  what is no longer in them; the **extensions controller** installs Helm charts.
* **The supervisor** (`pkg/supervisor`) keeps a child process running and finds
  those that outlived an earlier k0s.
* **Load balancing**: of the control plane (CPLB, virtual addresses and health
  checks on controllers) and node-local (NLLB, a static pod on workers).
* **Autopilot** (`pkg/autopilot`) looks for releases, executes a `Plan`: the
  leader signals nodes by an annotation, and reconcilers on each node download,
  cordon, replace the binary, restart and uncordon.
* **Commands of the operator**: install, reset, backup, restore, airgap bundles.

What makes these hard: caches that lag behind the API server, writes that are
accepted but reported as failed, leaders that change in the middle of an
operation, crashes between two files, goroutines that hold an old configuration
while a new one arrives, timers that race with late results, locks held while
sending on a channel, and recycled PIDs.

## 2. The modules

Each component has its module; `MC` modules have the instances for TLC, and
`Proofs` modules the theorems, of one component or of several (section 5). The
variables of the smaller components carry a prefix, so that one module can
extend several of them.

### Autopilot

**SignalNode — the update of one node.** The signal is an annotation of a `Node`
or `ControlNode`. Each reconciler waits for one status, does its work and writes
the next:

    (none) -> Downloading -> Cordoning -> ApplyingUpdate -> Restart -> UnCordoning -> Completed

| state | code |
|---|---|
| `signal` | the annotation in the API server |
| `seen`, `synced`, `queue` | informer cache and work queues of the node's and the leader's manager |
| `proc`, `running`, `disk`, `tmp` | the k0s process, its version, `k0s` and `k0s.tmp` |
| `record`, `tracker` | `downloadController.completed`, `RestartTracker` |
| `cordoned` | `spec.unschedulable` |

One action per reconciler; further ones for the delivery of watch events,
crashes (also in the middle of replacing the binary), restarts, rebuilt
managers and leader changes. A write is accepted only if the cache that was
read is current, as resource versions enforce. Several watch events delivered
in a row are one step: the reconcilers read the cache, and a request that is
queued twice is served once.

**PlanScheduler — the leader executing a plan.** `plan` and `view` are the status
of the Plan and its cached copy, `queue` and `timers` the requests of the
controllers newplan, schedulablewait and schedulable, `draft` the status that
schedulable has computed but not yet written after it has signalled a node,
`sig` and `seen` the annotations. A node ends its update in one step
(`NodeEnds`); SignalNode has the same update in detail. Disturbances (leader
changes, also between two writes, lost replies, foreign updates, errors, signals
of an earlier plan) are switched on by `Allowed`.

**AirgapSignal — an airgap bundle for one node**, down to the steps of the
atomic file: temporary file, transfer, hash, sync, rename. `agDl` is the
download controller with the object it has seen, `agFile.safe` whether the data
would survive a loss of power. `agDisk` is what the directory has on disk: the
file is synced, its directory is not, so a loss of power may take back the rename
(`agReverted`).

**AutoUpdates — the UpdateConfig.** The reconciler makes a cron or periodic
updater per version of the config (`auUpdaters`, and `auCurrent` for the one in
its map), an updater asks for a release, looks at the window, then at the plan,
and then patches it, in separate steps. There is an updater on every controller
(`auSetup.hosts`), and the plan they make is executed: it signals the hosts, waits
for those it has signalled, and completes or fails. `lost` has the hosts that
were signalled under the ID of a plan that has been replaced.

**AutopilotRoot** — the root controller that builds a manager, and rebuilds it
when the lease changes, the root worker with its attempts, and the readiness
probes that run concurrently and cancel each other. An attempt of the worker reads
the labels, patches the node and registers its controllers one by one; the names
of controllers are taken for good, across attempts.

### Leadership, etcd and configuration

**LeaderElection — rounds, callbacks and leader tasks.** `round` and `taken` are
the two goroutines of an election round (`leaderelection.Client`), `called` their
shared flag, `status` and `expired` the published `value.Latest`, `tasks` the
runner of leader tasks, `pool` the lease pool with `Start`, `YieldLease` and
`Stop`. The elector of client-go is external: it acquires, renews, fails or is
cancelled, and returns without waiting for its `OnStartedLeading` goroutine.

**EtcdMembership — joining and leaving etcd.** `members`, `db`, `up`: etcd;
`phase`, `inv`: the k0s processes; `cr`, `lease`, `holder`: the objects;
`pass`: the leader's walk over the members, object by object; it lists the objects
first, then the members of etcd, and works from both lists.

**ConfigPipeline — from the ClusterConfig object to manifests and processes.**
`api`, `watch`: the object and its undelivered events; `init`, `src`, `rc`: the
initializer, the source and the reconciler; `loop`, `cni`, `cd`, `ms`, `mx`,
`ka`, `sv`: the state of the components (those with a goroutine of their own,
the network providers, CoreDNS, metrics-server, metrics, konnectivity-agent,
the supervised processes); `file`: what was written. A configuration is reduced
to the settings the components tell apart.

**ClusterConfig — the configuration as a document.** Defaults, parsing,
validation and the stripping of defaults as operators on documents in which a
section may be missing; `LoadNodeConfig`, `CreateClusterConfig`,
`ReadClusterConfig` and `UpgradeController` take a document from the file to the
object, and a newer k0s from there.

**Applier — stacks of manifests.** `disk` and `cluster` are files and objects;
`session`, `events`, `removing` the loop of `Manager.runWatchers`; `pc`, `w` and
the variables of `job` the goroutine of every stack. An apply is a sequence of
steps: read the files, write object by object (a CRD before its instances), look
for objects that carry the name of the stack, delete one after the other. A
deleted object stays, terminating, until the API server has removed it.
`forgotten` records stacks whose leftovers the code does not look for again.

**Supervisor — one child process.** `st`, `pid`, `ours`, `term` are the kernel's
processes; `waiter` the goroutine in `cmd.Wait` of each; `pidFile` the file,
whose truncation and writing are two steps; `call`, `target`, `handle`,
`started` the caller of `Supervise` or `Stop`; `loop`, `cmd`, `first`,
`stopping`, `deferred` the supervising loop. `late` and `lost` are ghosts:
processes whose waiter the loop did not wait for, and running ones that the PID
file does not have.

### What makes a host a node

**PodRegistry and StaticPods.** `PodRegistry` is what the component promises,
without locks and goroutines: an ID has one claim at a time, a manifest is only
served for a claimed ID, and a closed registry serves nothing. `StaticPods` is
the code, one action per critical section: the pod is changed under its lock,
and the content is generated anew under another one later. `KeepsPromises` says
that the second implements the first, under the mapping
`Registry == INSTANCE PodRegistry WITH ...`: claims count until Stop swaps them
out, what is served is the generated content.

**NodeLocalLB** — the profile loader with its cache, the reconciler and its two
backends. The worker watches its profile through the load balancer that is
configured from it, so `PublishProfile`, `WatchProfile` and the liveness of API
servers are in one model; the static pod is used as PodRegistry promises. Files
that Stop cannot remove stay.

**Containerd** (with **Debounce**, shared by both watches) — drop-in
configuration and restarts, and image bundles: a pass over the files imports,
pins and unpins step by step while files change. A restart stops containerd
and may fail to start it again.

**NodeLifecycle** — `lcComponents` and `lcStarted` are the component managers of
a process (node, cluster, worker), `lcPhase` what the command is doing; any
component may fail to initialise, start or get ready, and the process may be
told to end at any time. A Stop that never returns (`hung`) is that of the control
plane load balancer. With the prober and the choice of the iptables mode.

**JoinCluster** — keys are told apart by who made them: `jcFiles` is what a
controller has in its pki directory, file by file, `jcGot` the answer of the join
API, `jcLeaf` the CA of its certificates. A crash may come between any two
files, and `NeedToJoin` decides at the next start.

### What controllers do for the cluster

**WorkerConfig** — three callers hand updates to a loop over a channel of
capacity one and wait, one of them for a minute at most; publishing takes two
steps, and the lease may pass on in between. **HelmExtensions** — the loop that turns the configuration into a Chart
resource, the leader task, the manager, and a reconciliation whose Helm command
and status update are separate steps. k0s may crash at any of them, and Helm
leaves what it had recorded by then (`CutShort`). **ControlPlaneLB** — health checkers that
send their notice with their lock held, the reader, the virtual addresses and
redirections; **TcpProxy** — connections byte by byte, with half-closes.
**ControlPlane** — the five layers of kube-apiserver's flags, konnectivity's
restarts, kine's health check. **ClusterUpkeep** — the duties that a leader has
on a timer, as rounds that read, decide and write with other controllers and the
world in between.

### Commands and tools

**HostOperations** — install, start, stop, reset, backup and restore of one host,
step by step, with mounts in a table that is worked through from its end; nothing
but the process lock keeps them apart. **AirgapBundle** —
which images a node needs, and bundling artifacts with concurrent copies and one
writer. **Watcher** — listing and watching one object over compactions, broken
and stuck connections.

## 3. The runs

| run | instance | shows |
|---|---|---|
| `signal_updates` | MCSignalNode, MCSignalUpdates.cfg | two consecutive updates of a controller that cordons itself: Completed means installed, a pending restart is not taken for a performed one, no restart into the old version, uncordoned at the end, every update ends |
| `signal_resent` | MCSignalNode, MCSignalResent.cfg | a worker that the leader cordons gets three signals, each as soon as the one before has ended, with requests left in the queues and caches that are behind: statuses move forward, only a cordoned node is disturbed |
| `plan` | MCPlan | an airgap and a k0s update: commands in order, one controller at a time, worker limit, workers last, completed means carried out, every plan ends and stays ended |
| `election` | MCLeaderElection, MCElection.cfg | callbacks one at a time and in order, tasks follow the lead, a closed pool is quiet, and closing ends |
| `config` | MCConfigPipeline, MCConfig.cfg | the last valid configuration reaches the components, success is real, user edits are kept |
| `applier` | MCApplier | pruning spares the manifests; in the end the cluster has what the files say |
| `supervisor` | MCSupervisor | only supervised processes are signalled, one at a time, the PID file is current, calls return, the process is kept running |
| `etcd` | MCEtcdMembership | only members that were asked to leave are removed; every leave ends; joiners catch up |
| `node` | MCNode | `StaticPods` implements `PodRegistry`; what a worker's components write agrees with what they do; keys belong together wherever a controller crashed; components stop in reverse; load balancer and containerd follow what changes; a process ends when told to and comes back after crashes |
| `control` | MCControl | flags fit, routes are those of healthy servers, the configuration survives its way to the object and an upgrade; no Helm release is left behind, charts settle, profiles and konnectivity catch up, the duties get done |
| `operations` | MCOperations | bundles are whole, reset spares mounted volumes, what was archived is restored, a bundle is complete, no change of a watched object is missed, the latest release gets planned, what was begun ends |
| `ipv6_object` | MCClusterConfig | *violation*, finding 1 |

`MCNode`, `MCControl` and `MCOperations` have several components each. These
share no state in the code, or meet only through an interface that is part of one
of the models, so that a behaviour runs one of them, chosen by the variable
`part`, and the others stay in an initial state: the runs explore the sum of the
state spaces and not their product. `MCPlan` likewise has two instances of
PlanScheduler: the rollout, which it extends, with two controllers and two
workers, leader changes and missing targets; and `Disturbed`, with one node of
each kind and every disturbance.

### Bounds

Every bound is a constant named in the module that has it.

* **SignalNode**: two versions and two signals, so that a second update meets
  the leftovers of the first; two faults let a crash meet another one or a
  leader change. In `signal_resent` there are three signals and one fault, and
  a new signal need not wait for queues and caches. Two time stamps suffice,
  since the code only compares them for equality.
* **PlanScheduler**: two nodes of each kind are the least with which "one at a
  time" and a limit below the number of workers mean something; two commands
  for their order.
* **LeaderElection**: two clients; two acquisitions let the lead move to the
  other client, or go away and come back; three calls start both pools and yield
  or stop one, or start one pool, stop it and start it again.
* **ConfigPipeline**: two edits and one failure or change of the surroundings.
  Components that share no state are explored apart (`MCEnabledSets`).
* **ClusterConfig**: the documents of `MCDocuments`, one for each interplay of
  sections, and one upgrade.
* **Applier**: two stacks, one with a CRD and an instance of it, or a newer
  version of the CRD alone; two edits and one failure. `MaxAttempts` is 2 where the code has 10.
* **Supervisor**: three processes but two PIDs, so that PIDs are recycled; one
  failing system call and one crash.
* **EtcdMembership**: two controllers, two boots each, so that one comes back
  under a new invocation ID; one leave and one trouble (failed call, crash,
  stop, wipe, removal by hand).
* **StaticPods**: two IDs, two callers and two claims, so that an ID is claimed
  again while an earlier pod is being dropped.
* **NodeLocalLB**: two servers, two changes (there and back), one failure, both
  backends. **Containerd**: two bundles that share images, three changes of
  files, so that a bundle is taken away and put back while another pass runs.
* **NodeLifecycle**: two launches and one mishap; a node of every kind
  (`MCSetups`), some of them with components disabled, such that each component
  is there in one of them. **JoinCluster**: one joining controller and one
  worker, one crash, etcd and kine; the worker, which does not see the storage,
  joins the cluster with etcd only.
* **ControlPlaneLB**: two addresses and two flaps, which fill the channel of
  notices. **ControlPlane**: counts from 0 to 2, two changes. **WorkerConfig**:
  two controllers, two configurations, of which only the first has a profile, and
  one change of the API servers, with one failure and one lost lead or with one
  stop.
* **HelmExtensions**: a chart of a known repository and one whose credentials
  are in a secret, two configurations (install and upgrade or removal), one
  crash, conflict, failure or lost lead. **ClusterUpkeep**: two controllers and one turn of
  the lead, two changes of the world (one for the CSRs).
* **AirgapSignal**: two requests, one with a hash, three signals in all, two
  faults. **AutoUpdates**: one host with a new config that is edited once, or two
  hosts, which race for the plan, with an old config; two releases, two updaters,
  one miss.
  **AutopilotRoot**: four turnovers of the lease; three attempts where the code
  has 120. **HostOperations**: four commands, which allow an install, a backup, a
  reset and a restore, three mount tables (none, pods over the kubelet's volume,
  one below the run directory) and one failure. **AirgapBundle**: seven descriptors with
  a nested index. **Watcher**: three changes and two breaks. **TcpProxy**: two
  connections and two backends, one reset.

`CHECK_DEADLOCK FALSE` is set where a bounded run ends by itself (a plan that
has ended, edits that are used up). SignalNode and Supervisor never stop.

### Fairness

No fairness is given to users, failures, crashes, the loss of leadership or
child processes that end by themselves. What has it:

* goroutines, timers and tickers (weak): the Go scheduler runs them. In `MCNode`,
  `MCControl` and `MCOperations` there is one condition per goroutine or loop
  (`NodeSpec`, `ControlSpec`, `OperationsSpec`), and where a component has
  failing calls, the bound on these makes the retry succeed in the end;
* informers and watches deliver (weak; strong in SignalNode, where a crash
  disables the delivery in between);
* a reconcile is retried by controller-runtime until it gets through (strong in
  SignalNode: it is disabled whenever the manager is down);
* k0s exits after the SIGTERM that it sends to itself, and the init system
  starts it again;
* in PlanScheduler every node ends its update (`EverySignalEnds` of SignalNode
  is the reason), and a ready node is signalled sooner or later;
* in LeaderElection callbacks and tasks return once cancelled; the lease need
  not be available. In WorkerConfig, HelmExtensions and ClusterUpkeep somebody
  takes a lease that nobody holds, and a controller that is not running does not
  keep it; this is what expiring leases are for;
* in AutoUpdates a plan goes on as long as its signals are answered (`PlansEnd` of
  PlanScheduler);
* in Applier the API server removes what it was told to delete;
* in AutopilotRoot the CRDs get established, the kubelet creates its lease, and
  probes time out;
* in Supervisor the caller of a deferred stop closes its channel (`etcd.Stop`
  does so with a time limit).

## 4. What the models leave out, and what does not hold

The components in `PROJECT.json` say what each model leaves out. In general:
real time, the contents of files and requests beyond what the properties tell
apart, wording and logging, Windows.

Some plausible properties do not hold of the code. TLC has found a
counterexample to each of the following; they stay in their modules as
definitions, and the properties that are checked leave these cases out. The
instances are those of the runs, except for `MovedObjectsExist` (stacks that may
have the same object), `LatestProbesShown` (two probes) and `StopCleansUp`
(`CpSpec`, with four flaps and no failure).

| definition | what happens |
|---|---|
| `CoreDNSFollows` (ConfigPipeline) | a tick that has read the old configuration writes its manifest after the new one and remembers the old one (`coredns.go:336`) |
| `RawArgsFollow` (ConfigPipeline) | an edit of the `rawArgs` alone is reported as reconciled and changes nothing: only the arguments are compared (`scheduler.go:93`) |
| `AddressesExist` (ClusterConfig) | a service network of /31 or /32 passes validation and has no address for DNS |
| `ReaddedObjectsStay` (Applier) | an object that is added again while it is still being deleted is taken for up to date, and disappears |
| `MovedObjectsExist` (Applier) | an object moved from one stack to another is deleted by the old one after the new one has taken it over (`stack.go:368`) |
| `ChartsSettleInEveryTerm` (HelmExtensions) | the manager of charts cannot be started a second time, so that a controller that leads again leaves the charts alone |
| `LatestReleaseIsInstalled` (AutoUpdates) | an updater patches the spec of a completed plan; its status stays, so that nothing is executed |
| `FailedPlansAreReplaced` (AutoUpdates) | no updater replaces a plan that has ended badly |
| `BegunPlansStay` (AutoUpdates) | between the look at the plan and the patch, the updater of another host has made a plan that has signalled: it is overwritten, its signals belong to no plan, and the new one waits for ever |
| `DeletionStopsUpdaters` (AutoUpdates) | an updater outlives the deletion of its config |
| `AirgapSurvivesRebuild` (AirgapSignal) | the manager goes away while a request is Downloading, and nobody takes it up again |
| `CompletedIsDurable` (AirgapSignal) | power is lost after the rename: the directory was not synced, and the earlier bundle is back under a Completed request |
| `WorkerRecovers` (AutopilotRoot) | an attempt registers controllers and fails; all later ones are refused, as the names are taken (`root_worker.go:65`) |
| `StopCleansUp` (ControlPlaneLB) | a checker sends with its lock held while the reader waits for that lock: both, and Stop, wait for ever |
| `BalancerRetries` (NodeLocalLB) | Envoy's first file is written, the second is not, and the addresses change back: nothing seems to be left to do |
| `StoppedCleanly` (NodeLocalLB) | Stop only logs the files that it cannot remove |
| `ContainerdStaysUp` (Containerd) | a restart whose Supervise fails is logged, and nobody tries again until the drop-ins change (`component.go:270`) |
| `BundlesArePinned` (Containerd) | a bundle is taken away and put back with its old modification time |
| `StopsContainerd` (Containerd) | a restart that found no process calls Supervise after the component was stopped |
| `LatestProbesShown` (NodeLifecycle) | with a maximum, the latest probe need not be among those shown |
| `ShutdownAlwaysEnds` (NodeLifecycle) | `Keepalived.Stop` waits without a time limit (`cplb_linux.go:196`), and so does what would be stopped after it |
| `JoinedHasClusterKeys` (JoinCluster) | with kine, a controller that crashes after the CA was written and before the service account key was does not join again, and makes a key of its own |
| `OnlyLeaderProbes` (ClusterUpkeep) | a missing `return` in `updateprober.go:83` |
| `CertifiedAsReported` (ClusterUpkeep) | the addresses of a node change between the look at them and the approval of its certificate |
| `ResetSparesAllVolumes` (HostOperations) | a volume mounted below the run directory is emptied: nothing is unmounted there |
| `ResetUninstalls` (HostOperations) | the failure to uninstall the controller's service is lost when the worker's is uninstalled, or taken for a missing service |
| `BackupIsUsable` (HostOperations) | errors of closing the archive are ignored |
| `ListSufficesForScraper` (AirgapBundle) | the image of the metrics scraper is not listed by default, although controllers may run it |

Other limits of what is claimed:

* **SignalNode**: when signals come depends on `SignalWhen`. A signal that
  replaces an unfinished one ("any") may leave the node cordoned, and after a
  third one requests that were queued for the earlier ones disturb a node that
  is not cordoned; a signal to a node with requests in its queues ("finished")
  may be completed by those of its predecessor. So `NodeTellsTheTruth` is claimed
  for idle nodes ("idle"), as the plan controllers use them, and
  `DisturbedOnlyWhenCordoned` and `RestartIntoNewVersion` for all but "any". An
  accepted write that is reported as failed (`LostReplies`) leaves a request for
  a status that is past; then only the statuses' order is claimed.
* **PlanScheduler**: a leader that stops between signalling a node and recording
  it leaves a successor that signals a second controller while the first one is
  being updated, unlike `docs/autopilot.md:84-85`; `RolloutDiscipline` is claimed
  with leaders that change between two reconciliations, nodes that cannot be
  written and missing targets (`Calm` of PlanSchedulerProofs). A second
  `k0supdate` command is completed by the signals of the first, so that it is
  claimed, like `CommandsAreCarriedOut`, of plans with one command of a kind
  (`OneOfAKind`). Which nodes a selector finds is a constant.
* **ConfigPipeline**: stopping is left out. `SuccessIsReal` excepts a process
  whose start has failed: equal arguments are taken for a running process from
  then on. It says nothing of `rawArgs`.
* **EtcdMembership**: a member that has crashed after it was added and before it
  had a database is refused when it tries again (`etcd.go:193`); `JoinersCatchUp`
  is about those that get in.
* **Applier**: an object is read and written in one step; nobody else edits
  objects; one controller runs. `LeftoversGetPruned` excepts directories that are
  removed while nobody watches and deletions that fail, since the code has no
  memory of them. `ManifestsGetDeployed` excepts objects that were applied last
  when they, or their CRD, were still being deleted (`Overtaken`).
* **AutoUpdates**: `LatestReleaseIsPlanned` excepts plans that have failed or have
  lost signals.
* **Supervisor**: Linux with pidfds. Calls that are refused ("already started",
  "not started") change nothing and are left out. `AtMostOne` and
  `PidFileIsCurrent` except the processes in `lost`: those whose PID was not yet
  written when k0s crashed or whose file could not be written, and those whose
  file the late waiter of an earlier process removed.
* **HelmExtensions**: `ChartsSettle` excepts what `Stuck` lists: an unknown
  repository, a release that an interrupted upgrade has left in
  `pending-upgrade`, a chart that is deleted before the name of its release was
  recorded, a chart that came back while its resource was being deleted.
* **AutopilotRoot**: a manager that has failed stays down until the lease changes,
  and a worker that has failed after it had registered controllers stays without.
* **NodeLifecycle**: `NodeComesAndGoes` excepts a process whose Stop hangs.
* **HostOperations**: reset looks at the process lock but does not hold it, so
  k0s may start during a reset; both properties of reset except this, and what the
  table says of the run directory and of services.
* **AirgapSignal**: what is said of Completed requests excepts those whose rename a
  loss of power has taken back.
* **Watcher**: a deletion that falls between a watch and the next listing is not
  reported; `NothingIsMissed` is about objects that are there.

## 5. The proofs

TLAPS checks the following for every value of the constants. The assumptions
are the named `ASSUME` of each module: types of the constants, and that the
model values are distinct. A hypothesis on constants beyond these is part of the
statement, and in brackets below.

| module | theorems | inductive invariant |
|---|---|---|
| SignalNodeProofs (SignalNode) | `TypeCorrect`, `StatusesMoveForward` | `Coherent`: a cache at the latest resource version holds the stored signal, and signals are numbered by the signals sent |
| | `CordonedWhenDisturbed`, `RestartsIntoNewVersion` [no signal replaces an unfinished one, no reply is lost] | `Careful`: a request of a reconciler that alone takes a signal out of a status is about the stored signal (`RequestsAreCurrent`), and what each status says of the files (`FilesFit`), the cordon (`CordonFits`) and a pending restart (`PendingFits`) |
| | `NodesTellTheTruth` [signals to idle nodes, no reply is lost] | `Truthful`, in addition: requests for a restart are not older than the signal, and only an update that is under way tells process and executable apart |
| PlanSchedulerProofs (PlanScheduler) | `PlanTypeCorrect`, `CommandsRunInOrder` | `Ordered`: the cache never runs ahead of the plan, and a status that would still be accepted undoes no completion |
| PlanRolloutProofs (MCPlan) | `RolloutIsDisciplined`, `CompletedIsCarriedOut` [`Calm`, `OneOfAKind`] | `RolloutInv`: there is one request, for the controller that the state of the plan is for (`Orderly`), the status says of the signals what they are (`Fits`) and keeps the limits (`Kept`), also the status that is about to be written |
| | `EndedPlansStay` [`Calm`] | `Orderly` |
| ComponentProofs (LeaderElection) | `OneCallbackAtATime`, `LeadEndsWithRound`, `StopIsComplete`, `ElectionIsDisciplined`, `CallbacksInOrder` | `RoundInv`: the shared flag tells which of the two goroutines came first, and the status is Leading exactly between their callbacks; `PoolInv`: a closed pool has waited |
| ComponentProofs (Applier) | `PruningIsSafe` | `Progress`: an object that was read leaves `todo` by being kept or by failing the apply, and a failed apply does not prune |
| ComponentProofs (HelmExtensions) | `ReleasesAreNotLeftBehind` | `Working` and `Uninstalled`: the resource is there while the reconciler works on it, and an uninstallation without an error has removed the release |
| ComponentProofs (StaticPods) | `PromisesAreKept`: StaticPods implements PodRegistry | `ClaimedContent`: until Stop, only claimed IDs have content. With it, every step under a lock maps to a step of the registry or to a stutter |
| SupervisorProofs (Supervisor) | `TypeCorrect`, `OthersAreUntouched`, `OneProcess`, `PidFileCurrent`, `TheProcessIsKnown` | `Known`: a running process is known to the loop, or in the PID file, or read from it, or opened; with `Unique` PIDs, `Waiters`, `Signalled` and the `Phases` of caller and loop |
| ControllerProofs (JoinCluster) | `KeysStayTogether` | `JoinInv`: which files exist in each phase of founding and of joining (`Founding`, `Joining`); the first controller's files come in pairs; what a joiner has with managed etcd are copies of the first one's (`Copies`); certificates are issued from what is there (`Leaves`) |
| ControllerProofs (ConfigPipeline) | `ConfigurationIsWrittenInOrder` | `PipeInv`: the versions on their way from the object through the watch, the source and the reconciler into the status are ordered (`Queued`, `Pending`), and what is to be written back is the object with its feature gates sanitized if it has its version (`Sanitizing`) |
| EtcdMembershipProofs (EtcdMembership) | `NobodyLeavesUnasked` | `EtcdInv`: what an object says of leaving was asked for, of this member ID and this invocation (`ObjectFits`), and that remains so of the objects that a pass of the leader has listed before (`PassFits`) |
| OperationsProofs (MCOperations) | `AutopilotCanBeReliedOn` (with the exceptions of section 4) | `AirgapInv`: versions in the cache and in the hands of the controllers are no newer than the object (`Dated`), and what is known of the files in each phase of a download (`Checked`); `ProbesFit`: the verdict so far |
| | `ResetsAreCareful` (with the exceptions of section 4) | `ResetInv`, of resets into which k0s is not started: the list of mounts that is worked through from its end is the beginning of the mount table, and what lies behind it is what has stayed mounted |

Why strengthening is needed: none of these properties is inductive. That
statuses move forward, for instance, says nothing of a cache; a write from a
cache that claims to be current and is not would go back. That at most one
process runs says nothing of where the PID of a running process is; a
supervisor that found no PID file would start a second one. That the keys of a
controller that is up belong together says nothing of one that has crashed
with half of its files, from which the next start goes on. That only those leave
who were asked to says nothing of the objects that the leader has listed and
acts upon later, when the controller may have come back as another member: it
holds because member IDs are never used twice and because a request names the
invocation. That one controller is updated at a time says nothing of a status
that lags behind the signals, from which the next node is chosen. That outcomes
are reported in order says nothing of the versions that are still queued.

The larger of these invariants (`Careful`, `Truthful`, `RolloutInv`, `EtcdInv`,
`PipeInv`, and `OperationsInv`, which has the three of OperationsProofs) were
also model-checked on the instances of the runs, and `JoinInv` with two joining
controllers and two crashes.

What the assumptions say beyond types: in `JoinAssumption` that the first
controller is none of those that join and that workers are not controllers; in
`PlanAssumption` that there are finitely many nodes, which the limit on workers
counts, and that no node is a controller and a worker; in `NumberedAssumption`
that controllers can be listed in an order; in `AirgapAssumption` and
`PipelineAssumption` that the values for "none" are none of the others; in
`HostAssumption` that mount tables are sequences.

The proof that a step preserves the invariant has one step per action; facts
about the writes shared by several actions are lemmas (`UpdateType`,
`WriteKeeps`, `LoopReturnsStep`, `UntouchedIsKept`).

Only model-checked:

* liveness, and with it everything that rests on ENABLED, which is out of reach
  of the prover;
* `SuccessIsReal` (ConfigPipeline), which rests on what `SelectSeq` makes of the
  list of components: that is induction over the list, which the provers do not
  have;
* `ControlPlaneIsCurrent` and `NothingIsLost`, which rest on what folds and
  recursive functions compute (the documents of ClusterConfig, the layers of
  flags of ControlPlane, the walk over an index of AirgapBundle);
* `WorkerFilesAgree` and `NodeKeepsOrder`, whose components (NodeLocalLB,
  Containerd, NodeLifecycle) have no proofs.

## 6. Findings

1. `ipv6_object`: `GetClusterWideConfig` clears the service network before the
   bootstrap configuration is stored as the ClusterConfig object. Read back, the
   field gets its IPv4 default (`network.go:75`), which does not go with an IPv6 pod network, so
   that the reconciler refuses the object made from a valid configuration, in
   the mode of dynamic configuration.

Section 4 has the other disagreements between the code and what is written
about it.

## 7. Not modelled

* **Autopilot's channels, removed API checks**: requests and tables, without
  state of their own.
* **The kubelet and the autopilot component of workers**: they render
  configuration and start a process or a manager; Supervisor and AutopilotRoot
  model what these do.
* **Command line and system probes**: flags are parsed, properties of the host
  are read and reported.
* **Generated clients and API types.**
* Inside modelled components: cryptography, HTTP, netlink, iptables, systemd,
  container runtimes, Helm, etcd's raft, client-go's elector and
  controller-runtime are external; the models have their outcomes, as the code
  distinguishes them.
