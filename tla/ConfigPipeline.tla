---------------------------- MODULE ConfigPipeline ----------------------------
(***************************************************************************)
(* The way of a cluster configuration through a controller: from the       *)
(* ClusterConfig object (or the configuration file), through the           *)
(* configuration source, the ClusterConfigReconciler and the Reconcile of  *)
(* every cluster component, into the manifests and the arguments of the    *)
(* processes that the controller runs.                                     *)
(*                                                                         *)
(* The reconciler calls the components one after the other, in one         *)
(* goroutine.  A component either does the work in that call (kube-router, *)
(* metrics, kube-scheduler, kube-controller-manager) or hands the          *)
(* configuration to a goroutine of its own, which also watches something   *)
(* else: the Windows nodes (kube-proxy, Calico), the number of nodes       *)
(* (CoreDNS, metrics-server) or the number of controllers                  *)
(* (konnectivity-agent).                                                   *)
(*                                                                         *)
(* A configuration is reduced to what the components tell apart.  "img"    *)
(* stands for every setting that is rendered into a manifest or into the   *)
(* arguments of a process, and for the patches that go with it; "raw" for  *)
(* the rawArgs of kube-scheduler and kube-controller-manager.              *)
(***************************************************************************)
EXTENDS Integers, Sequences, FiniteSets

CONSTANTS
    None,
    Contents,     \* what a user may configure
    InitialContents, \* what the controllers may be configured with at first
    Sources,      \* "api": dynamic configuration, "static": the file
    EnabledSets,  \* which components may be enabled together
    FaultSites,   \* the components whose writes, requests or starts may fail
    NodeCounts,   \* how many Linux nodes there may be
    MaxEdits,     \* bound: edits of the ClusterConfig
    MaxTrouble    \* bound: failures and changes of the surroundings

Providers == {"calico", "kuberouter", "custom"}

Content == [img: Nat, raw: Nat, provider: Providers, proxy: BOOLEAN, sane: BOOLEAN, valid: BOOLEAN]

\* In the order in which cmd/controller adds them.
Order == <<"kube-proxy", "coredns", "calico", "kuberouter", "metrics-server", "metrics",
           "konnectivity-agent", "kube-scheduler", "kube-controller-manager">>

Components == {Order[i] : i \in 1..Len(Order)}

Loops == {"kube-proxy", "calico"}                           \* driven by value.Latest
Supervised == {"kube-scheduler", "kube-controller-manager"} \* run as processes
Callers == {"manager", "ticker"}                            \* of CoreDNS.Reconcile

ASSUME PipelineAssumption ==
    /\ Contents \subseteq Content
    /\ InitialContents \subseteq Contents
    /\ None \notin Content /\ None \notin [rv: Nat, content: Content]
    /\ Sources \subseteq {"api", "static"}
    /\ \A s \in EnabledSets : s \subseteq Components \cup {"windows-node"}
    /\ FaultSites \subseteq Components \cup {"initializer"}
    /\ NodeCounts \subseteq Nat
    /\ MaxEdits \in Nat /\ MaxTrouble \in Nat

VARIABLES
    enabled, source,
    api,      \* the ClusterConfig: None, or its resource version and content
    watch,    \* what the watch has not delivered yet
    leading,  \* this controller leads
    init,     \* where the ClusterConfigInitializer is
    src,      \* the configuration source
    rc,       \* the reconciler: the configuration it works on, and where it is
    last,     \* the last configuration that was handed to the components
    status,   \* the last reported outcome
    nodes,    \* the nodes of the cluster
    winCount, \* whether there are Windows nodes, as counted last
    servers,  \* the number of controllers, as counted last
    loop, cni, cd, ms, mx, ka, sv, \* the components
    file,     \* the manifests
    used      \* how much of the bounds is used up

env == <<enabled, source, nodes, winCount, servers>>
pipe == <<api, watch, leading, init, src, rc, last, status>>
comps == <<loop, cni, cd, ms, mx, ka, sv, file>>
vars == <<env, pipe, comps, used>>

Use(what) == used' = [used EXCEPT ![what] = @ + 1]

\* Components that do not come back to a failure of their own accord.
Unretried == {"calico", "coredns"} \cup Supervised

\* Something fails in component site.
Fail(site) ==
    /\ site \in FaultSites
    /\ used.trouble < MaxTrouble
    /\ used' = [used EXCEPT !.trouble = @ + 1, !.gaveUp = @ \cup ({site} \cap Unretried)]

-----------------------------------------------------------------------------
(* The surroundings: the API server, the other controllers and the nodes *)

Store(content) ==
    LET object == [rv |-> IF api = None THEN 1 ELSE api.rv + 1, content |-> content]
    IN  /\ api' = object
        /\ watch' = IF init = "done" THEN Append(watch, object) ELSE watch

Edit(content) ==
    /\ source = "api"
    /\ api # None
    /\ content # api.content
    /\ used.edits < MaxEdits
    /\ Use("edits")
    /\ Store(content)
    /\ UNCHANGED <<env, leading, init, src, rc, last, status, comps>>

\* The initializer of another controller creates the object.
OtherCreates(content) ==
    /\ source = "api"
    /\ api = None
    /\ Store(content)
    /\ UNCHANGED <<env, leading, init, src, rc, last, status, comps, used>>

\* The watch ends, and the next one starts with the object as it is.
WatchRestart ==
    /\ source = "api"
    /\ init = "done"
    /\ used.trouble < MaxTrouble
    /\ Use("trouble")
    /\ watch' = <<api>>
    /\ UNCHANGED <<env, api, leading, init, src, rc, last, status, comps>>

\* RunLeaderTasks starts the leader task of the source anew.
LeadChanges ==
    /\ source = "api"
    /\ used.trouble < MaxTrouble
    /\ Use("trouble")
    /\ leading' = ~leading
    /\ src' = [src EXCEPT !.tried = 0]
    /\ UNCHANGED <<env, api, watch, init, rc, last, status, comps>>

\* Nodes come and go; that is left out where no component looks.
LinuxCounts ==
    IF enabled \cap {"coredns", "metrics-server"} # {} THEN NodeCounts
    ELSE {CHOOSE n \in NodeCounts : TRUE}

WindowsCounts == IF "windows-node" \in enabled THEN BOOLEAN ELSE {FALSE}

NodesChange ==
    /\ used.trouble < MaxTrouble
    /\ Use("trouble")
    /\ \E n \in LinuxCounts, w \in WindowsCounts : nodes' = [linux |-> n, win |-> w]
    /\ nodes' # nodes
    /\ UNCHANGED <<enabled, source, winCount, servers, pipe, comps>>

\* The lease counter has counted the controllers.
ServersChange ==
    /\ "konnectivity-agent" \in enabled
    /\ used.trouble < MaxTrouble
    /\ Use("trouble")
    /\ \E n \in 0..2 : n # servers /\ servers' = n
    /\ UNCHANGED <<enabled, source, nodes, winCount, pipe, comps>>

\* WindowsStackComponent: list the Windows nodes once a minute.
CountWindows ==
    /\ init = "done"
    /\ "windows-node" \in enabled
    /\ winCount # nodes.win
    /\ winCount' = nodes.win
    /\ UNCHANGED <<enabled, source, nodes, servers, pipe, comps, used>>

-----------------------------------------------------------------------------
(* The ClusterConfigInitializer, which the other components wait for *)

InitDone ==
    /\ init' = "done"
    /\ watch' = <<api'>>

InitCheck ==
    /\ init = "check"
    /\ IF leading
       THEN init' = "lead" /\ UNCHANGED <<api, watch>>
       ELSE api # None /\ UNCHANGED api /\ InitDone
    /\ UNCHANGED <<env, leading, src, rc, last, status, comps, used>>

\* Apply the CRD and create the object; an existing one is just fine.
InitLead ==
    /\ init = "lead"
    /\ \/ /\ IF api = None
             THEN \E content \in InitialContents : api' = [rv |-> 1, content |-> content]
             ELSE UNCHANGED api
          /\ InitDone
          /\ UNCHANGED used
       \/ /\ Fail("initializer")
          /\ init' = "check"
          /\ UNCHANGED <<api, watch>>
    /\ UNCHANGED <<env, leading, src, rc, last, status, comps>>

-----------------------------------------------------------------------------
(* The configuration source *)

\* The configuration file is sent once, as it is.
StaticSource(content) == [rv |-> 1, content |-> content]

Sanitized(object) == [object EXCEPT !.content.sane = TRUE]

SourceObserve ==
    /\ init = "done"
    /\ src.pending = None
    /\ watch # <<>>
    /\ watch' = Tail(watch)
    /\ LET object == Head(watch)
       IN  src' = IF object.rv = src.observed THEN src
                  ELSE [src EXCEPT
                          !.observed = object.rv,
                          !.sanitized = IF object.content.sane THEN None ELSE Sanitized(object),
                          !.pending = Sanitized(object)]
    /\ UNCHANGED <<env, api, leading, init, rc, last, status, comps, used>>

\* Wrong on purpose: the resource version is not checked.
WriteSanitizedForced ==
    /\ leading
    /\ src.sanitized # None
    /\ src.tried # src.sanitized.rv
    /\ src' = [src EXCEPT !.tried = src.sanitized.rv]
    /\ Store(src.sanitized.content)
    /\ UNCHANGED <<env, leading, init, rc, last, status, comps, used>>

\* The leader writes the sanitized configuration back.  After a conflict it
\* waits for the next version.
WriteSanitized ==
    /\ leading
    /\ src.sanitized # None
    /\ src.tried # src.sanitized.rv
    /\ src' = [src EXCEPT !.tried = src.sanitized.rv]
    /\ IF api.rv = src.sanitized.rv
       THEN Store(src.sanitized.content)
       ELSE UNCHANGED <<api, watch>>
    /\ UNCHANGED <<env, leading, init, rc, last, status, comps, used>>

-----------------------------------------------------------------------------
(* The reconciler, which calls the enabled components in their order *)

Plan == SelectSeq(Order, LAMBDA c : c \in enabled)

\* The source hands a configuration over.  An invalid one goes no further.
Receive ==
    /\ src.pending # None
    /\ rc.cfg = None
    /\ src' = [src EXCEPT !.pending = None]
    /\ IF src.pending.content.valid
       THEN /\ rc' = [cfg |-> src.pending, pos |-> 1, failed |-> FALSE]
            /\ UNCHANGED status
       ELSE /\ status' = [rv |-> src.pending.rv, ok |-> FALSE]
            /\ UNCHANGED rc
    /\ UNCHANGED <<env, api, watch, leading, init, last, comps, used>>

\* Manager.Reconcile has come to component c.
At(c) ==
    /\ rc.cfg # None
    /\ rc.pos <= Len(Plan)
    /\ Plan[rc.pos] = c

\* Wrong on purpose: only the result of the last component counts.
ReturnLast(err) == rc' = [rc EXCEPT !.pos = @ + 1, !.failed = err]

\* The Reconcile of the component returns, with or without an error.
Return(err) == rc' = [rc EXCEPT !.pos = @ + 1, !.failed = @ \/ err]

Report ==
    /\ rc.cfg # None
    /\ rc.pos > Len(Plan)
    /\ last' = rc.cfg
    /\ status' = [rv |-> rc.cfg.rv, ok |-> ~rc.failed]
    /\ rc' = [rc EXCEPT !.cfg = None]
    /\ UNCHANGED <<env, api, watch, leading, init, src, comps, used>>

Img == rc.cfg.content.img

\* What the reconciler and its calls leave alone.
Rest == UNCHANGED <<env, api, watch, leading, init, src, last, status>>

-----------------------------------------------------------------------------
(* kube-proxy and Calico: goroutines that wait for a change *)

HasWin == IF "windows-node" \in enabled THEN winCount ELSE FALSE

ProxyConfig(content) ==
    IF content.proxy THEN [on |-> TRUE, img |-> content.img] ELSE [on |-> FALSE, img |-> 0]

ReconcileKubeProxy ==
    /\ At("kube-proxy")
    /\ loop' = [loop EXCEPT !["kube-proxy"].latest = ProxyConfig(rc.cfg.content)]
    /\ Return(FALSE)
    /\ Rest /\ UNCHANGED <<cni, cd, ms, mx, ka, sv, file, used>>

ExistingCNI ==
    IF file["calico"] # None THEN "calico"
    ELSE IF file["kuberouter"] # None THEN "kuberouter" ELSE "none"

CalicoConfig(content) == [img |-> content.img]

\* The CRDs are written once in the life of the process, whatever comes of it.
DumpCRDs ==
    /\ cni' = [cni EXCEPT !.crdOnce = TRUE]
    /\ \/ /\ file' = IF cni.crdOnce THEN file ELSE [file EXCEPT !["calico_init"] = Img]
          /\ UNCHANGED used
       \/ /\ ~cni.crdOnce /\ Fail("calico")
          /\ UNCHANGED file

ReconcileCalico ==
    /\ At("calico")
    /\ IF rc.cfg.content.provider # "calico" \/ ExistingCNI = "kuberouter"
       THEN /\ Return(rc.cfg.content.provider = "calico")
            /\ UNCHANGED <<loop, cni, file, used>>
       ELSE /\ Return(FALSE)
            /\ loop' = [loop EXCEPT !["calico"].latest = CalicoConfig(rc.cfg.content)]
            /\ DumpCRDs
    /\ Rest /\ UNCHANGED <<cd, ms, mx, ka, sv>>

\* waitForUpdates: something has changed, or the retry timer fires.
Wake(c) ==
    /\ init = "done" /\ c \in enabled
    /\ ~loop[c].dirty
    /\ \/ /\ loop[c].latest # loop[c].seen
          /\ loop' = [loop EXCEPT ![c].seen = loop[c].latest, ![c].dirty = TRUE]
       \/ /\ HasWin # loop[c].win
          /\ loop' = [loop EXCEPT ![c].win = HasWin, ![c].dirty = TRUE]
       \/ /\ loop[c].retry
          /\ loop' = [loop EXCEPT ![c].retry = FALSE, ![c].dirty = TRUE]
    /\ UNCHANGED <<env, pipe, cni, cd, ms, mx, ka, sv, file, used>>

Processed(c, retry) == loop' = [loop EXCEPT ![c].dirty = FALSE, ![c].retry = retry]

ProxyManifest(l) == IF l.seen.on THEN [img |-> l.seen.img, win |-> l.win] ELSE None

\* Not everything is known that the manifests are made of.
ProxyWaits(l) == IF l.seen = None THEN TRUE ELSE l.seen.on /\ l.win = None

ProcessKubeProxy ==
    LET l == loop["kube-proxy"]
    IN  /\ l.dirty
        /\ IF ProxyWaits(l)
           THEN Processed("kube-proxy", l.retry) /\ UNCHANGED <<file, used>>
           ELSE \/ /\ file' = [file EXCEPT !["kube-proxy"] = ProxyManifest(l)]
                   /\ Processed("kube-proxy", FALSE)
                   /\ UNCHANGED used
                \/ /\ Fail("kube-proxy")
                   /\ Processed("kube-proxy", TRUE)
                   /\ UNCHANGED file
        /\ UNCHANGED <<env, pipe, cni, cd, ms, mx, ka, sv>>

\* An error of making the directory is retried; an error of writing a manifest
\* is only logged.
ProcessCalico ==
    LET l == loop["calico"]
    IN  /\ l.dirty
        /\ IF l.seen = None \/ l.win = None
           THEN Processed("calico", l.retry) /\ UNCHANGED <<file, used>>
           ELSE \/ /\ file' = [file EXCEPT !["calico"] = [img |-> l.seen.img, win |-> l.win]]
                   /\ Processed("calico", FALSE)
                   /\ UNCHANGED used
                \/ /\ Fail("calico")
                   /\ \E retry \in BOOLEAN : Processed("calico", retry)
                   /\ UNCHANGED file
        /\ UNCHANGED <<env, pipe, cni, cd, ms, mx, ka, sv>>

-----------------------------------------------------------------------------
(* Components that do all the work when they are called *)

ReconcileKubeRouter ==
    /\ At("kuberouter")
    /\ LET mine == rc.cfg.content.provider = "kuberouter"
       IN  IF ~mine \/ ExistingCNI = "calico" \/ cni.routerPrev = Img
           THEN /\ Return(mine /\ ExistingCNI = "calico")
                /\ UNCHANGED <<cni, file, used>>
           ELSE \/ /\ file' = [file EXCEPT !["kuberouter"] = [img |-> Img]]
                   /\ cni' = [cni EXCEPT !.routerPrev = Img]
                   /\ Return(FALSE)
                   /\ UNCHANGED used
                \/ /\ Fail("kuberouter")
                   /\ Return(TRUE)
                   /\ UNCHANGED <<cni, file>>
    /\ Rest /\ UNCHANGED <<loop, cd, ms, mx, ka, sv>>

\* The push gateway of the metrics component.
ReconcileMetrics ==
    /\ At("metrics")
    /\ IF mx = Img
       THEN Return(FALSE) /\ UNCHANGED <<mx, file, used>>
       ELSE \/ /\ file' = [file EXCEPT !["metrics"] = [img |-> Img]]
               /\ mx' = Img
               /\ Return(FALSE)
               /\ UNCHANGED used
            \/ /\ Fail("metrics")
               /\ Return(TRUE)
               /\ UNCHANGED <<mx, file>>
    /\ Rest /\ UNCHANGED <<loop, cni, cd, ms, ka, sv>>

\* The arguments of kube-scheduler or kube-controller-manager that are compared,
\* and those that the process is started with.
Args(content) == content.img
AllArgs(content) == [args |-> Args(content), raw |-> content.raw]

\* The process is stopped and started anew when its arguments have changed.
ReconcileSupervised(c) ==
    /\ At(c)
    /\ LET new == Args(rc.cfg.content)
       IN  IF sv[c].sup /\ sv[c].prev = new
           THEN Return(FALSE) /\ UNCHANGED <<sv, used>>
           ELSE \/ /\ sv' = [sv EXCEPT ![c] = [sup |-> TRUE, prev |-> new,
                                               running |-> AllArgs(rc.cfg.content)]]
                   /\ Return(FALSE)
                   /\ UNCHANGED used
                \/ /\ Fail(c)
                   /\ sv' = [sv EXCEPT ![c] = [sup |-> TRUE, prev |-> new, running |-> None]]
                   /\ Return(TRUE)
    /\ Rest /\ UNCHANGED <<loop, cni, cd, ms, mx, ka, file>>

-----------------------------------------------------------------------------
(* CoreDNS.Reconcile, called by the reconciler and by a ticker, which do not *)
(* synchronise: it lists the nodes, writes the manifest, and records that.   *)

replicaCount(n) == IF n <= 1 THEN 1 ELSE 1 + ((n + 9) \div 10)

RenderDNS(call) == [img |-> call.cfg.content.img, replicas |-> replicaCount(call.n)]

\* The call returns.
DNSReturn(who, err) ==
    IF who = "manager" THEN Return(err) ELSE UNCHANGED rc

DNSRest == Rest /\ UNCHANGED <<loop, cni, ms, mx, ka, sv>>

DNSList(who) ==
    /\ cd.call[who] = None
    /\ IF who = "manager" THEN At("coredns")
       ELSE "coredns" \in enabled /\ cd.known # None
    /\ \/ /\ cd' = [cd EXCEPT !.call[who] =
                      [cfg |-> IF who = "manager" THEN rc.cfg ELSE cd.known,
                       n |-> nodes.linux, wrote |-> FALSE]]
          /\ UNCHANGED <<rc, used>>
       \/ /\ Fail("coredns")
          /\ DNSReturn(who, TRUE)
          /\ UNCHANGED cd
    /\ DNSRest /\ UNCHANGED file

DNSWrite(who) ==
    /\ cd.call[who] # None /\ ~cd.call[who].wrote
    /\ IF cd.prev = RenderDNS(cd.call[who])
       THEN /\ cd' = [cd EXCEPT !.call[who] = None]
            /\ DNSReturn(who, FALSE)
            /\ UNCHANGED <<file, used>>
       ELSE \/ /\ file' = [file EXCEPT !["coredns"] = RenderDNS(cd.call[who])]
               /\ cd' = [cd EXCEPT !.call[who].wrote = TRUE]
               /\ UNCHANGED <<rc, used>>
            \/ /\ Fail("coredns")
               /\ cd' = [cd EXCEPT !.call[who] = None]
               /\ DNSReturn(who, TRUE)
               /\ UNCHANGED file
    /\ DNSRest

DNSRecord(who) ==
    /\ cd.call[who] # None /\ cd.call[who].wrote
    /\ cd' = [cd EXCEPT !.call[who] = None,
                        !.prev = RenderDNS(cd.call[who]),
                        !.known = cd.call[who].cfg]
    /\ DNSReturn(who, FALSE)
    /\ DNSRest /\ UNCHANGED <<file, used>>

-----------------------------------------------------------------------------
(* metrics-server: the configuration is kept for a ticker, which reads it   *)
(* twice, for the image and for the patches.                                *)

Scale(n) == IF n <= 10 THEN 1 ELSE (n + 9) \div 10

ReconcileMetricServer ==
    /\ At("metrics-server")
    /\ ms' = [ms EXCEPT !.cfg = rc.cfg]
    /\ Return(FALSE)
    /\ Rest /\ UNCHANGED <<loop, cni, cd, mx, ka, sv, file, used>>

MetricServerTick ==
    /\ ms.cfg # None
    /\ ms.tick = None
    /\ ms' = [ms EXCEPT !.tick = [img |-> ms.cfg.content.img,
                                  scale |-> Scale(nodes.linux + IF nodes.win THEN 1 ELSE 0)]]
    /\ UNCHANGED <<env, pipe, loop, cni, cd, mx, ka, sv, file, used>>

MetricServerWrite ==
    /\ ms.tick # None
    /\ LET new == [img |-> ms.tick.img, patches |-> ms.cfg.content.img, scale |-> ms.tick.scale]
       IN  \/ /\ file' = IF new = ms.prev THEN file ELSE [file EXCEPT !["metrics-server"] = new]
              /\ ms' = [ms EXCEPT !.prev = new, !.tick = None]
              /\ UNCHANGED used
           \/ /\ new # ms.prev
              /\ Fail("metrics-server")
              /\ ms' = [ms EXCEPT !.tick = None]
              /\ UNCHANGED file
    /\ UNCHANGED <<env, pipe, loop, cni, cd, mx, ka, sv>>

-----------------------------------------------------------------------------
(* konnectivity-agent: a goroutine behind a channel that holds one value *)

\* The send blocks while the channel is full.
ReconcileAgent ==
    /\ At("konnectivity-agent")
    /\ ka.chan = None
    /\ ka' = [ka EXCEPT !.chan = rc.cfg]
    /\ Return(FALSE)
    /\ Rest /\ UNCHANGED <<loop, cni, cd, ms, mx, sv, file, used>>

AtLeastOne(n) == IF n = 0 THEN 1 ELSE n

\* The lease counter sets the number of controllers every ten seconds, changed or
\* not; a number that makes no difference is skipped.
AgentWake ==
    /\ init = "done" /\ "konnectivity-agent" \in enabled
    /\ ~ka.dirty
    /\ \/ /\ ka.chan # None
          /\ ka' = [ka EXCEPT !.cfg = ka.chan, !.chan = None, !.dirty = TRUE]
       \/ /\ AtLeastOne(servers) # ka.count
          /\ ka' = [ka EXCEPT !.count = AtLeastOne(servers), !.dirty = TRUE]
       \/ /\ ka.retry
          /\ ka' = [ka EXCEPT !.dirty = TRUE]
    /\ UNCHANGED <<env, pipe, loop, cni, cd, ms, mx, sv, file, used>>

\* Wrong on purpose: the failed write is not tried again.
AgentWriteOnce ==
    /\ ka.dirty
    /\ \/ /\ ka.cfg = None
          /\ ka' = [ka EXCEPT !.dirty = FALSE, !.retry = FALSE]
          /\ UNCHANGED <<file, used>>
       \/ /\ ka.cfg # None
          /\ LET new == [img |-> ka.cfg.content.img, servers |-> ka.count]
             IN  \/ /\ file' = [file EXCEPT !["konnectivity-agent"] = new]
                    /\ ka' = [ka EXCEPT !.dirty = FALSE, !.retry = FALSE, !.prev = new]
                    /\ UNCHANGED used
                 \/ /\ Fail("konnectivity-agent")
                    /\ ka' = [ka EXCEPT !.dirty = FALSE, !.retry = FALSE]
                    /\ UNCHANGED file
    /\ UNCHANGED <<env, pipe, loop, cni, cd, ms, mx, sv>>

AgentWrite ==
    /\ ka.dirty
    /\ \/ /\ ka.cfg = None
          /\ ka' = [ka EXCEPT !.dirty = FALSE, !.retry = FALSE]
          /\ UNCHANGED <<file, used>>
       \/ /\ ka.cfg # None
          /\ LET new == [img |-> ka.cfg.content.img, servers |-> ka.count]
             IN  \/ /\ file' = IF new = ka.prev THEN file
                               ELSE [file EXCEPT !["konnectivity-agent"] = new]
                    /\ ka' = [ka EXCEPT !.dirty = FALSE, !.retry = FALSE, !.prev = new]
                    /\ UNCHANGED used
                 \/ /\ Fail("konnectivity-agent")
                    /\ ka' = [ka EXCEPT !.dirty = FALSE, !.retry = TRUE]
                    /\ UNCHANGED file
    /\ UNCHANGED <<env, pipe, loop, cni, cd, ms, mx, sv>>

-----------------------------------------------------------------------------
Files == (Components \ Supervised) \cup {"calico_init"}

Init ==
    /\ enabled \in EnabledSets
    /\ source \in Sources
    /\ api = None /\ watch = <<>> /\ leading \in (IF source = "api" THEN BOOLEAN ELSE {FALSE})
    /\ init = IF source = "api" THEN "check" ELSE "done"
    /\ \E content \in {c \in InitialContents : c.valid /\ c.sane} :
         src = [observed |-> 0, tried |-> 0, sanitized |-> None,
                pending |-> IF source = "api" THEN None ELSE StaticSource(content)]
    /\ rc = [cfg |-> None, pos |-> 1, failed |-> FALSE]
    /\ last = None /\ status = None
    /\ \E n \in LinuxCounts : nodes = [linux |-> n, win |-> FALSE]
    /\ winCount = None
    /\ servers \in (IF "konnectivity-agent" \in enabled THEN {0, 1} ELSE {1})
    /\ loop = [c \in Loops |-> [latest |-> None, seen |-> None, win |-> HasWin,
                                dirty |-> FALSE, retry |-> FALSE]]
    /\ cni = [routerPrev |-> None, crdOnce |-> FALSE]
    /\ cd = [prev |-> None, known |-> None, call |-> [who \in Callers |-> None]]
    /\ ms = [cfg |-> None, prev |-> None, tick |-> None]
    /\ mx = None
    /\ ka = [chan |-> None, cfg |-> None, count |-> servers, dirty |-> FALSE, retry |-> FALSE, prev |-> None]
    /\ sv = [c \in Supervised |-> [sup |-> FALSE, prev |-> None, running |-> None]]
    /\ file = [f \in Files |-> None]
    /\ used = [edits |-> 0, trouble |-> 0, gaveUp |-> {}]

Environment ==
    \/ \E content \in Contents : Edit(content)
    \/ \E content \in InitialContents : OtherCreates(content)
    \/ WatchRestart \/ LeadChanges \/ NodesChange \/ ServersChange

Initialize == InitCheck \/ InitLead

Reconcile ==
    \/ Receive \/ Report
    \/ ReconcileKubeProxy \/ ReconcileCalico \/ ReconcileKubeRouter \/ ReconcileMetrics
    \/ ReconcileMetricServer \/ ReconcileAgent
    \/ \E c \in Supervised : ReconcileSupervised(c)
    \/ DNSList("manager") \/ DNSWrite("manager") \/ DNSRecord("manager")

KubeProxy == Wake("kube-proxy") \/ ProcessKubeProxy
Calico == Wake("calico") \/ ProcessCalico
CoreDNSTicker == DNSList("ticker") \/ DNSWrite("ticker") \/ DNSRecord("ticker")
MetricServer == MetricServerTick \/ MetricServerWrite
Agent == AgentWake \/ AgentWrite

Next ==
    \/ Environment
    \/ CountWindows
    \/ Initialize \/ SourceObserve \/ WriteSanitized
    \/ Reconcile
    \/ KubeProxy \/ Calico \/ CoreDNSTicker \/ MetricServer \/ Agent

Spec == Init /\ [][Next]_vars

\* The goroutines of the controller run; tickers tick, timers fire, and a watch
\* delivers what it has.  Nothing is assumed of the surroundings.
FairSpec ==
    /\ Spec
    /\ WF_vars(CountWindows) /\ WF_vars(Initialize)
    /\ WF_vars(SourceObserve) /\ WF_vars(WriteSanitized)
    /\ WF_vars(Reconcile)
    /\ WF_vars(KubeProxy) /\ WF_vars(Calico)
    /\ WF_vars(CoreDNSTicker) /\ WF_vars(MetricServer) /\ WF_vars(Agent)

-----------------------------------------------------------------------------
(* Properties *)

Object == [rv: 1..(MaxEdits * 2 + 2), content: Contents \cup {[c EXCEPT !.sane = TRUE] : c \in Contents}]
Clean == {o \in Object : o.content.sane}
Imgs == {c.img : c \in Contents}
Calls == [cfg: Clean, n: NodeCounts, wrote: BOOLEAN]

\* Every variable has its type; in particular no component is ever given feature
\* gates for components that Kubernetes does not have.
TypeOK ==
    /\ enabled \in EnabledSets /\ source \in Sources
    /\ api \in Object \cup {None} /\ watch \in Seq(Object)
    /\ leading \in BOOLEAN /\ init \in {"check", "lead", "done"}
    /\ src \in [observed: Nat, tried: Nat, sanitized: Clean \cup {None}, pending: Clean \cup {None}]
    /\ rc \in [cfg: Clean \cup {None}, pos: 1..(Len(Order) + 1), failed: BOOLEAN]
    /\ last \in Clean \cup {None}
    /\ status \in [rv: Nat, ok: BOOLEAN] \cup {None}
    /\ nodes \in [linux: NodeCounts, win: BOOLEAN]
    /\ winCount \in BOOLEAN \cup {None} /\ servers \in 0..2
    /\ loop \in [Loops -> [latest: [on: BOOLEAN, img: Imgs \cup {0}] \cup [img: Imgs] \cup {None},
                           seen: [on: BOOLEAN, img: Imgs \cup {0}] \cup [img: Imgs] \cup {None},
                           win: BOOLEAN \cup {None}, dirty: BOOLEAN, retry: BOOLEAN]]
    /\ cni \in [routerPrev: Imgs \cup {None}, crdOnce: BOOLEAN]
    /\ cd.known \in Clean \cup {None} /\ cd.call \in [Callers -> Calls \cup {None}]
    /\ ms.cfg \in Clean \cup {None}
    /\ mx \in Imgs \cup {None}
    /\ ka.chan \in Clean \cup {None} /\ ka.cfg \in Clean \cup {None} /\ ka.count \in 0..2
    /\ \A c \in Supervised : sv[c].sup \in BOOLEAN /\ sv[c].prev \in Imgs \cup {None}
    /\ DOMAIN file = Files

\* The source and the initializer never undo what a user has configured: once the
\* ClusterConfig exists, whatever they write to it only touches the feature gates,
\* also when the user edits it at the same time.
UserEditsKept ==
    [][(api # None /\ used'.edits = used.edits)
         => [api'.content EXCEPT !.sane = api.content.sane] = api.content]_vars

\* The reconciler reports the versions of the ClusterConfig in their order, and
\* none of them twice, also when the watch starts over.
ReportedInOrder ==
    [][status' # status => status = None \/ status'.rv > status.rv]_vars

\* The process of c has been started with the arguments that content gives it, the
\* rawArgs aside: Reconcile compares the other arguments only, so that an edit of
\* nothing but the rawArgs is left for the next change (see RawArgsFollow).
RunsWith(c, content) == sv[c].running # None /\ sv[c].running.args = Args(content)

\* A configuration that is reported as reconciled has arrived: the components that
\* work within the call have written it, and kube-scheduler and
\* kube-controller-manager run with the arguments it gives them, apart from their
\* rawArgs.  A process that could not be started is excepted: equal arguments are
\* taken for a running process from then on.
SuccessIsReal ==
    /\ TypeOK
    /\ (rc.cfg = None /\ status # None /\ status.ok) =>
           LET content == last.content
           IN  /\ status.rv = last.rv
               /\ \A c \in (Supervised \cap enabled) \ used.gaveUp : RunsWith(c, content)
               /\ "metrics" \in enabled => file["metrics"] = [img |-> content.img]
               /\ "kuberouter" \in enabled /\ content.provider = "kuberouter"
                    => file["kuberouter"] = [img |-> content.img]
               /\ "calico" \in enabled /\ content.provider = "calico"
                    => loop["calico"].latest = [img |-> content.img]

\* Of kube-scheduler and kube-controller-manager, too, a configuration that is
\* reported as reconciled is what they run with, rawArgs included.  It is not:
\* an edit of the rawArgs alone is reported as reconciled and has no effect.
RawArgsFollow ==
    (rc.cfg = None /\ status # None /\ status.ok) =>
        \A c \in (Supervised \cap enabled) \ used.gaveUp :
            RunsWith(c, last.content) /\ sv[c].running.raw = last.content.raw

\* What component c has to show for configuration content.  A provider that
\* would replace another one is refused, and rawArgs are not compared.
Shows(c, content) ==
    CASE c = "kube-proxy" ->
           file[c] = IF content.proxy THEN [img |-> content.img, win |-> HasWin] ELSE None
      [] c = "calico" ->
           content.provider = "calico" /\ file["kuberouter"] = None
             => file[c] = [img |-> content.img, win |-> HasWin]
      [] c = "kuberouter" ->
           content.provider = "kuberouter" /\ file["calico"] = None
             => file[c] = [img |-> content.img]
      [] c = "coredns" ->
           file[c] = [img |-> content.img, replicas |-> replicaCount(nodes.linux)]
      [] c = "metrics-server" ->
           file[c] = [img |-> content.img, patches |-> content.img,
                      scale |-> Scale(nodes.linux + IF nodes.win THEN 1 ELSE 0)]
      [] c = "metrics" -> file[c] = [img |-> content.img]
      [] c = "konnectivity-agent" ->
           file[c] = [img |-> content.img, servers |-> AtLeastOne(servers)]
      [] OTHER -> RunsWith(c, content)

\* CoreDNS is left to CoreDNSFollows when the configuration can change.  kube-router
\* and metrics do not try again after a failure, which is reported then.  The
\* components in gaveUp do not try again either.
Followers ==
    (enabled \cap Components)
        \ ((IF source = "api" THEN {"coredns"} ELSE {})
             \cup used.gaveUp
             \cup (IF status.ok THEN {} ELSE {"kuberouter", "metrics"}))

\* If there ever is a ClusterConfig, or the file is used, then, once edits, failures
\* and changes have ceased, the last one has been delivered if it is valid, and
\* every component shows the configuration that it was given last together with
\* the nodes and controllers there are; the rawArgs of kube-scheduler and
\* kube-controller-manager are no part of that.  (What is initialized stays so.)
ConfigurationTakesEffect ==
    <>[](init = "done" =>
           /\ source = "static" => last # None
           /\ api # None => (api.content.valid => last # None /\ last.rv = api.rv)
           /\ last # None => \A c \in Followers : Shows(c, last.content))

\* The reconciler never gets stuck in a component.
ReconcileReturns == []<>(rc.cfg = None)

\* If this controller leads from some time on, the ClusterConfig gets rid of
\* feature gates for unknown components, also when users keep editing it.
GatesGetSanitized == <>[]leading => <>[](api # None /\ api.content.sane)

\* CoreDNS, too, shows the last configuration and the number of nodes in the end.
CoreDNSFollows ==
    <>[](init = "done" => last # None /\ ("coredns" \in enabled => Shows("coredns", last.content)))

\* What k0s writes back fits the cluster's history: user edits are kept, and
\* versions are reported in order (clusterconfig sources and reconciler).
WritesAreOrderly == UserEditsKept /\ ReportedInOrder

\* A configuration takes effect, reconciling it never hangs, and its feature gates
\* get sanitized (clusterconfig sources, reconciler and components).
ConfigurationSettles == ConfigurationTakesEffect /\ ReconcileReturns /\ GatesGetSanitized
=============================================================================
