----------------------------- MODULE NodeLocalLB -----------------------------
(***************************************************************************)
(* Node-local load balancing on a worker: the profile loader               *)
(* (pkg/component/worker/config/loader.go), the reconciler                 *)
(* (pkg/component/worker/nllb/reconciler.go) and its two backends          *)
(* (envoy.go, traefik.go).                                                 *)
(*                                                                         *)
(* The worker needs an API server to learn which API servers there are: it *)
(* loads its profile through the server it joined or those of the profile  *)
(* it has cached, and then watches the profile through the very load       *)
(* balancer that is configured from it.  The API servers change meanwhile, *)
(* writes fail, and k0s crashes.                                           *)
(*                                                                         *)
(* The static pod is what PodRegistry promises: claimed once, and served   *)
(* while it is claimed and set.                                            *)
(***************************************************************************)
EXTENDS Naturals, FiniteSets, Sequences

CONSTANTS
    Servers,        \* API server addresses
    Backends,       \* the backends in use, of "envoy" and "traefik"
    JoinAddress,    \* the address in the kubelet's kubeconfig
    MaxChanges,     \* bound: how often an API server comes or goes
    MaxFailures     \* bound: how many crashes and failed operations

NoFile == {"no such file"}
Unset == {"unset"}

VARIABLES
    nlLive,         \* the API servers that are running
    nlPublished,    \* the addresses in the worker profile in the cluster
    nlBackend,      \* the backend of this worker
    nlTorn,         \* Envoy's last update has failed for envoy.yaml only
    nlState,        \* "loading", "created", "initialized", "started", "stopped" or "exited"
    nlInitial,      \* the addresses in the loaded profile
    nlCache,        \* the addresses in the cached profile
    nlPod,          \* the static pod: "free", "claimed" or "set"
    nlConfig,       \* the addresses in the backend's configuration, or Unset
    nlInstall,      \* the file that does not change (envoy.yaml, config.yaml) exists
    nlRouting,      \* the addresses in cds.yaml or routing.yaml, or NoFile
    nlKubeconfig,   \* the kubeconfig that points to the load balancer exists
    nlLeft,         \* the files that Stop could not remove
    nlUpdates,      \* the updates channel, with a profile's addresses
    nlObserved,     \* the addresses in the profile the watch has last observed, or Unset
    nlDesired,      \* desiredAPIServers
    nlActual,       \* actualAPIServers
    nlChanges,      \* changes of nlLive so far
    nlFailures      \* failures so far

nlVars == <<nlLive, nlPublished, nlBackend, nlTorn, nlState, nlInitial, nlCache, nlPod, nlConfig, nlInstall, nlRouting,
            nlKubeconfig, nlLeft, nlUpdates, nlObserved, nlDesired, nlActual, nlChanges, nlFailures>>
nlCluster == <<nlLive, nlPublished, nlChanges, nlBackend>>
nlFiles == <<nlInstall, nlRouting, nlKubeconfig, nlCache, nlTorn, nlLeft>>
nlLoop == <<nlUpdates, nlObserved, nlDesired, nlActual>>

NlInit ==
    /\ nlLive = {JoinAddress}
    /\ nlPublished \in {{}, {JoinAddress}}
    /\ nlBackend \in Backends
    /\ nlTorn = FALSE
    /\ nlState = "loading"
    /\ nlInitial = {}
    /\ nlCache = {}
    /\ nlPod = "free"
    /\ nlConfig = Unset
    /\ nlInstall = FALSE
    /\ nlRouting = NoFile
    /\ nlKubeconfig = FALSE
    /\ nlLeft = {}
    /\ nlUpdates = <<>>
    /\ nlObserved = Unset
    /\ nlDesired = {}
    /\ nlActual = {}
    /\ nlChanges = 0
    /\ nlFailures = 0

Failing == nlFailures < MaxFailures /\ nlFailures' = nlFailures + 1
Succeeding == UNCHANGED nlFailures

-----------------------------------------------------------------------------
(***************************************************************************)
(* The cluster: API servers come and go, and a controller publishes the    *)
(* addresses of those that run, be it none.                                *)
(***************************************************************************)
ServersChange ==
    /\ nlChanges < MaxChanges
    /\ nlChanges' = nlChanges + 1
    /\ \E s \in Servers : nlLive' = (nlLive \cup {s}) \ (nlLive \cap {s})
    /\ UNCHANGED <<nlPublished, nlBackend, nlState, nlInitial, nlPod, nlConfig, nlFiles, nlLoop, nlFailures>>

PublishProfile ==
    /\ nlPublished # nlLive
    /\ nlPublished' = nlLive
    /\ UNCHANGED <<nlLive, nlChanges, nlBackend, nlState, nlInitial, nlPod, nlConfig, nlFiles, nlLoop, nlFailures>>

-----------------------------------------------------------------------------
(***************************************************************************)
(* The profile is cached; every profile that is seen replaces it.          *)
(***************************************************************************)
StoreInCacheDir(addresses) == nlCache' = addresses

(***************************************************************************)
(* The addresses that the loader tries: those of the cached profile, and   *)
(* that of the kubeconfig.                                                 *)
(***************************************************************************)
LoadAPIServerAddressesFromCache == nlCache

(***************************************************************************)
(* All addresses are tried at the same time, over and over; the first      *)
(* answer wins.                                                            *)
(***************************************************************************)
LoadConcurrently ==
    (LoadAPIServerAddressesFromCache \cup {JoinAddress}) \cap nlLive # {}

LoadProfile ==
    /\ nlState = "loading"
    /\ LoadConcurrently
    /\ nlInitial' = nlPublished
    /\ \/ nlState' = "created" /\ StoreInCacheDir(nlPublished) /\ Succeeding
       \/ nlState' = "exited" /\ UNCHANGED nlCache /\ Failing
    /\ UNCHANGED <<nlCluster, nlPod, nlConfig, nlInstall, nlRouting, nlKubeconfig, nlTorn, nlLeft, nlLoop>>

ReconcilerInit ==
    /\ nlState = "created"
    /\ \/ nlState' = "initialized" /\ Succeeding
       \/ nlState' = "exited" /\ Failing
    /\ UNCHANGED <<nlCluster, nlInitial, nlPod, nlConfig, nlFiles, nlLoop>>

(***************************************************************************)
(* Envoy's two files are written in either order, and a failure does not   *)
(* keep the other one from being written.  Traefik's are written one after *)
(* the other at the start, and only the second one later.                  *)
(***************************************************************************)
WriteEnvoyConfigFiles(addresses) ==
    \/ nlInstall' = TRUE /\ nlRouting' = addresses /\ nlTorn' = FALSE /\ Succeeding
    \/ nlInstall' = TRUE /\ UNCHANGED <<nlRouting, nlTorn>> /\ Failing
    \/ UNCHANGED nlInstall /\ nlRouting' = addresses /\ nlTorn' = TRUE /\ Failing

WriteRoutingConfigFile(addresses) ==
    /\ UNCHANGED <<nlInstall, nlTorn>>
    /\ \/ nlRouting' = addresses /\ Succeeding
       \/ UNCHANGED nlRouting /\ Failing

(***************************************************************************)
(* The backend's start claims the pod, writes the files and sets the pod's *)
(* manifest, if nothing fails.                                             *)
(***************************************************************************)
BackendStarts(addresses) ==
    /\ nlConfig = Unset
    /\ nlPod = "free"
    /\ nlConfig' = addresses
    /\ nlPod' = "set"
    /\ nlInstall' = TRUE
    /\ nlRouting' = addresses
    /\ nlTorn' = FALSE

(***************************************************************************)
(* If the pod cannot be claimed, or the start is cancelled before there is *)
(* a configuration, nothing has been written.  If a file cannot be written *)
(* or the manifest cannot be set, the pod is cleared and stays claimed,    *)
(* and the files are removed, unless that fails, too: then a file is as it *)
(* was, or as it has just been written.                                    *)
(***************************************************************************)
BackendFails(addresses) ==
    /\ nlConfig = Unset
    /\ nlPod = "free"
    /\ nlConfig' = Unset
    /\ nlTorn' = FALSE
    /\ \/ nlPod' \in {"free", "claimed"} /\ UNCHANGED <<nlInstall, nlRouting>>
       \/ /\ nlPod' = "claimed"
          /\ nlInstall' \in BOOLEAN
          /\ nlRouting' \in {NoFile, nlRouting, addresses}

(***************************************************************************)
(* Mutant of StopBackend: the routing file stays behind.                   *)
(***************************************************************************)
StopBackendKeepsRouting(left) ==
    /\ nlPod' = "free"
    /\ nlConfig' = Unset
    /\ nlInstall' = (nlInstall /\ "install" \in left)
    /\ UNCHANGED nlRouting

(***************************************************************************)
(* The files are removed, except those in left, where that fails: this is  *)
(* logged, and goes unnoticed otherwise.                                   *)
(***************************************************************************)
StopBackend(left) ==
    /\ nlPod' = "free"
    /\ nlConfig' = Unset
    /\ IF nlConfig = Unset
         THEN UNCHANGED <<nlInstall, nlRouting>>
         ELSE /\ nlInstall' = (nlInstall /\ "install" \in left)
              /\ nlRouting' = IF "routing" \in left THEN nlRouting ELSE NoFile

(***************************************************************************)
(* With no addresses in the profile, the one in the kubeconfig is used.    *)
(***************************************************************************)
InitialServers == IF nlInitial = {} THEN {JoinAddress} ELSE nlInitial

(***************************************************************************)
(* getAPIServerAddress fails: the backend has been started and is stopped. *)
(***************************************************************************)
NoBindAddress(addresses) ==
    /\ nlConfig = Unset
    /\ nlPod = "free"
    /\ UNCHANGED <<nlConfig, nlPod>>
    /\ nlInstall' \in BOOLEAN
    /\ nlRouting' \in {NoFile, addresses}
    /\ nlTorn' = FALSE

(***************************************************************************)
(* Start.  When the address to bind to is no good, the load balancer is    *)
(* stopped again, and its files are left only if they cannot be removed.   *)
(* When the kubeconfig cannot be written (reconciler.go:208), the load     *)
(* balancer is left running.  The worker exits if Start fails.             *)
(***************************************************************************)
ReconcilerStart ==
    /\ nlState = "initialized"
    /\ \/ /\ BackendStarts(InitialServers)
          /\ nlKubeconfig' = TRUE
          /\ nlState' = "started"
          /\ Succeeding
       \/ /\ BackendStarts(InitialServers)
          /\ UNCHANGED nlKubeconfig
          /\ nlState' = "exited"
          /\ Failing
       \/ /\ BackendFails(InitialServers) \/ NoBindAddress(InitialServers)
          /\ UNCHANGED nlKubeconfig
          /\ nlState' = "exited"
          /\ Failing
    /\ UNCHANGED <<nlCluster, nlInitial, nlCache, nlLeft, nlLoop>>

-----------------------------------------------------------------------------
(***************************************************************************)
(* The watch goes through the load balancer: it needs one of the addresses *)
(* in the routing file to be that of a running API server.                 *)
(***************************************************************************)
Reachable == nlRouting \cap nlLive # {}

(***************************************************************************)
(* A change of the profile is cached, which may fail, and handed to the    *)
(* loop, unless it has been observed already.  The channel holds one       *)
(* profile; with one in it the watch waits.                                *)
(***************************************************************************)
WatchProfile ==
    /\ nlState = "started"
    /\ Reachable
    /\ nlPublished # nlObserved
    /\ Len(nlUpdates) < 1
    /\ nlObserved' = nlPublished
    /\ \/ StoreInCacheDir(nlPublished) /\ Succeeding
       \/ UNCHANGED nlCache /\ Failing
    /\ nlUpdates' = Append(nlUpdates, nlPublished)
    /\ UNCHANGED <<nlCluster, nlState, nlInitial, nlPod, nlConfig, nlInstall, nlRouting, nlKubeconfig, nlTorn, nlLeft, nlDesired, nlActual>>

(***************************************************************************)
(* The watch ends with an error, and starts over: what is in the cluster   *)
(* is handed to the loop once more.                                        *)
(***************************************************************************)
WatchFails ==
    /\ nlState = "started"
    /\ nlObserved # Unset
    /\ nlObserved' = Unset
    /\ Failing
    /\ UNCHANGED <<nlCluster, nlState, nlInitial, nlPod, nlConfig, nlFiles, nlUpdates, nlDesired, nlActual>>

UpdateAPIServers(addresses) ==
    /\ nlConfig' = addresses
    /\ CASE nlBackend = "envoy" -> WriteEnvoyConfigFiles(addresses)
         [] nlBackend = "traefik" -> WriteRoutingConfigFile(addresses)

(***************************************************************************)
(* Mutant of Reconcile: what was tried is taken for what is there.         *)
(***************************************************************************)
ReconcileNoRetry(desired) ==
    IF desired = nlActual
      THEN UNCHANGED <<nlConfig, nlInstall, nlRouting, nlTorn, nlActual, nlFailures>>
      ELSE UpdateAPIServers(desired) /\ nlActual' = desired

(***************************************************************************)
(* One turn of the loop: nothing to do, an update, or a failed update that *)
(* the next tick repeats.                                                  *)
(***************************************************************************)
Reconcile(desired) ==
    IF desired = nlActual
      THEN UNCHANGED <<nlConfig, nlInstall, nlRouting, nlTorn, nlActual, nlFailures>>
      ELSE /\ UpdateAPIServers(desired)
           /\ nlActual' = IF nlFailures' = nlFailures THEN desired ELSE nlActual

TakeUpdate ==
    /\ nlState = "started"
    /\ nlUpdates # <<>>
    /\ nlUpdates' = Tail(nlUpdates)
    /\ IF Head(nlUpdates) = {}
         THEN UNCHANGED <<nlDesired, nlActual, nlConfig, nlInstall, nlRouting, nlTorn, nlFailures>>
         ELSE nlDesired' = Head(nlUpdates) /\ Reconcile(nlDesired')
    /\ UNCHANGED <<nlCluster, nlState, nlInitial, nlPod, nlCache, nlKubeconfig, nlLeft, nlObserved>>

Tick ==
    /\ nlState = "started"
    /\ nlDesired # nlActual
    /\ Reconcile(nlDesired)
    /\ UNCHANGED <<nlCluster, nlState, nlInitial, nlPod, nlCache, nlKubeconfig, nlLeft, nlUpdates, nlObserved, nlDesired>>

-----------------------------------------------------------------------------
(***************************************************************************)
(* Stop waits for the loop, stops the backend and removes the kubeconfig.  *)
(* Files that cannot be removed stay, and Stop reports no error.           *)
(***************************************************************************)
ReconcilerStop ==
    /\ nlState = "started"
    /\ nlState' = "stopped"
    /\ \E left \in SUBSET {"install", "routing", "kubeconfig"} :
         /\ StopBackend(left)
         /\ nlKubeconfig' = (nlKubeconfig /\ "kubeconfig" \in left)
         /\ nlLeft' = left
         /\ IF left = {} THEN Succeeding ELSE Failing
    /\ UNCHANGED <<nlCluster, nlInitial, nlCache, nlTorn, nlLoop>>

Crash ==
    /\ nlState \notin {"stopped", "exited"}
    /\ nlState' = "exited"
    /\ Failing
    /\ UNCHANGED <<nlCluster, nlInitial, nlPod, nlConfig, nlFiles, nlLoop>>

(***************************************************************************)
(* The service manager starts k0s again; the files are still there.        *)
(***************************************************************************)
Restart ==
    /\ nlState = "exited"
    /\ nlState' = "loading"
    /\ nlInitial' = {}
    /\ nlPod' = "free"
    /\ nlConfig' = Unset
    /\ nlUpdates' = <<>>
    /\ nlObserved' = Unset
    /\ nlDesired' = {}
    /\ nlActual' = {}
    /\ UNCHANGED <<nlCluster, nlFiles, nlFailures>>

NlWorker == LoadProfile \/ ReconcilerInit \/ ReconcilerStart \/ Restart

NlNext ==
    \/ ServersChange \/ PublishProfile
    \/ NlWorker
    \/ WatchProfile \/ WatchFails \/ TakeUpdate \/ Tick
    \/ ReconcilerStop
    \/ Crash

(***************************************************************************)
(* Fairness: the loader retries, the loop and the watch go on, and the     *)
(* addresses get published.                                                *)
(***************************************************************************)
NlFairness ==
    /\ WF_nlVars(NlWorker)
    /\ WF_nlVars(PublishProfile)
    /\ WF_nlVars(WatchProfile)
    /\ WF_nlVars(TakeUpdate)
    /\ WF_nlVars(Tick)

NlSpec == NlInit /\ [][NlNext]_nlVars /\ NlFairness

-----------------------------------------------------------------------------
NlTypeOK ==
    /\ nlLive \subseteq Servers
    /\ nlPublished \subseteq Servers
    /\ nlState \in {"loading", "created", "initialized", "started", "stopped", "exited"}
    /\ nlPod \in {"free", "claimed", "set"}
    /\ nlRouting = NoFile \/ nlRouting \subseteq Servers
    /\ nlUpdates \in UNION {[1..n -> SUBSET Servers] : n \in 0..1}

(***************************************************************************)
(* The load balancer always has somewhere to go (reconciler.go:323): as    *)
(* long as the pod is served, its files exist and name an API server, and  *)
(* when the component is stopped, the pod is gone, and so are files and    *)
(* kubeconfig, except those whose removal has failed: Stop only logs that  *)
(* (envoy.go:194, traefik.go:191, reconciler.go:277).                      *)
(***************************************************************************)
BalancerIsWhole ==
    /\ nlPod = "set" => nlInstall /\ nlRouting \notin {NoFile, {}}
    /\ nlState = "started" => nlPod = "set" /\ nlKubeconfig
    /\ nlState = "stopped" =>
         /\ nlPod = "free"
         /\ nlInstall => "install" \in nlLeft
         /\ nlRouting # NoFile => "routing" \in nlLeft
         /\ nlKubeconfig => "kubeconfig" \in nlLeft

(***************************************************************************)
(* Once it is stopped without an error, nothing of it is left on the node. *)
(* This does not hold, as Stop only logs files that it cannot remove.      *)
(***************************************************************************)
StoppedCleanly ==
    nlState = "stopped" => nlPod = "free" /\ ~nlInstall /\ nlRouting = NoFile /\ ~nlKubeconfig

(***************************************************************************)
(* The worker follows the API servers (reconciler.go:333 retries, and      *)
(* loader.go:60 tries the cached addresses): if, from some time on, one of *)
(* the API servers it knows of always runs, then through crashes, failed   *)
(* writes and broken watches its load balancer ends up with the published  *)
(* addresses, unless it is stopped or there are none.  An Envoy update of  *)
(* which only envoy.yaml failed is excepted: see BalancerRetries.          *)
(***************************************************************************)
KnowsOne ==
    /\ LoadConcurrently
    /\ nlState = "started" => Reachable

CaughtUp == nlState = "stopped" \/ nlPublished = {} \/ nlRouting = nlPublished

BalancerCatchesUp ==
    <>[]KnowsOne => <>[](CaughtUp \/ (nlTorn /\ nlDesired = nlActual))

(***************************************************************************)
(* "Retry failed reconciliations every minute" (reconciler.go:334), with   *)
(* no exception.  It does not hold for Envoy: when cds.yaml is written and *)
(* envoy.yaml is not, the update has failed, and if the addresses then     *)
(* change back to what they were, there seems to be nothing to do, while   *)
(* cds.yaml keeps the addresses of the failed update.                      *)
(***************************************************************************)
BalancerRetries == <>[]KnowsOne => <>[]CaughtUp
=============================================================================
