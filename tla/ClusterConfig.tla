----------------------------- MODULE ClusterConfig ----------------------------
(***************************************************************************)
(* The cluster configuration as a document (pkg/apis/k0s/v1beta1): how a   *)
(* controller reads it (defaults, then what the user wrote, then the       *)
(* repository of the images), validates it (which fills in more), hands    *)
(* the cluster-wide part of it, without the defaults, to the ClusterConfig *)
(* object, and how a controller, perhaps of a newer version of k0s, reads  *)
(* that object again.  ConfigPipeline has what becomes of it from there.   *)
(*                                                                         *)
(* A document leaves out what it does not set: Nil for a section, "" or 0  *)
(* for a value.  In a configuration in memory, Nil is the nil pointer.     *)
(* An image has a host, a name and a version; "images" has one image slot  *)
(* of its own and one of a nested section, for all of them.                *)
(***************************************************************************)
EXTENDS Integers, Sequences, FiniteSets

CONSTANTS
    Nil,
    Documents,    \* what users may write
    MaxUpgrades   \* bound: newer versions of k0s, with newer images

VARIABLES
    cfDoc,       \* what the user wrote
    cfSingle,    \* --single
    cfPhase,     \* "load", "run" or "refused"
    cfNode,      \* the controller's configuration
    cfRuntime,   \* its copy for other processes, as they read it
    cfObject,    \* the ClusterConfig object, or Nil, and the version it was made by
    cfSeen,      \* what was read from the object, or Nil
    cfVersion    \* of k0s

cfVars == <<cfDoc, cfSingle, cfPhase, cfNode, cfRuntime, cfObject, cfSeen, cfVersion>>

Or(value, default) == IF value = Nil THEN default ELSE value
OrString(value, default) == IF value = "" THEN default ELSE value
OrNumber(value, default) == IF value = 0 THEN default ELSE value

-------------------------------------------------------------------------------
(* Images *)

ImageSlots == {"pause", "calico/cni"}

DefaultClusterImages(v) ==
    [repository |-> "", pull |-> "IfNotPresent",
     slots |-> [s \in ImageSlots |-> [host |-> "quay.io", name |-> s, version |-> v]]]

(* Whether an image's name begins with the repository: that it is in it    *)
(* already, or that its host merely begins like it, as quay.io does for    *)
(* a repository called quay.                                               *)
HasPrefix(image, repository) ==
    image.host = repository \/ (image.host = "quay.io" /\ repository = "quay")

(* An image whose name begins with the repository is left alone.           *)
OverrideRepository(repository, image) ==
    IF repository = "" \/ HasPrefix(image, repository) THEN image
    ELSE [image EXCEPT !.host = repository]

OverrideImageRepositories(images) ==
    [images EXCEPT !.slots = [s \in ImageSlots |-> OverrideRepository(images.repository, @[s])]]

(* Into an image that is there already, a document may put a version (0    *)
(* for none) or a name of its own.                                         *)
DecodeImage(doc, image) ==
    [host |-> OrString(doc.host, image.host), name |-> OrString(doc.name, image.name),
     version |-> OrNumber(doc.version, image.version)]

UnmarshalImages(doc, base) ==
    OverrideImageRepositories(
      [repository |-> OrString(doc.repository, base.repository),
       pull |-> OrString(doc.pull, "IfNotPresent"),
       slots |-> [s \in ImageSlots |->
                    IF doc.slots[s] = Nil THEN base.slots[s] ELSE DecodeImage(doc.slots[s], base.slots[s])]])

ValidateImage(image) == image.version > 0

ValidateImages(images) ==
    /\ images.pull \in {"Always", "IfNotPresent", "Never"}
    /\ \A s \in ImageSlots : images.slots[s] = Nil \/ ValidateImage(images.slots[s])

-------------------------------------------------------------------------------
(* Node-local load balancing *)

ProxyImage(type, v) == [host |-> "quay.io", name |-> type, version |-> v]

SetProxyDefaults(proxy, type, v) ==
    [image |-> IF proxy.image = Nil THEN ProxyImage(type, v) ELSE DecodeImage(proxy.image, ProxyImage(type, v)),
     port |-> OrNumber(proxy.port, 7443)]

DefaultProxy(type, v) == SetProxyDefaults([image |-> Nil, port |-> 0], type, v)

(* A document's proxy goes into the one that is there, if there is one.    *)
UnmarshalProxy(doc, base, type, v) ==
    IF doc = Nil THEN base
    ELSE LET into == Or(base, [image |-> Nil, port |-> 0])
         IN  SetProxyDefaults([image |-> IF doc.image = Nil THEN into.image
                                         ELSE DecodeImage(doc.image, Or(into.image, [host |-> "", name |-> "", version |-> 0])),
                               port |-> OrNumber(doc.port, into.port)], type, v)

SetBalancerDefaults(nllb, v) ==
    LET type == OrString(nllb.type, "EnvoyProxy")
    IN  [nllb EXCEPT !.type = type,
                     !.envoy = IF type = "EnvoyProxy" THEN Or(@, DefaultProxy("EnvoyProxy", v)) ELSE @,
                     !.traefik = IF type = "Traefik" THEN Or(@, DefaultProxy("Traefik", v)) ELSE @]

DefaultNodeLocalLoadBalancing(v) ==
    SetBalancerDefaults([enabled |-> FALSE, type |-> "", envoy |-> Nil, traefik |-> Nil], v)

UnmarshalBalancer(doc, base, v) ==
    IF doc = Nil THEN base
    ELSE SetBalancerDefaults(
           [enabled |-> doc.enabled, type |-> OrString(doc.type, base.type),
            envoy |-> UnmarshalProxy(doc.envoy, base.envoy, "EnvoyProxy", v),
            traefik |-> UnmarshalProxy(doc.traefik, base.traefik, "Traefik", v)], v)

ValidateProxyConfig(proxy) ==
    proxy = Nil \/ (proxy.image # Nil /\ ValidateImage(proxy.image) /\ proxy.port \in 1..65535)

ValidateBalancer(nllb) ==
    /\ nllb.type \in {"EnvoyProxy", "Traefik"} \/ (nllb.type = "" /\ ~nllb.enabled)
    /\ ValidateProxyConfig(nllb.envoy) /\ ValidateProxyConfig(nllb.traefik)

(* The images of the balancers are in the repository, too.                 *)
OverrideProxyRepository(repository, proxy) ==
    IF proxy = Nil \/ proxy.image = Nil THEN proxy
    ELSE [proxy EXCEPT !.image = OverrideRepository(repository, @)]

-------------------------------------------------------------------------------
(* Control plane load balancing *)

(* Validation numbers the virtual routers that have no ID.                 *)
ValidatedInstances(instances) ==
    [i \in DOMAIN instances |->
       [instances[i] EXCEPT !.id = IF @ # 0 THEN @ ELSE IF 50 + i > 255 THEN 0 ELSE 50 + i]]

ValidateInstance(instance) ==
    /\ instance.id \in 1..255
    /\ instance.ips # {}
    /\ instance.peers # {} => instance.source # "" /\ instance.source \notin instance.peers

(* A virtual server is the way it balances and how long it remembers.      *)
ValidatedServers(servers) ==
    [i \in DOMAIN servers |-> [algorithm |-> OrString(servers[i].algorithm, "rr"),
                               persistence |-> OrNumber(servers[i].persistence, 360)]]

ValidateServer(server) == server.algorithm \in {"rr", "wrr", "lc"} /\ server.persistence \in 1..2678400

ValidateKeepalived(instances, servers) ==
    /\ \A i \in DOMAIN instances : ValidateInstance(ValidatedInstances(instances)[i])
    /\ \A i \in DOMAIN servers : ValidateServer(ValidatedServers(servers)[i])

-------------------------------------------------------------------------------
(* Network: a CIDR is its family, 4 or 6, and the length of its prefix;    *)
(* the family 0 stands for one that cannot be parsed.                      *)

NoCIDR == [family |-> 0, ones |-> 0]
NoDual == [enabled |-> FALSE, pod |-> NoCIDR, service |-> NoCIDR]
OrCIDR(cidr, default) == IF cidr = NoCIDR THEN default ELSE cidr

DefaultCalico == [mode |-> "vxlan", flexVolume |-> "k0s"]

UnmarshalCalico(doc) ==
    [mode |-> OrString(doc.mode, "vxlan"), flexVolume |-> OrString(doc.flexVolume, "kubernetes")]

DefaultKubeProxy == [disabled |-> FALSE, mode |-> "iptables", patches |-> {}]

UnmarshalKubeProxy(doc, base) ==
    [disabled |-> doc.disabled, mode |-> OrString(doc.mode, base.mode), patches |-> doc.patches]

(* A patch has a type and says what it is for.                             *)
ValidatePatch(patch) ==
    /\ patch.type \in {"JSON", "StrategicMergePatch", "MergePatch"}
    /\ patch.kind # "" /\ patch.name # ""

(* Patches count even if there is no kube-proxy.                           *)
ValidateKubeProxy(proxy) ==
    /\ \A patch \in proxy.patches : ValidatePatch(patch)
    /\ proxy.disabled \/ proxy.mode \in {"iptables", "ipvs", "userspace", "nftables"}

DefaultNetwork(v) ==
    [provider |-> "kuberouter", pod |-> [family |-> 4, ones |-> 16], service |-> [family |-> 4, ones |-> 12],
     family |-> "", dual |-> NoDual, router |-> "default", calico |-> Nil,
     proxy |-> DefaultKubeProxy, nllb |-> DefaultNodeLocalLoadBalancing(v), instances |-> <<>>, servers |-> <<>>]

(* The section of the provider is there, and that of the other is not.     *)
UnmarshalNetwork(doc, base, v) ==
    LET provider == OrString(doc.provider, "kuberouter")
        calico == IF doc.calico = Nil THEN base.calico ELSE UnmarshalCalico(doc.calico)
        router == Or(doc.router, base.router)
    IN  [provider |-> provider,
         pod |-> OrCIDR(doc.pod, base.pod), service |-> OrCIDR(doc.service, base.service),
         family |-> OrString(doc.family, base.family),
         dual |-> [enabled |-> doc.dual.enabled, pod |-> OrCIDR(doc.dual.pod, base.dual.pod),
                   service |-> OrCIDR(doc.dual.service, base.dual.service)],
         calico |-> CASE provider = "calico" -> Or(calico, DefaultCalico)
                      [] provider = "kuberouter" -> Nil
                      [] OTHER -> calico,
         router |-> CASE provider = "kuberouter" -> Or(router, "default")
                      [] provider = "calico" -> Nil
                      [] OTHER -> router,
         nllb |-> UnmarshalBalancer(doc.nllb, base.nllb, v),
         proxy |-> IF doc.proxy = Nil THEN base.proxy ELSE UnmarshalKubeProxy(doc.proxy, base.proxy),
         instances |-> IF doc.instances = <<>> THEN base.instances ELSE doc.instances,
         servers |-> IF doc.servers = <<>> THEN base.servers ELSE doc.servers]

(* The feature gate IPv6SingleStack is taken to be on.                     *)
ValidateCIDRs(n) ==
    /\ n.pod.family # 0 /\ n.service.family # 0
    /\ n.pod.family = n.service.family
    /\ n.service.family = 6 => n.service.ones <= 108

ValidateDualStack(n) ==
    n.dual.enabled =>
      /\ n.provider = "calico" => n.calico.mode = "bird"
      /\ n.dual.pod.family = 6 /\ n.dual.service.family = 6
      /\ 128 - n.dual.service.ones <= 20
      /\ n.pod.family = 4 /\ n.service.family = 4

ValidateCalico(calico) == calico = Nil \/ calico.mode \in {"bird", "vxlan", "ipip"}

ValidateNetwork(n) ==
    /\ n.provider \in {"calico", "custom", "kuberouter"}
    /\ ValidateCIDRs(n) /\ ValidateDualStack(n)
    /\ n.family \in {"", "IPv4", "IPv6"}
    /\ ValidateKubeProxy(n.proxy) /\ ValidateCalico(n.calico) /\ ValidateBalancer(n.nllb) /\ ValidateKeepalived(n.instances, n.servers)

(* The services' addresses: the API server's is the first of the CIDR, the *)
(* one of DNS the tenth, or the second of a small one; -1 if there is none.*)
DNSCIDR(n, family) == IF n.dual.enabled /\ family = "IPv6" THEN n.dual.service ELSE n.service

HostBits(cidr) == (IF cidr.family = 4 THEN 32 ELSE 128) - cidr.ones

DNSAddress(n, family) ==
    LET bits == HostBits(DNSCIDR(n, family))
        offset == IF bits > 3 THEN 10 ELSE 2
    IN  IF bits > 3 \/ offset < 2 ^ bits THEN offset ELSE -1

InternalAPIAddresses(n) ==
    LET cidrs == <<n.service>> \o (IF n.dual.enabled THEN <<n.dual.service>> ELSE <<>>)
    IN  [i \in DOMAIN cidrs |-> IF HostBits(cidrs[i]) > 0 THEN 1 ELSE -1]

BuildServiceCIDR(n, family) ==
    CASE ~n.dual.enabled -> <<n.service>>
      [] n.dual.enabled /\ family = "IPv4" -> <<n.service, n.dual.service>>
      [] n.dual.enabled /\ family = "IPv6" -> <<n.dual.service, n.service>>

BuildPodCIDR(n, family) ==
    CASE ~n.dual.enabled -> <<n.pod>>
      [] n.dual.enabled /\ family = "IPv4" -> <<n.pod, n.dual.pod>>
      [] n.dual.enabled /\ family = "IPv6" -> <<n.dual.pod, n.pod>>

-------------------------------------------------------------------------------
(* API and storage: an address is of a family, a name, or neither.         *)

SetAPIDefaults(doc) == [address |-> OrString(doc.address, "v4"), external |-> doc.external,
                        port |-> OrNumber(doc.port, 6443)]

DefaultAPISpec == SetAPIDefaults([address |-> "", external |-> "", port |-> 0])

ValidateAPI(api) ==
    /\ api.address \in {"v4", "v6"}
    /\ api.external \in {"", "v4", "v6", "name"}
    /\ api.port \in 1..65535

PrimaryAddressFamily(spec) ==
    IF spec.network.family # "" THEN spec.network.family
    ELSE IF OrString(spec.api.external, spec.api.address) = "v6" THEN "IPv6" ELSE "IPv4"

DefaultEtcdConfig == [external |-> Nil]
DefaultStorageSpec == [type |-> "etcd", etcd |-> DefaultEtcdConfig, kine |-> ""]

(* kine is its data source; that of the default is in the default data     *)
(* directory, whichever the controller has.                                *)
UnmarshalStorage(doc, base) ==
    LET type == OrString(doc.type, "etcd")
        kine == OrString(doc.kine, base.kine)
    IN  [type |-> type, etcd |-> Or(doc.etcd, DefaultEtcdConfig),
         kine |-> IF type = "kine" THEN OrString(kine, "sqlite in the default directory") ELSE kine]

TLSFiles == {"caFile", "clientCertFile", "clientKeyFile"}

ValidateStorage(storage) ==
    /\ storage.type \in {"etcd", "kine"}
    /\ (storage.etcd # Nil /\ storage.etcd.external # Nil) =>
          /\ storage.etcd.external.endpoints # {}
          /\ storage.etcd.external.prefix # ""
          /\ storage.etcd.external.files \in {{}, TLSFiles}

KineIsJoinable(source) == source \in {"mysql", "nats elsewhere"}

IsJoinable(storage) ==
    storage.type = "etcd" \/ (storage.type = "kine" /\ KineIsJoinable(storage.kine))

(* Whether there will only ever be one controller, which then leads without  *)
(* an election, and whether a token may be made for a node that joins.     *)
SingleController(single, storage) == single \/ ~IsJoinable(storage)

EnsureTokenCreationAcceptable(role, single, storage) ==
    ~single /\ (role = "controller" => IsJoinable(storage))

(* With an external cluster, the files of a client are the user's only if  *)
(* all of them are; and without them there is no TLS.                      *)
ClientFiles(etcd) ==
    IF etcd.external # Nil /\ etcd.external.files = TLSFiles THEN "user's" ELSE "own"

IsTLSEnabled(etcd) == etcd.external = Nil \/ etcd.external.files = TLSFiles

-------------------------------------------------------------------------------
(* Konnectivity, feature gates, worker profiles and Helm extensions *)

DefaultKonnectivitySpec == [admin |-> 8133, agent |-> 8132]

UnmarshalKonnectivity(doc, base) == [admin |-> OrNumber(doc.admin, base.admin), agent |-> OrNumber(doc.agent, base.agent)]

ValidateKonnectivity(konnectivity) == konnectivity.admin \in 1..65535 /\ konnectivity.agent \in 1..65535

FeatureComponents ==
    {"kube-apiserver", "kube-controller-manager", "kube-proxy", "kube-scheduler", "kubelet"}

ValidateFeatureGate(gate) ==
    gate.name # "" /\ gate.components \subseteq FeatureComponents

(* A gate is there once, whichever components it is for.                   *)
ValidateFeatureGates(gates) ==
    \A i \in DOMAIN gates :
      /\ ValidateFeatureGate(gates[i])
      /\ \A j \in 1..(i - 1) : gates[j].name # gates[i].name

ReservedFields == {"clusterDNS", "clusterDomain", "staticPodURL"}

(* A profile's values are the fields that it sets, perhaps to something    *)
(* that kubelet does not accept.                                           *)
ValidateProfileConfig(values) == values \cap ReservedFields = {} /\ "unacceptable" \notin values

ValidateWorkerProfile(profile) == profile.name # "" /\ ValidateProfileConfig(profile.values)

ValidateChart(chart) == chart.name # "" /\ chart.chart # "" /\ chart.namespace # ""

ValidateExtensions(charts) == \A i \in DOMAIN charts : ValidateChart(charts[i])

-------------------------------------------------------------------------------
(* The configuration as a whole *)

DefaultClusterSpec(v) ==
    [images |-> DefaultClusterImages(v), network |-> DefaultNetwork(v), api |-> DefaultAPISpec,
     storage |-> DefaultStorageSpec, konnectivity |-> DefaultKonnectivitySpec,
     gates |-> <<>>, profiles |-> <<>>, charts |-> <<>>]

OverrideSpecRepositories(spec) ==
    [spec EXCEPT !.network.nllb.envoy = OverrideProxyRepository(spec.images.repository, @),
                 !.network.nllb.traefik = OverrideProxyRepository(spec.images.repository, @)]

(* Everything starts from the defaults, but for a storage that is given.   *)
UnmarshalConfig(doc, storage, v) ==
    LET base == DefaultClusterSpec(v)
    IN  OverrideSpecRepositories(
          [images |-> IF doc.images = Nil THEN base.images ELSE UnmarshalImages(doc.images, base.images),
           network |-> IF doc.network = Nil THEN base.network ELSE UnmarshalNetwork(doc.network, base.network, v),
           api |-> IF doc.api = Nil THEN base.api ELSE SetAPIDefaults(doc.api),
           storage |-> IF doc.storage = Nil THEN storage ELSE UnmarshalStorage(doc.storage, storage),
           konnectivity |-> IF doc.konnectivity = Nil THEN base.konnectivity
                            ELSE UnmarshalKonnectivity(doc.konnectivity, base.konnectivity),
           gates |-> doc.gates, profiles |-> doc.profiles, charts |-> doc.charts])

(* A single node has kine, unless its configuration has a storage.         *)
NodeConfig(doc, single, v) ==
    UnmarshalConfig(doc,
                    IF single THEN [type |-> "kine", etcd |-> Nil, kine |-> "sqlite in the data directory"]
                    ELSE DefaultStorageSpec, v)

ValidateNodeLocalLoadBalancing(spec) == spec.network.nllb.enabled => spec.api.external = ""

ValidateConfig(spec) ==
    /\ ValidateAPI(spec.api) /\ ValidateStorage(spec.storage) /\ ValidateNetwork(spec.network)
    /\ ValidateKonnectivity(spec.konnectivity)
    /\ ValidateExtensions(spec.charts)
    /\ \A i \in DOMAIN spec.profiles : ValidateWorkerProfile(spec.profiles[i])
    /\ ValidateImages(spec.images) /\ ValidateNodeLocalLoadBalancing(spec)
    /\ ValidateFeatureGates(spec.gates)

(* Validation fills in what it can.                                        *)
Validated(spec) == [spec EXCEPT !.network.instances = ValidatedInstances(@),
                                 !.network.servers = ValidatedServers(@)]

(* Without what belongs to the controller.                                 *)
GetClusterWideConfig(spec) ==
    [spec EXCEPT !.api = Nil, !.storage = Nil,
                 !.network.service = NoCIDR, !.network.family = "",
                 !.network.instances = <<>>, !.network.servers = <<>>]

(* An image is left out if it is the default, in the same repository; it   *)
(* stays as a whole otherwise.                                             *)
StripImages(images, v) ==
    LET default == OverrideImageRepositories([DefaultClusterImages(v) EXCEPT !.repository = images.repository])
    IN  IF images = DefaultClusterImages(v) THEN Nil
        ELSE [images EXCEPT !.pull = IF @ = default.pull THEN "" ELSE @,
                            !.slots = [s \in ImageSlots |-> IF @[s] = default.slots[s] THEN Nil ELSE @[s]]]

(* Only the section of the balancer in use stays.                          *)
StripProxy(proxy, used, repository, type, v) ==
    IF ~used \/ proxy = Nil THEN Nil
    ELSE [proxy EXCEPT !.image = IF @ = OverrideRepository(repository, ProxyImage(type, v)) THEN Nil ELSE @]

StripNetwork(n, repository, v) ==
    [n EXCEPT !.nllb.envoy = StripProxy(@, n.nllb.type = "EnvoyProxy", repository, "EnvoyProxy", v),
              !.nllb.traefik = StripProxy(@, n.nllb.type = "Traefik", repository, "Traefik", v)]

StripDefaults(spec, v) ==
    [spec EXCEPT !.images = StripImages(@, v), !.network = StripNetwork(@, spec.images.repository, v),
                 !.konnectivity = IF @ = DefaultKonnectivitySpec THEN Nil ELSE @]

-------------------------------------------------------------------------------
(* A controller starts: it reads its configuration and does not start with *)
(* one that is invalid.  Other processes read a copy of it.                *)
LoadNodeConfig ==
    /\ cfPhase = "load"
    /\ LET spec == NodeConfig(cfDoc, cfSingle, cfVersion)
       IN  IF ~ValidateConfig(spec)
             THEN cfPhase' = "refused" /\ UNCHANGED <<cfNode, cfRuntime>>
             ELSE /\ cfPhase' = "run"
                  /\ cfNode' = Validated(spec)
                  /\ cfRuntime' = UnmarshalConfig(cfNode', DefaultStorageSpec, cfVersion)
    /\ UNCHANGED <<cfDoc, cfSingle, cfObject, cfSeen, cfVersion>>

(* The first controller creates the object.                                *)
CreateClusterConfig ==
    /\ cfPhase = "run" /\ cfObject = Nil
    /\ cfObject' = [spec |-> StripDefaults(GetClusterWideConfig(cfNode), cfVersion), by |-> cfVersion]
    /\ UNCHANGED <<cfDoc, cfSingle, cfPhase, cfNode, cfRuntime, cfSeen, cfVersion>>

(* The reconciler reads the object and takes it if it is valid.            *)
ReadClusterConfig ==
    /\ cfPhase = "run" /\ cfObject # Nil
    /\ LET spec == UnmarshalConfig(cfObject.spec, DefaultStorageSpec, cfVersion)
       IN  cfSeen' = IF ValidateConfig(spec) THEN spec ELSE cfSeen
    /\ UNCHANGED <<cfDoc, cfSingle, cfPhase, cfNode, cfRuntime, cfObject, cfVersion>>

(* A newer k0s takes over.                                                 *)
UpgradeController ==
    /\ cfPhase = "run" /\ cfVersion <= MaxUpgrades
    /\ cfVersion' = cfVersion + 1
    /\ cfPhase' = "load"
    /\ cfSeen' = Nil
    /\ UNCHANGED <<cfDoc, cfSingle, cfNode, cfRuntime, cfObject>>

CfInit ==
    /\ cfDoc \in Documents
    /\ cfSingle \in BOOLEAN
    /\ cfPhase = "load"
    /\ cfNode = Nil /\ cfRuntime = Nil /\ cfObject = Nil /\ cfSeen = Nil
    /\ cfVersion = 1

CfNext == LoadNodeConfig \/ CreateClusterConfig \/ ReadClusterConfig \/ UpgradeController

CfSpec == CfInit /\ [][CfNext]_cfVars

-------------------------------------------------------------------------------
(* What the components make of a configuration: of the two balancers and   *)
(* the two backends, only the one in use.                                  *)
EffectiveProxy(nllb) == IF nllb.type = "EnvoyProxy" THEN nllb.envoy ELSE nllb.traefik

EffectiveNetwork(n) ==
    <<n.provider, n.pod, n.dual, n.calico, n.router, n.proxy, n.nllb.enabled, n.nllb.type, EffectiveProxy(n.nllb)>>

EffectiveStorage(storage) == IF storage.type = "etcd" THEN storage.etcd ELSE storage.kine

(* Nothing gets lost between a controller's configuration and its copies:  *)
(* the object, read back by the version that wrote it, says the same about *)
(* everything that is cluster-wide, although the defaults were taken out   *)
(* of it and the images' repository had been put into them; and the copy   *)
(* for other processes says the same about everything.                     *)
ConfigSurvives ==
    /\ (cfSeen # Nil /\ cfObject.by = cfVersion) =>
          /\ cfSeen.images = cfNode.images
          /\ \A section \in {"konnectivity", "gates", "profiles", "charts"} : cfSeen[section] = cfNode[section]
          /\ EffectiveNetwork(cfSeen.network) = EffectiveNetwork(cfNode.network)
    /\ cfPhase = "run" =>
          /\ [cfRuntime EXCEPT !.storage = Nil, !.network.nllb = Nil]
               = [cfNode EXCEPT !.storage = Nil, !.network.nllb = Nil]
          /\ EffectiveNetwork(cfRuntime.network) = EffectiveNetwork(cfNode.network)
          /\ EffectiveStorage(cfRuntime.storage) = EffectiveStorage(cfNode.storage)

(* A newer version brings its images: those that the user has not set are  *)
(* the newer ones, those that were set to something else than the default  *)
(* stay, and the names of all begin with the repository that the user      *)
(* wants (which is not the same as being in it, see HasPrefix).            *)
UpgradeBringsImages ==
    cfSeen # Nil =>
      LET asked(s) == IF cfDoc.images = Nil THEN Nil ELSE cfDoc.images.slots[s]
          repository == IF cfDoc.images = Nil THEN "" ELSE cfDoc.images.repository
          right(image, wanted) ==
            /\ wanted = Nil => image.version = cfVersion
            /\ (wanted # Nil /\ wanted.version \notin {0, cfObject.by}) => image.version = wanted.version
            /\ repository # "" => HasPrefix(image, repository)
          nllb == cfSeen.network.nllb
          wantedProxy == IF cfDoc.network = Nil \/ cfDoc.network.nllb = Nil THEN Nil
                         ELSE EffectiveProxy([cfDoc.network.nllb EXCEPT !.type = nllb.type])
      IN  /\ \A s \in ImageSlots : right(cfSeen.images.slots[s], asked(s))
          /\ right(EffectiveProxy(nllb).image, IF wantedProxy = Nil THEN Nil ELSE wantedProxy.image)

(* The service CIDRs have room for the addresses of the API server and of  *)
(* DNS.                                                                    *)
RoomForServices(n) ==
    HostBits(n.service) >= 2 /\ (n.dual.enabled => HostBits(n.dual.service) >= 2)

(* What a controller runs with fits together: the addresses of the API     *)
(* server and of DNS exist and differ if the service CIDRs have room for   *)
(* them (Validate does not see to that), the CIDRs of the primary family   *)
(* come first, virtual routers have IDs, a feature gate has one value, no  *)
(* profile sets what k0s sets, tokens for controllers are only made where  *)
(* the join API admits them and leaders are elected, and the files for     *)
(* etcd are those of the cluster that is used.                             *)
RunsConsistently ==
    cfPhase = "run" =>
      LET n == cfNode.network
          family == PrimaryAddressFamily(cfNode)
          dns == DNSAddress(n, family)
      IN  /\ family \in {"IPv4", "IPv6"}
          /\ RoomForServices(n) =>
                /\ dns # -1
                /\ \A i \in DOMAIN InternalAPIAddresses(n) : InternalAPIAddresses(n)[i] \notin {-1, dns}
          /\ n.dual.enabled =>
                \A cidrs \in {BuildServiceCIDR(n, family), BuildPodCIDR(n, family)} :
                  /\ cidrs[1].family = (IF family = "IPv4" THEN 4 ELSE 6)
                  /\ cidrs[2].family # cidrs[1].family
          /\ \A i \in DOMAIN n.instances : n.instances[i].id \in 1..255
          /\ \A i, j \in DOMAIN cfNode.gates : cfNode.gates[i].name = cfNode.gates[j].name => i = j
          /\ \A i \in DOMAIN cfNode.profiles : "clusterDNS" \notin cfNode.profiles[i].values
          /\ EffectiveProxy(n.nllb) # Nil
          /\ n.nllb.enabled => cfNode.api.external = ""
          /\ (n.provider = "calico") = (n.calico # Nil) \/ n.provider = "custom"
          /\ EnsureTokenCreationAcceptable("controller", cfSingle, cfNode.storage) =>
                IsJoinable(cfRuntime.storage) /\ ~SingleController(cfSingle, cfNode.storage)
          /\ cfNode.storage.type = "etcd" =>
                (ClientFiles(cfNode.storage.etcd) = "user's") =
                   (IsTLSEnabled(cfNode.storage.etcd) /\ cfNode.storage.etcd.external # Nil)

(* A configuration that passed Validate has addresses for DNS and for the  *)
(* API server.  Does not hold: a service CIDR of /31 or /32 passes, and    *)
(* DNSAddress fails for it whenever it is asked.                           *)
AddressesExist ==
    cfPhase = "run" => DNSAddress(cfNode.network, PrimaryAddressFamily(cfNode)) # -1

(* "In dynamic configuration mode, the first controller to start when the  *)
(* cluster is created uses the provided YAML as the bootstrap configuration *)
(* and stores it in the Kubernetes API. [...] After the initial cluster    *)
(* bootstrap, the configuration object in the Kubernetes API becomes the   *)
(* source of truth for all controllers" (docs/dynamic-configuration.md:16).*)
(* The object made from a valid configuration is not valid itself if the   *)
(* CIDRs are IPv6: that of the services is taken out, and its default is   *)
(* IPv4.                                                                   *)
ObjectIsAccepted ==
    cfObject # Nil => ValidateConfig(UnmarshalConfig(cfObject.spec, DefaultStorageSpec, cfVersion))

=============================================================================
