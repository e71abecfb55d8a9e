---------------------------- MODULE MCClusterConfig ---------------------------
(***************************************************************************)
(* An instance of ClusterConfig for TLC: documents of several families,    *)
(* each varying what depends on each other.                                *)
(***************************************************************************)
EXTENDS ClusterConfig

\* What users write: images and a balancer with and without a repository, networks
\* of one and of two families, sizes of service networks, virtual routers, storages.
NoImages == [repository |-> "", pull |-> "", slots |-> [s \in ImageSlots |-> Nil]]
NoNetwork == [provider |-> "", pod |-> NoCIDR, service |-> NoCIDR, family |-> "", dual |-> NoDual,
              router |-> Nil, calico |-> Nil, nllb |-> Nil, proxy |-> Nil, instances |-> <<>>,
              servers |-> <<>>]
NoConfig == [images |-> Nil, network |-> Nil, api |-> Nil, storage |-> Nil, konnectivity |-> Nil,
             gates |-> <<>>, profiles |-> <<>>, charts |-> <<>>]
SomeImages == {Nil, [host |-> "", name |-> "", version |-> 1], [host |-> "", name |-> "", version |-> 7],
               [host |-> "my.host", name |-> "mine", version |-> 0]}
ImageDocuments ==
    {[NoConfig EXCEPT !.images = [repository |-> r, pull |-> "Always", slots |-> s]] :
        r \in {"", "my.repo", "quay"}, s \in [ImageSlots -> SomeImages]}
BalancerDocuments ==
    {[NoConfig EXCEPT !.images = [NoImages EXCEPT !.repository = r],
                      !.network = [NoNetwork EXCEPT !.nllb = [enabled |-> TRUE, type |-> t, envoy |-> e,
                                                              traefik |-> [image |-> Nil, port |-> 80]]],
                      !.api = [address |-> "", external |-> x, port |-> 0]] :
        r \in {"", "my.repo"}, t \in {"", "Traefik", "other"}, x \in {"", "v4"},
        e \in {Nil} \cup [image : SomeImages, port : {0, 80}]}
V6(ones) == [family |-> 6, ones |-> ones]
DualStackDocuments ==
    {[NoConfig EXCEPT !.network = [NoNetwork EXCEPT !.provider = p, !.calico = c, !.family = f, !.dual = d],
                      !.api = [address |-> "", external |-> x, port |-> 0]] :
        p \in {"", "calico", "custom"}, c \in {Nil, [mode |-> "bird", flexVolume |-> ""]},
        f \in {"", "IPv6", "IPv5"}, x \in {"", "v6", "name"},
        d \in {NoDual} \cup {[enabled |-> TRUE, pod |-> V6(64), service |-> V6(n)] : n \in {64, 108}}}
Router(id, peers) == [id |-> id, ips |-> {"vip"}, peers |-> peers, source |-> "me"]
AddressDocuments ==
    {[NoConfig EXCEPT !.network = [NoNetwork EXCEPT !.pod = p, !.service = s, !.instances = i, !.servers = t]] :
        p \in {NoCIDR, V6(64)}, s \in {NoCIDR, V6(108)} \cup {[family |-> 4, ones |-> n] : n \in 27..32},
        i \in {<<Router(0, {}), Router(0, {"peer"})>>, <<Router(255, {}), Router(0, {"me"})>>},
        t \in {<<>>, <<[algorithm |-> "", persistence |-> 0], [algorithm |-> "lc", persistence |-> 60]>>}}
StorageDocuments ==
    {[NoConfig EXCEPT !.storage = s] :
        s \in [type : {"", "kine", "other"}, kine : {"", "mysql", "nats"},
                etcd : {Nil} \cup [external : [endpoints : {{}, {"e"}}, prefix : {"p"},
                                              files : {{}, {"caFile"}, TLSFiles}]]]}
Gate(name, components) == [name |-> name, components |-> components]
Patch(type) == [type |-> type, kind |-> "DaemonSet", name |-> "kube-proxy"]
OtherDocuments ==
    {[NoConfig EXCEPT !.konnectivity = k, !.profiles = p, !.gates = g] :
        k \in {Nil, [admin |-> 0, agent |-> 1], [admin |-> 0, agent |-> 65536]},
        p \in {<<>>, <<[name |-> "custom", values |-> {"maxPods"}]>>, <<[name |-> "custom", values |-> {"clusterDNS"}]>>},
        g \in {<<>>, <<Gate("a", {}), Gate("b", {"kubelet"})>>, <<Gate("a", {"kubelet"}), Gate("a", {"kube-proxy"})>>}}
      \cup {[NoConfig EXCEPT !.charts = c, !.network = [NoNetwork EXCEPT !.proxy = p]] :
              c \in {<<>>, <<[name |-> "c", chart |-> "r/c", namespace |-> "n"]>>, <<[name |-> "c", chart |-> "r/c", namespace |-> ""]>>},
              p \in [disabled : BOOLEAN, mode : {"", "nft"}, patches : {{}, {Patch("JSON")}, {Patch("")}}]}
MCDocuments == {NoConfig} \cup ImageDocuments \cup BalancerDocuments \cup DualStackDocuments
                 \cup AddressDocuments \cup StorageDocuments \cup OtherDocuments

=============================================================================
