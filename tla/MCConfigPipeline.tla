--------------------------- MODULE MCConfigPipeline ---------------------------
(* Instances of ConfigPipeline for TLC. *)
EXTENDS ConfigPipeline

Base == [img |-> 1, raw |-> 0, provider |-> "kuberouter", proxy |-> TRUE, sane |-> TRUE, valid |-> TRUE]

\* A first configuration, one with different settings, one without kube-proxy and
\* with another provider, and one that is refused.  For kube-scheduler and
\* kube-controller-manager the second and the third differ in their rawArgs only.
MCContents ==
    {Base,
     [Base EXCEPT !.img = 2, !.raw = 1, !.sane = FALSE],
     [Base EXCEPT !.img = 2, !.provider = "calico", !.proxy = FALSE],
     [Base EXCEPT !.valid = FALSE]}

MCInitialContents == {Base}

\* Components that share no state are explored apart.
MCEnabledSets ==
    {{"windows-node", "kube-proxy"},
     {"windows-node", "calico", "kuberouter"},
     {"coredns"},
     {"metrics-server"},
     {"konnectivity-agent"},
     {"metrics", "kube-scheduler", "kube-controller-manager"}}

MCFaultSites == Components \cup {"initializer"}

=============================================================================
