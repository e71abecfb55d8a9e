----------------------------- MODULE MCOperations -----------------------------
(***************************************************************************)
(* Instances for TLC of what is done to running nodes and carried to them: *)
(* automatic updates, airgap updates and bundles, the autopilot's own      *)
(* processes, the commands of the operator, watches and proxied            *)
(* connections.  Their models share no state, so one run takes them in     *)
(* turn: "part" says which of them moves, the others rest in an initial    *)
(* state.                                                                  *)
(***************************************************************************)
EXTENDS AirgapSignal, AirgapBundle, AutoUpdates, AutopilotRoot, HostOperations,
        Watcher, TcpProxy

VARIABLE part

\* A periodic strategy with a window, and the cron strategy with both commands.
MCSpecs ==
    {[strategy |-> "periodic", window |-> [days |-> {0}, start |-> 0, length |-> 3], commands |-> {}],
     [strategy |-> "cron", window |-> [days |-> {}, start |-> 0, length |-> 0],
      commands |-> {"k0supdate", "airgapupdate"}]}

\* One controller whose config is new and edited; and two with an old config.
MCSetups == {[hosts |-> {"c1"}, finalizer |-> FALSE, edits |-> 1, misses |-> 1],
             [hosts |-> Hosts, finalizer |-> TRUE, edits |-> 0, misses |-> 1]}

\* Nothing mounted, and volumes of two pods, one over the other, on a kubelet
\* directory with a volume of its own; and one below the run directory.
MCTables == {<<>>, << <<"data", "d">>, <<"kubelet", "k">>, <<"pods", "v1">>, <<"pods", "v2">> >>,
             << <<"pods", "v1">>, <<"run", "r">> >>}

\* An index of two images, one of them the better match, with an attestation
\* of that one; they share a layer.  Another index has no image that matches.
MCDescriptors == {"index", "v1", "v2", "attestation", "layer", "config", "foreign"}
MCKind == [d \in MCDescriptors |->
             CASE d \in {"index", "foreign"} -> "index"
               [] d \in {"v1", "v2", "attestation"} -> "image"
               [] OTHER -> "blob"]
MCMatch == [d \in MCDescriptors |->
              CASE d = "v1" -> 1 [] d = "v2" -> 2 [] d = "attestation" -> 0 [] OTHER -> NoPlatform]
MCRefers == [d \in MCDescriptors |-> IF d = "attestation" THEN "v2" ELSE d]
MCSuccessors == [d \in MCDescriptors |->
                   CASE d = "index" -> {"v1", "v2", "attestation"}
                     [] d = "foreign" -> {"attestation"}
                     [] d = "v2" -> {"layer", "config"}
                     [] d \in {"v1", "attestation"} -> {"layer"}
                     [] OTHER -> {}]
MCTags == [t \in {"latest", "moved"} |-> IF t = "latest" THEN "index" ELSE "v1"]
MCReferences == {[tag |-> "latest", digest |-> NoDigest], [tag |-> "moved", digest |-> "v2"]}
                  \cup {[tag |-> NoTag, digest |-> d] : d \in {"v1", "attestation", "foreign"}}

\* One of the connections carries data.
MCSent == [c \in Conns |-> IF c = CHOOSE k \in Conns : TRUE THEN 1 ELSE 0]

-------------------------------------------------------------------------------
operationsVars == <<part, agVars, abVars, auVars, roVars, hoVars, waVars, tpVars>>

OperationsInit ==
    /\ part \in {"airgap", "bundle", "updates", "root", "host", "watcher", "proxy"}
    /\ AgInit /\ AbInit /\ AuInit /\ RoInit /\ HoInit /\ WaInit /\ TpInit
    /\ part = "bundle" \/ (abRefs = <<[tag |-> "latest", digest |-> NoDigest]>> /\ abStrict)
    /\ part = "updates" \/ (auConfig.spec = (CHOOSE s \in Specs : TRUE)
                              /\ auSetup = CHOOSE s \in Setups : TRUE)
    /\ part = "root" \/ (roRole = "prober" /\ ~roCRD)
    /\ part = "host" \/ (hoSetup.storage = "etcd" /\ ~hoSetup.separate)
    /\ part = "watcher" \/ waCallback = "none"

OperationsNext ==
    \/ part = "airgap" /\ AgNext /\ UNCHANGED <<part, abVars, auVars, roVars, hoVars, waVars, tpVars>>
    \/ part = "bundle" /\ AbNext /\ UNCHANGED <<part, agVars, auVars, roVars, hoVars, waVars, tpVars>>
    \/ part = "updates" /\ AuNext /\ UNCHANGED <<part, agVars, abVars, roVars, hoVars, waVars, tpVars>>
    \/ part = "root" /\ RoNext /\ UNCHANGED <<part, agVars, abVars, auVars, hoVars, waVars, tpVars>>
    \/ part = "host" /\ HoNext /\ UNCHANGED <<part, agVars, abVars, auVars, roVars, waVars, tpVars>>
    \/ part = "watcher" /\ WaNext /\ UNCHANGED <<part, agVars, abVars, auVars, roVars, hoVars, tpVars>>
    \/ part = "proxy" /\ TpNext /\ UNCHANGED <<part, agVars, abVars, auVars, roVars, hoVars, waVars>>

\* The fairness of each component, for the one that moves.
OperationsSpec ==
    /\ OperationsInit /\ [][OperationsNext]_operationsVars
    /\ WF_agVars(part = "airgap" /\ CacheFollows)
    /\ WF_agVars(part = "airgap" /\ AgSignalController)
    /\ WF_agVars(part = "airgap" /\ AgDownloadController)
    /\ WF_auVars(part = "updates" /\ AuPlanRuns)
    /\ \A h \in Hosts : /\ WF_auVars(part = "updates" /\ AuReconcile(h))
                        /\ \A s \in Slots : WF_auVars(part = "updates" /\ AuUpdater(h, s))
    /\ WF_roVars(part = "root" /\ RoRun)
    /\ WF_roVars(part = "root" /\ RoManager)
    /\ WF_roVars(part = "root" /\ roRole # "prober" /\ ClusterComesUp)
    /\ WF_roVars(part = "root" /\ \E target \in Targets : ProbeOne(target))
    /\ WF_waVars(part = "watcher" /\ WaSteps)
    /\ \A c \in Conns : WF_tpVars(part = "proxy" /\ TpServes(c))

-------------------------------------------------------------------------------
\* Every variable of every component has its type.
OperationsTypeOK == AgTypeOK /\ AbTypeOK /\ AuTypeOK /\ RoTypeOK /\ HoTypeOK /\ WaTypeOK /\ TpTypeOK

\* What autopilot decides and installs can be relied on: only whole bundles of
\* the right request are reported as Completed, as long as no power loss takes
\* back a renamed file (airgap, atomic.go), and the verdict of the readiness
\* probes is the worst of them (readyprober.go).
AutopilotIsSound == BundleIsWhole /\ ProbeVerdictIsWorst

\* A reset spares the volumes that are still mounted, but for those below the
\* run directory, and when it reports no error everything is gone, but for a
\* service of the controller whose failure was swallowed (pkg/cleanup).
ResetIsCareful == ResetSparesVolumes /\ ResetMeansGone

\* What is packed up, followed or passed on arrives whole: a restored node has
\* what was archived (pkg/backup), a bundle of artifacts has all that a node of
\* its platform needs (ociartifactsbundler.go), the list of images all that the
\* components use, but for the metrics scraper (images.go), a watch misses no
\* change (watcher.go), and a proxied connection is closed only when its ends
\* have got everything (tcpproxy.go).
NothingIsLost ==
    /\ OperationsTypeOK
    /\ RestoredAsArchived /\ BundleIsComplete /\ ListSuffices /\ NothingIsMissed /\ NoneIsCutShort

\* What has been begun comes to its end: airgap requests (airgap/signal.go), the
\* root controller's manager, which follows the lease (root_controller.go), the
\* root worker's attempts, which end with a manager unless one of them failed
\* after it had registered controllers (root_worker.go), a watch, which gets to
\* the newest version (watcher.go), and connections whose ends have both finished
\* (tcpproxy.go).
OperationsSettle ==
    /\ AirgapRequestsEnd
    /\ RootSettles
    /\ []WatchGoesOn /\ <>[](part = "watcher" => WatchIsCurrent)
    /\ ConnectionsEnd

=============================================================================
