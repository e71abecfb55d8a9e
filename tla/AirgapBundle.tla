----------------------------- MODULE AirgapBundle -----------------------------
(***************************************************************************)
(* k0s airgap: the list of the images that an installation without network *)
(* needs (pkg/airgap/images.go), and the bundler that copies artifacts     *)
(* from their registries into an OCI layout archive                        *)
(* (pkg/airgap/ociartifactsbundler.go, cmd/airgap/bundleartifacts.go).     *)
(* Each artifact is a graph of descriptors; one goroutine per descriptor   *)
(* copies what it points to and then the descriptor itself.                *)
(*                                                                         *)
(* External: the registries, the tar file, and oras.Copy: it skips what    *)
(* the target has already, and pushes a descriptor after its successors.   *)
(***************************************************************************)
EXTENDS Naturals, Sequences, FiniteSets, FiniteSetsExt

CONSTANTS
    Descriptors,  \* digests
    Kind,         \* per descriptor: an "image", an "index" or a "blob"
    Match,        \* per descriptor: how well its platform matches: 0 not at all, NoPlatform if it has none
    Refers,       \* per descriptor: the one its annotation refers to, or itself
    Successors,   \* per descriptor: the ones it points to
    References,   \* the artifacts that may be asked for: [tag, digest] of which one may be missing
    Tags,         \* per tag: the descriptor that the registry resolves it to
    MaxBreakdowns \* bound: failing requests and writes

ASSUME BundleAssumption ==
    /\ \A d \in Descriptors : Successors[d] \subseteq Descriptors /\ Refers[d] \in Descriptors
    /\ \A r \in References : r.tag \in DOMAIN Tags \/ r.digest \in Descriptors

NoPlatform == 99
NoDigest == "no digest"
NoTag == "no tag"

VARIABLES
    abRefs,      \* the artifacts to bundle, in order
    abAt,        \* the one that is next or being copied
    abStrict,    \* RequireMatchingTags
    abTask,      \* per descriptor of the current artifact: "none", "check", "wait" or "done"
    abRoot,      \* the current artifact's root, or NoDigest
    abArchive,   \* the entries written to the temporary file: descriptors, and whether they verified
    abBlobs,     \* the digests that the writer has noted, in order
    abBroken,    \* the writer is broken
    abIndex,     \* the names in the index, with their descriptors
    abOutcome,   \* "running", "ok" or "failed"
    abTarget,    \* the output file: "old" or "new"
    abFailures

abVars == <<abRefs, abAt, abStrict, abTask, abRoot, abArchive, abBlobs, abBroken, abIndex, abOutcome, abTarget,
            abFailures>>
abGiven == <<abRefs, abStrict>>

-------------------------------------------------------------------------------
(* The list of images *)

Environments == [os : {"linux", "windows"}, arch : {"amd64", "arm"},
                 provider : {"kuberouter", "calico", "custom"},
                 nllb : {"off", "", "EnvoyProxy", "Traefik"}, scraper : BOOLEAN, all : BOOLEAN]

WantsNetworkProvider(env, provider) == env.provider = provider

(* Envoy is the default.                                                   *)
WantsNLLBBackend(env, backend) ==
    env.nllb # "off" /\ (IF env.nllb = "" THEN "EnvoyProxy" ELSE env.nllb) = backend

GetImageURIs(env) ==
    (IF env.os = "linux"
       THEN {"pause", "konnectivity", "kube-proxy", "coredns", "metrics-server"}
              \cup (IF env.all THEN {"pushgateway"} ELSE {})
       ELSE {"windows pause", "windows kube-proxy"})
      \cup (IF (env.all \/ WantsNetworkProvider(env, "kuberouter")) /\ env.os = "linux"
              THEN {"kube-router installer", "kube-router"} ELSE {})
      \cup (IF env.all \/ WantsNetworkProvider(env, "calico")
              THEN IF env.os = "linux" THEN {"calico cni", "calico controllers", "calico node"}
                   ELSE {"windows calico cni", "windows calico node"}
              ELSE {})
      \cup (IF (env.all \/ WantsNLLBBackend(env, "EnvoyProxy")) /\ env.os = "linux" /\ env.arch # "arm"
              THEN {"envoy"} ELSE {})
      \cup (IF env.all \/ WantsNLLBBackend(env, "Traefik") THEN {"traefik"} ELSE {})

(* The images that the components of a node ask for.                       *)
CalicoImages(os) ==
    IF os = "linux" THEN {"calico cni", "calico controllers", "calico node"}
    ELSE {"windows calico cni", "windows calico node"}

KubeRouterImages(os) == IF os = "linux" THEN {"kube-router installer", "kube-router"} ELSE {}

KubeProxyImages(os) == IF os = "linux" THEN {"kube-proxy"} ELSE {"windows kube-proxy"}

BalancerImages(nllb) ==
    CASE nllb \in {"", "EnvoyProxy"} -> {"envoy"}
      [] nllb = "Traefik" -> {"traefik"}
      [] OTHER -> {}

PauseImages(os) == IF os = "linux" THEN {"pause"} ELSE {"windows pause"}

(* Deployments that are only scheduled on Linux.                           *)
CoreDNSImages(os) == IF os = "linux" THEN {"coredns"} ELSE {}
MetricsServerImages(os) == IF os = "linux" THEN {"metrics-server"} ELSE {}
KonnectivityImages(os) == IF os = "linux" THEN {"konnectivity"} ELSE {}
ScraperImages(os) == IF os = "linux" THEN {"pushgateway"} ELSE {}

(* The controller's components, none of them disabled; the metrics scraper *)
(* only runs if it is asked for.                                           *)
NeededImages(env) ==
    PauseImages(env.os) \cup KubeProxyImages(env.os) \cup CoreDNSImages(env.os)
      \cup MetricsServerImages(env.os) \cup KonnectivityImages(env.os)
      \cup BalancerImages(env.nllb)
      \cup (CASE env.provider = "calico" -> CalicoImages(env.os)
              [] env.provider = "kuberouter" -> KubeRouterImages(env.os)
              [] OTHER -> {})
      \cup (IF env.scraper THEN ScraperImages(env.os) ELSE {})

-------------------------------------------------------------------------------
(* What of an artifact is copied *)

IsImage(d) == Kind[d] = "image"

(* The ones without a platform, and of the others the best one.            *)
RetainBestPlatformOnly(selected) ==
    LET with == {d \in selected : Match[d] # NoPlatform}
    IN  IF with = {} THEN selected
        ELSE (selected \ with) \cup {CHOOSE d \in with : \A e \in with : Match[e] <= Match[d]}

(* What does not match goes, but for descriptors that refer to one that    *)
(* stays; {} with images among the successors stands for the error.        *)
Selected(d) ==
    LET descs == Successors[d]
        selected == RetainBestPlatformOnly({e \in descs : Match[e] # 0})
    IN  selected \cup {e \in descs : Match[e] = 0 /\ Refers[e] # e /\ Refers[e] \in selected}

NoneMatches(d) ==
    LET selected == RetainBestPlatformOnly({e \in Successors[d] : Match[e] # 0})
    IN  (\E e \in Successors[d] : IsImage(e)) /\ ~ \E e \in selected : IsImage(e)

(* The names of an artifact: as it was given, by its tag, by its digest.   *)
TargetRefNamesFor(ref) ==
    {ref, [ref EXCEPT !.digest = NoDigest], [ref EXCEPT !.tag = NoTag]} \ {[tag |-> NoTag, digest |-> NoDigest]}

(* An image that is a root has to match itself.                            *)
MapRoot(root) == ~(IsImage(root) /\ Match[root] = 0)

(* The digest is authoritative, a tag given with it is only compared.      *)
SourceOf(ref) == IF ref.digest # NoDigest THEN ref.digest ELSE Tags[ref.tag]

TagMoved(ref) == ref.digest # NoDigest /\ ref.tag # NoTag /\ Tags[ref.tag] # ref.digest

-------------------------------------------------------------------------------
BundleFails ==
    /\ abOutcome' = "failed"
    /\ UNCHANGED <<abGiven, abAt, abTask, abRoot, abIndex, abTarget>>

Failure == abFailures < MaxBreakdowns /\ abFailures' = abFailures + 1
NoFailure == UNCHANGED abFailures

(* The next artifact; its copying starts at the root.                      *)
CopyArtifact ==
    /\ abOutcome = "running" /\ abRoot = NoDigest /\ abAt <= Len(abRefs)
    /\ LET ref == abRefs[abAt]
           refused == (TagMoved(ref) /\ abStrict) \/ ~MapRoot(SourceOf(ref))
       IN  \/ /\ ~refused
              /\ abRoot' = SourceOf(ref)
              /\ abTask' = [abTask EXCEPT ![SourceOf(ref)] = "check"]
              /\ NoFailure /\ UNCHANGED <<abGiven, abAt, abIndex, abOutcome, abTarget>>
           \/ refused /\ NoFailure /\ BundleFails
           \/ Failure /\ BundleFails
    /\ UNCHANGED <<abArchive, abBlobs, abBroken>>

(* The archive, for as long as its writer is not broken.                   *)
Exists(d) == ~abBroken /\ d \in Range(abBlobs)

(* A goroutine of oras: what exists is done with; otherwise the successors *)
(* come first.                                                             *)
CheckExists(d) ==
    /\ abOutcome = "running" /\ abTask[d] = "check"
    /\ \/ /\ Exists(d)
          /\ abTask' = [abTask EXCEPT ![d] = "done"]
          /\ NoFailure /\ UNCHANGED <<abGiven, abAt, abRoot, abIndex, abOutcome, abTarget>>
       \/ /\ ~abBroken /\ ~Exists(d) /\ ~NoneMatches(d)
          /\ abTask' = [e \in Descriptors |->
                          CASE e = d -> "wait"
                            [] e \in Selected(d) /\ abTask[e] = "none" -> "check"
                            [] OTHER -> abTask[e]]
          /\ NoFailure /\ UNCHANGED <<abGiven, abAt, abRoot, abIndex, abOutcome, abTarget>>
       \/ (abBroken \/ NoneMatches(d)) /\ NoFailure /\ BundleFails
       \/ Failure /\ BundleFails
    /\ UNCHANGED <<abArchive, abBlobs, abBroken>>

(* A writer that had an error is not used again: what it wrote last is in  *)
(* the archive already.                                                    *)
DoSynchronized(failed) == abBroken' = (abBroken \/ failed)

(* A digest that is there is not written again; the content is verified    *)
(* while it is written, and noted only if it is right.                     *)
Push(d, failed) ==
    /\ IF Exists(d) THEN UNCHANGED <<abArchive, abBlobs>>
       ELSE /\ abArchive' = Append(abArchive, [digest |-> d, verified |-> ~failed])
            /\ abBlobs' = IF failed THEN abBlobs ELSE Append(abBlobs, d)
    /\ DoSynchronized(failed)

(* A goroutine whose successors are done pushes its descriptor.  An error  *)
(* of the writer ends the bundling.                                        *)
PushBlob(d) ==
    /\ abOutcome = "running" /\ abTask[d] = "wait" /\ ~abBroken
    /\ \A e \in Selected(d) : abTask[e] = "done"
    /\ \E failed \in BOOLEAN :
         /\ Push(d, failed)
         /\ IF failed THEN Failure ELSE NoFailure
         /\ IF abBroken' THEN BundleFails
            ELSE /\ abTask' = [abTask EXCEPT ![d] = "done"]
                 /\ UNCHANGED <<abGiven, abAt, abRoot, abIndex, abOutcome, abTarget>>

ManifestsForRef(ref, root) == {[name |-> n, root |-> root] : n \in TargetRefNamesFor(ref)}

(* Tag stores nothing, it only looks for the root.                         *)
TagRoot == Exists(abRoot)

ArtifactCopied ==
    /\ abOutcome = "running" /\ abRoot # NoDigest /\ abTask[abRoot] = "done" /\ TagRoot
    /\ abIndex' = abIndex \cup ManifestsForRef(abRefs[abAt], abRoot)
    /\ abAt' = abAt + 1
    /\ abRoot' = NoDigest
    /\ abTask' = [d \in Descriptors |-> "none"]
    /\ UNCHANGED <<abGiven, abArchive, abBlobs, abBroken, abOutcome, abTarget, abFailures>>

(* The index and the layout file are written; the temporary file takes the *)
(* place of the output file only if all has gone well.                     *)
FinishBundle ==
    /\ abOutcome = "running" /\ abRoot = NoDigest /\ abAt > Len(abRefs)
    /\ \/ /\ abOutcome' = "ok" /\ abTarget' = "new"
          /\ NoFailure /\ UNCHANGED <<abGiven, abAt, abTask, abRoot, abIndex>>
       \/ Failure /\ BundleFails
    /\ UNCHANGED <<abArchive, abBlobs, abBroken>>

(* Names that cannot be parsed end the command before it begins.           *)
ParsedRefs == UNION {[1..n -> References] : n \in 0..2}

AbInit ==
    /\ abRefs \in ParsedRefs
    /\ abAt = 1
    /\ abStrict \in BOOLEAN
    /\ abTask = [d \in Descriptors |-> "none"]
    /\ abRoot = NoDigest
    /\ abArchive = <<>> /\ abBlobs = <<>>
    /\ abBroken = FALSE
    /\ abIndex = {}
    /\ abOutcome = "running"
    /\ abTarget = "old"
    /\ abFailures = 0

\* Every variable has its type; only what was written is known as a blob.
AbTypeOK ==
    /\ abAt \in 1..(Len(abRefs) + 1) /\ abStrict \in BOOLEAN /\ abBroken \in BOOLEAN
    /\ abTask \in [Descriptors -> {"none", "check", "wait", "done"}]
    /\ abRoot \in Descriptors \cup {NoDigest}
    /\ Range(abBlobs) \subseteq {b.digest : b \in Range(abArchive)}
    /\ {b.digest : b \in Range(abArchive)} \subseteq Descriptors
    /\ \A m \in abIndex : m.root \in Descriptors
    /\ abOutcome \in {"running", "ok", "failed"} /\ abTarget \in {"old", "new"}
    /\ abFailures \in 0..MaxBreakdowns

AbNext ==
    \/ CopyArtifact \/ ArtifactCopied \/ FinishBundle
    \/ \E d \in Descriptors : CheckExists(d) \/ PushBlob(d)

AbSpec == AbInit /\ [][AbNext]_abVars /\ WF_abVars(AbNext)

-------------------------------------------------------------------------------
(* What a node of the platform needs of a descriptor is there: all that it *)
(* points to, where of the ones with a platform the best that matches will *)
(* do, and if there are images, one of those.                              *)
Sufficient(d, stored) ==
    /\ \A e \in Successors[d] :
         \/ e \in stored
         \/ Match[e] = 0
         \/ Match[e] # NoPlatform /\ \E f \in stored \cap Successors[d] :
                                        Match[f] # NoPlatform /\ Match[f] >= Match[e]
    /\ (\E e \in Successors[d] : IsImage(e)) => \E e \in Successors[d] \cap stored : IsImage(e) /\ Match[e] # 0

(* A bundle that replaces the output file is whole: every artifact asked   *)
(* for is in the index, and with it, once and verified, all that a node of *)
(* the platform needs of it, whichever artifacts share content, and in     *)
(* whatever order the goroutines got to it.                                *)
BundleIsComplete ==
    abTarget = "new" =>
      LET stored == {abArchive[i].digest : i \in DOMAIN abArchive}
      IN  /\ Cardinality(stored) = Len(abArchive)
          /\ \A i \in DOMAIN abArchive : abArchive[i].verified
          /\ \A d \in stored : Sufficient(d, stored)
          /\ \A i \in DOMAIN abRefs : \A n \in TargetRefNamesFor(abRefs[i]) :
               \E e \in abIndex : /\ e.name = n
                                   /\ e.root \in stored
                                   /\ abRefs[i].digest \in {NoDigest, e.root}

(* The images that are listed are all that the components of a node use,   *)
(* where there is an image at all: Envoy has none for arm and Windows; and *)
(* except for the metrics scraper's, unless all images are asked for.      *)
ListSuffices ==
    \A env \in Environments :
      LET unavailable == IF env.os = "windows" \/ env.arch = "arm" THEN {"envoy"} ELSE {}
          optional == IF env.all THEN {} ELSE ScraperImages(env.os)
      IN  NeededImages(env) \ (unavailable \cup optional) \subseteq GetImageURIs(env)

(* Without the exception of the scraper.  Does not hold: its image is not  *)
(* listed by default, although the list is made from the configuration of  *)
(* a cluster whose controllers may run the scraper.                        *)
ListSufficesForScraper ==
    \A env \in Environments : env.scraper => ScraperImages(env.os) \subseteq GetImageURIs(env)

=============================================================================
