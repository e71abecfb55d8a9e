----------------------------- MODULE StaticPods -----------------------------
(***************************************************************************)
(* The static pods of a worker (pkg/component/worker/static_pods.go):      *)
(* components claim a pod, set, clear and drop its manifest, and the       *)
(* kubelet fetches the manifests of all of them over HTTP.                 *)
(*                                                                         *)
(* Every pod has a lock of its own, and the component has another.  No     *)
(* call holds both: it changes the pod, lets go of it, and then has the    *)
(* component generate its content anew, so that between these two steps    *)
(* other callers, and Stop, get their turn.  An action is what happens     *)
(* under one lock.                                                         *)
(***************************************************************************)
EXTENDS Naturals, FiniteSets

CONSTANTS
    Ids,          \* the IDs (namespace and name) of pods
    Callers,      \* the goroutines that use pods
    PodManifests, \* the manifests of pods
    NoManifest,
    MaxClaims     \* bound: how many pods are claimed

ASSUME StaticPodsAssumption ==
    /\ MaxClaims \in Nat
    /\ NoManifest \notin PodManifests
    /\ 0 \notin Ids

VARIABLES
    spLife,     \* lifecycle, 0 (uninitialized) to 5 (stopped)
    spCount,    \* how many pods have been claimed so far: they are numbered
    spPods,     \* the pods: ID, manifest, and whether their hooks are set
    spClaims,   \* claimedPods: the pod that has an ID, or 0
    spContent,  \* contentPtr: the manifest in it for an ID
    spCall,     \* what is left to do of a goroutine's call
    spServing,  \* the HTTP server is up
    spSeen      \* the manifests the kubelet has last fetched

spVars == <<spLife, spCount, spPods, spClaims, spContent, spCall, spServing, spSeen>>

SpInitialized == 1
SpStarted == 3
SpStopping == 4
SpStopped == 5

Pods == 1..MaxClaims
Unused == [id |-> 0, manifest |-> NoManifest, hooked |-> FALSE]
Idle == [do |-> "idle", pod |-> 0]

SpTypeOK ==
    /\ spLife \in {0, SpInitialized, SpStarted, SpStopping, SpStopped}
    /\ spCount \in 0..MaxClaims
    /\ spPods \in [Pods -> [id : Ids \cup {0}, manifest : PodManifests \cup {NoManifest}, hooked : BOOLEAN]]
    /\ spClaims \in [Ids -> 0..MaxClaims]
    /\ spContent \in [Ids -> PodManifests \cup {NoManifest}]
    /\ spCall \in [Callers -> [do : {"idle", "update", "drop"}, pod : 0..MaxClaims]]
    /\ spServing \in BOOLEAN
    /\ spSeen \in [Ids -> PodManifests \cup {NoManifest}]

SpInit ==
    /\ spLife = 0
    /\ spCount = 0
    /\ spPods = [p \in Pods |-> Unused]
    /\ spClaims = [i \in Ids |-> 0]
    /\ spContent = [i \in Ids |-> NoManifest]
    /\ spCall = [c \in Callers |-> Idle]
    /\ spServing = FALSE
    /\ spSeen = [i \in Ids |-> NoManifest]

(***************************************************************************)
(* The content for the given claims: the manifests of the claimed pods     *)
(* that have one.                                                          *)
(***************************************************************************)
GenerateContent(claims) ==
    [i \in Ids |-> IF claims[i] = 0 THEN NoManifest ELSE spPods[claims[i]].manifest]

ComponentInit ==
    /\ spLife = 0
    /\ spLife' = SpInitialized
    /\ UNCHANGED <<spCount, spPods, spClaims, spContent, spCall, spServing, spSeen>>

(***************************************************************************)
(* Start opens the port and fires up the server.  If it cannot, the        *)
(* component stays initialized.                                            *)
(***************************************************************************)
ComponentStart ==
    /\ spLife = SpInitialized
    /\ spLife' = SpStarted
    /\ spServing' = TRUE
    /\ UNCHANGED <<spCount, spPods, spClaims, spContent, spCall, spSeen>>

(***************************************************************************)
(* Pods may be claimed at any time, even before the start and after the    *)
(* stop.                                                                   *)
(***************************************************************************)
ClaimStaticPod(c, i) ==
    /\ spCall[c] = Idle
    /\ spClaims[i] = 0
    /\ spCount < MaxClaims
    /\ spCount' = spCount + 1
    /\ spPods' = [spPods EXCEPT ![spCount'] = [id |-> i, manifest |-> NoManifest, hooked |-> TRUE]]
    /\ spClaims' = [spClaims EXCEPT ![i] = spCount']
    /\ UNCHANGED <<spLife, spContent, spCall, spServing, spSeen>>

(***************************************************************************)
(* SetManifest fails if the pod was dropped.  A manifest that is not that  *)
(* of a pod with the claimed ID is refused before anything changes.        *)
(***************************************************************************)
SetManifest(c, p, m) ==
    /\ spCall[c] = Idle
    /\ p <= spCount
    /\ spPods[p].hooked
    /\ spPods' = [spPods EXCEPT ![p].manifest = m]
    /\ spCall' = [spCall EXCEPT ![c] = [do |-> "update", pod |-> p]]
    /\ UNCHANGED <<spLife, spCount, spClaims, spContent, spServing, spSeen>>

Clear(c, p) ==
    /\ spCall[c] = Idle
    /\ p <= spCount
    /\ spPods' = [spPods EXCEPT ![p].manifest = NoManifest]
    /\ spCall' = [spCall EXCEPT ![c] = IF spPods[p].hooked THEN [do |-> "update", pod |-> p] ELSE Idle]
    /\ UNCHANGED <<spLife, spCount, spClaims, spContent, spServing, spSeen>>

Drop(c, p) ==
    /\ spCall[c] = Idle
    /\ p <= spCount
    /\ spPods' = [spPods EXCEPT ![p].manifest = NoManifest, ![p].hooked = FALSE]
    /\ spCall' = [spCall EXCEPT ![c] = IF spPods[p].hooked THEN [do |-> "drop", pod |-> p] ELSE Idle]
    /\ UNCHANGED <<spLife, spCount, spClaims, spContent, spServing, spSeen>>

(***************************************************************************)
(* The rest of SetManifest and Clear: the content is generated anew,       *)
(* unless the component has been stopped in the meantime.                  *)
(***************************************************************************)
Update(c) ==
    /\ spCall[c].do = "update"
    /\ spCall' = [spCall EXCEPT ![c] = Idle]
    /\ spContent' = IF spLife > SpStarted THEN spContent ELSE GenerateContent(spClaims)
    /\ UNCHANGED <<spLife, spCount, spPods, spClaims, spServing, spSeen>>

(***************************************************************************)
(* Mutant of DropClaim: the content is left to the next update.            *)
(***************************************************************************)
DropClaimOnly(c) ==
    /\ spCall[c].do = "drop"
    /\ spCall' = [spCall EXCEPT ![c] = Idle]
    /\ spClaims' = IF spLife > SpStarted THEN spClaims
                   ELSE [spClaims EXCEPT ![spPods[spCall[c].pod].id] = 0]
    /\ UNCHANGED <<spLife, spCount, spPods, spContent, spServing, spSeen>>

(***************************************************************************)
(* The rest of Drop: the claim ends, whatever pod it is by then.           *)
(***************************************************************************)
DropClaim(c) ==
    /\ spCall[c].do = "drop"
    /\ spCall' = [spCall EXCEPT ![c] = Idle]
    /\ IF spLife > SpStarted
         THEN UNCHANGED <<spClaims, spContent>>
         ELSE /\ spClaims' = [spClaims EXCEPT ![spPods[spCall[c].pod].id] = 0]
              /\ spContent' = GenerateContent(spClaims')
    /\ UNCHANGED <<spLife, spCount, spPods, spServing, spSeen>>

(***************************************************************************)
(* The HTTP server may end on its own, and is started again after a while. *)
(***************************************************************************)
Serve ==
    /\ spLife = SpStarted
    /\ spServing' = ~spServing
    /\ UNCHANGED <<spLife, spCount, spPods, spClaims, spContent, spCall, spSeen>>

(***************************************************************************)
(* The kubelet fetches the manifests.                                      *)
(***************************************************************************)
HandleManifests ==
    /\ spServing
    /\ spSeen' = spContent
    /\ UNCHANGED <<spLife, spCount, spPods, spClaims, spContent, spCall, spServing>>

(***************************************************************************)
(* Stop swaps the claims out, even if it has been called before.  The pods *)
(* are unhooked by goroutines of their own, and the server is closed; Stop *)
(* waits for all of them.                                                  *)
(***************************************************************************)
StopSwap ==
    /\ spLife >= SpStarted
    /\ spLife' = IF spLife = SpStarted THEN SpStopping ELSE spLife
    /\ spClaims' = [i \in Ids |-> 0]
    /\ UNCHANGED <<spCount, spPods, spContent, spCall, spServing, spSeen>>

UnhookPod(p) ==
    /\ spLife > SpStarted
    /\ p <= spCount
    /\ spPods[p].hooked
    /\ \A i \in Ids : spClaims[i] # p
    /\ spPods' = [spPods EXCEPT ![p].manifest = NoManifest, ![p].hooked = FALSE]
    /\ UNCHANGED <<spLife, spCount, spClaims, spContent, spCall, spServing, spSeen>>

CloseServer ==
    /\ spLife = SpStopping
    /\ spServing
    /\ spServing' = FALSE
    /\ UNCHANGED <<spLife, spCount, spPods, spClaims, spContent, spCall, spSeen>>

StopDone ==
    /\ spLife = SpStopping
    /\ ~spServing
    /\ \A p \in Pods : spPods[p].hooked => \E i \in Ids : spClaims[i] = p
    /\ spLife' = SpStopped
    /\ spContent' = [i \in Ids |-> NoManifest]
    /\ UNCHANGED <<spCount, spPods, spClaims, spCall, spServing, spSeen>>

SpCalls(c) ==
    \/ \E i \in Ids : ClaimStaticPod(c, i)
    \/ \E p \in Pods : Clear(c, p) \/ Drop(c, p) \/ \E m \in PodManifests : SetManifest(c, p, m)

SpFinish(c) == Update(c) \/ DropClaim(c)

SpStop == StopSwap \/ (\E p \in Pods : UnhookPod(p)) \/ CloseServer \/ StopDone

SpNext ==
    \/ ComponentInit
    \/ ComponentStart
    \/ \E c \in Callers : SpCalls(c) \/ SpFinish(c)
    \/ Serve
    \/ HandleManifests
    \/ SpStop

SpSpec == SpInit /\ [][SpNext]_spVars

-----------------------------------------------------------------------------
(***************************************************************************)
(* The content is up to date (static_pods.go:256 regenerates it without    *)
(* the lock of the pod that was changed): as long as the component has not *)
(* been stopped, it has for every ID the manifest of the pod that has      *)
(* claimed it, unless a call for a pod with that ID has not finished yet.  *)
(* No order of two callers, and no claim before the start, leaves it       *)
(* stale.                                                                  *)
(***************************************************************************)
Touched(i) == \E c \in Callers : spCall[c] # Idle /\ spPods[spCall[c].pod].id = i

ContentIsCurrent ==
    spLife <= SpStarted =>
        \A i \in Ids : ~Touched(i) => spContent[i] = GenerateContent(spClaims)[i]

(***************************************************************************)
(* The component keeps the promises of PodRegistry: an ID has one claim at *)
(* a time, only claimed IDs are served, and nothing is served after Stop   *)
(* (static_pods.go:269 and :444).                                          *)
(***************************************************************************)
Registry == INSTANCE PodRegistry WITH
    phase <- CASE spLife = SpStopping -> "closing" [] spLife = SpStopped -> "closed" [] OTHER -> "open",
    claimed <- IF spLife > SpStarted THEN {} ELSE {i \in Ids : spClaims[i] # 0},
    served <- spContent

KeepsPromises == Registry!Spec
=============================================================================
