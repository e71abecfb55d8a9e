----------------------------- MODULE PodRegistry -----------------------------
(***************************************************************************)
(* What the static pods component promises to those who claim pods and to  *)
(* the kubelet, without the locks, the callbacks and the goroutines of     *)
(* pkg/component/worker/static_pods.go (see StaticPods): an ID belongs to  *)
(* one claim at a time, a manifest is only served for an ID that is        *)
(* claimed, nothing new is served once the registry closes, and a closed   *)
(* registry serves nothing.                                                *)
(***************************************************************************)
CONSTANTS Ids, PodManifests, NoManifest

VARIABLES
    phase,      \* "open", "closing" or "closed"
    claimed,    \* the IDs that are claimed
    served      \* the manifest served for an ID, or NoManifest

vars == <<phase, claimed, served>>

Init ==
    /\ phase = "open"
    /\ claimed = {}
    /\ served = [i \in Ids |-> NoManifest]

Claim(i) ==
    /\ phase = "open"
    /\ i \notin claimed
    /\ claimed' = claimed \cup {i}
    /\ UNCHANGED <<phase, served>>

(***************************************************************************)
(* The registry publishes the manifests it was given, for claimed IDs.     *)
(***************************************************************************)
Publish ==
    /\ phase = "open"
    /\ served' \in [Ids -> PodManifests \cup {NoManifest}]
    /\ \A i \in Ids \ claimed : served'[i] = NoManifest
    /\ UNCHANGED <<phase, claimed>>

(***************************************************************************)
(* A claim ends, and with it the serving of its ID.  What the others have  *)
(* set may become visible at the same time.                                *)
(***************************************************************************)
Release(i) ==
    /\ phase = "open"
    /\ i \in claimed
    /\ claimed' = claimed \ {i}
    /\ served' \in [Ids -> PodManifests \cup {NoManifest}]
    /\ \A j \in Ids \ claimed' : served'[j] = NoManifest
    /\ UNCHANGED phase

(***************************************************************************)
(* Closing ends every claim; what was served stays until it has closed.    *)
(***************************************************************************)
Close ==
    /\ phase = "open"
    /\ phase' = "closing"
    /\ claimed' = {}
    /\ UNCHANGED served

Closed ==
    /\ phase = "closing"
    /\ phase' = "closed"
    /\ served' = [i \in Ids |-> NoManifest]
    /\ UNCHANGED claimed

Next ==
    \/ \E i \in Ids : Claim(i) \/ Release(i)
    \/ Publish
    \/ Close
    \/ Closed

Spec == Init /\ [][Next]_vars
=============================================================================
