----------------------------- MODULE ClusterUpkeep -----------------------------
(***************************************************************************)
(* What controllers do for the cluster on a timer, next to the stacks and   *)
(* the Helm charts (pkg/component/controller, pkg/k0scloudprovider,         *)
(* pkg/telemetry):                                                          *)
(*                                                                         *)
(*   csr        approve the kubelets' serving certificates, for addresses   *)
(*              that the cloud provider collects (csrapprover.go)           *)
(*   endpoints  keep the kubernetes Endpoints at the external address       *)
(*              (apiendpointreconciler.go)                                  *)
(*   roles      turn the k0s role label into a node-role label (noderole.go)*)
(*   stack      apply the CRDs and autopilot's stack (crd.go, autopilot.go) *)
(*   probe      look for a newer release (updateprober.go)                  *)
(*   telemetry  send a heartbeat if enabled (pkg/telemetry)                 *)
(*                                                                         *)
(* Several controllers do this at once; most only while they believe to     *)
(* lead, a belief they look at once per round.  The duties touch disjoint   *)
(* objects, so a behaviour is about one of them, upDuty.  What is lost with *)
(* a failed request is retried by the next round: failures are hitches.     *)
(***************************************************************************)
EXTENDS Naturals, FiniteSets, Sequences, FiniteSetsExt

CONSTANTS Controllers,  \* the controllers
          Duties,       \* the duties to look at
          IPs,          \* addresses
          MaxTurns,     \* moves of the lead
          MaxShifts,    \* changes of the world, for each duty
          MaxErrors     \* failed requests

VARIABLES upDuty,   \* the duty this behaviour is about
          upLead,   \* the controller that leads, or Nobody
          upRound,  \* [c \in Controllers]: the round it is in the middle of
          upWorld,  \* the objects in the API, and what is outside of it
          upLeft    \* what is left of the bounds

upVars == <<upDuty, upLead, upRound, upWorld, upLeft>>

NoOne == "nobody"
Idle == [at |-> "idle"]

At(c, where) == upRound[c].at = where
Goes(c, round) == upRound' = [upRound EXCEPT ![c] = round]
Settles(c) == Goes(c, Idle)

Error == upLeft.errors > 0 /\ upLeft' = [upLeft EXCEPT !.errors = @ - 1]
NoError == UNCHANGED upLeft

(* ----- serving certificates --------------------------------------------- *)

\* The internal address: the one given with --node-ip, or else those that the
\* node's status has.
PopulateInternalAddress(node) ==
    IF node.provided # {} THEN node.provided ELSE node.status \cap node.own

\* The external addresses: what the annotation says.
PopulateExternalAddress(node) == node.annotated

\* The cloud node controller writes what the address collector found (external:
\* k8s.io/cloud-provider).
UpdateNodeAddress ==
    /\ upDuty = "csr"
    /\ LET node == upWorld.node
           found == PopulateInternalAddress(node) \cup PopulateExternalAddress(node)
       IN found # node.status /\ upWorld' = [upWorld EXCEPT !.node.status = found]
    /\ UNCHANGED <<upDuty, upLead, upRound, upLeft>>

\* The kubelet asks for a certificate when its last request was not for the
\* addresses of its status; it gives up on that one then (external: the kubelet).
\* In "checked", a history variable, a request remembers what the node reported
\* when the approver looked at it.
KubeletRequests ==
    /\ upDuty = "csr"
    /\ LET csrs == upWorld.csrs
           status == upWorld.node.status
           own == {i \in 1 .. Len(csrs) : csrs[i].fine}
       IN /\ own # {} => csrs[Max(own)].sans # status
          /\ upWorld' = [upWorld EXCEPT !.csrs =
               Append(@, [sans |-> status, approved |-> FALSE, fine |-> TRUE, checked |-> {}])]
    /\ UNCHANGED <<upDuty, upLead, upRound, upLeft>>

\* Something else asks in the node's name: a request of the wrong shape, for
\* another subject, for reserved names, or by someone who may not ask.
OtherRequests ==
    /\ upDuty = "csr" /\ upLeft.shifts > 0
    /\ upWorld' = [upWorld EXCEPT !.csrs =
         Append(@, [sans |-> upWorld.node.status, approved |-> FALSE, fine |-> FALSE, checked |-> {}])]
    /\ upLeft' = [upLeft EXCEPT !.shifts = @ - 1]
    /\ UNCHANGED <<upDuty, upLead, upRound>>

\* A plausible mistake: the oldest request of each user is kept.
FetchOldestCSRs ==
    LET pending(fine) == {i \in 1 .. Len(upWorld.csrs) :
                            ~upWorld.csrs[i].approved /\ upWorld.csrs[i].fine = fine}
    IN UNION {IF pending(fine) = {} THEN {} ELSE {Min(pending(fine))} : fine \in BOOLEAN}

\* Pending requests are looked at newest first: only the newest of each user.
\* The kubelet and the other requester are different users.
FetchPendingCSRs ==
    LET pending(fine) == {i \in 1 .. Len(upWorld.csrs) :
                            ~upWorld.csrs[i].approved /\ upWorld.csrs[i].fine = fine}
    IN UNION {IF pending(fine) = {} THEN {} ELSE {Max(pending(fine))} : fine \in BOOLEAN}

\* A round of approveCSR begins: the leader lists the requests, or fails to.
ApproveCSR(c) ==
    /\ upDuty = "csr" /\ At(c, "idle") /\ upLead = c
    /\ \/ NoError /\ Goes(c, [at |-> "csrs", todo |-> FetchPendingCSRs])
       \/ Error /\ Settles(c)
    /\ UNCHANGED <<upDuty, upLead, upWorld>>

\* validateKubeletServingCSR, verifyNodeIdentity, denyInClusterSANs: what can be
\* seen from the request alone.
ValidateKubeletServingCSR(csr) == csr.fine

\* verifyNode: only names and addresses that the node reports right now.
VerifyNode(csr) == csr.sans \subseteq upWorld.node.status

\* The next request is checked: it passes, is not recognized, or the access
\* review or the look at the node fails.
AuthorizeKubeletServingCSR(c) ==
    /\ At(c, "csrs") /\ upRound[c].todo # {}
    /\ \E i \in upRound[c].todo :
         LET rest == [upRound[c] EXCEPT !.todo = @ \ {i}]
             csr == upWorld.csrs[i]
         IN \/ /\ ValidateKubeletServingCSR(csr) /\ VerifyNode(csr)
               /\ NoError /\ Goes(c, [at |-> "approval", todo |-> rest.todo, csr |-> i, status |-> upWorld.node.status])
            \/ /\ ~(ValidateKubeletServingCSR(csr) /\ VerifyNode(csr))
               /\ NoError /\ Goes(c, rest)
            \/ ValidateKubeletServingCSR(csr) /\ Error /\ Goes(c, rest)
    /\ UNCHANGED <<upDuty, upLead, upWorld>>

\* UpdateApproval: refused when the request has changed since it was listed,
\* which here means that someone else has approved it.
UpdateApproval(c) ==
    /\ At(c, "approval")
    /\ LET rest == [at |-> "csrs", todo |-> upRound[c].todo]
           i == upRound[c].csr
       IN /\ Goes(c, rest)
          /\ \/ NoError /\ upWorld' = [upWorld EXCEPT !.csrs[i].approved = TRUE,
                                                    !.csrs[i].checked = upRound[c].status]
             \/ Error /\ UNCHANGED upWorld
    /\ UNCHANGED <<upDuty, upLead>>

CSRRoundEnds(c) ==
    /\ At(c, "csrs") /\ upRound[c].todo = {}
    /\ Settles(c)
    /\ UNCHANGED <<upDuty, upLead, upWorld, upLeft>>

\* The node gets another address, or another annotation.
NodeShifts ==
    /\ upDuty = "csr" /\ upLeft.shifts > 0
    /\ LET node == upWorld.node
       IN \/ \E ip \in IPs : upWorld' = [upWorld EXCEPT !.node.own = {ip},
                                            !.node.status = (@ \ node.own) \cup {ip}]
          \/ \E a \in IPs : upWorld' = [upWorld EXCEPT !.node.annotated = {a} \ node.annotated]
    /\ upLeft' = [upLeft EXCEPT !.shifts = @ - 1]
    /\ UNCHANGED <<upDuty, upLead, upRound>>

(* ----- endpoints --------------------------------------------------------- *)

\* A round of reconcileEndpoints begins: the leader resolves the external address.
ResolveAddress(c) ==
    /\ upDuty = "endpoints" /\ At(c, "idle") /\ upLead = c
    /\ \/ NoError /\ Goes(c, [at |-> "resolved", ips |-> upWorld.dns])
       \/ Error /\ Settles(c)
    /\ UNCHANGED <<upDuty, upLead, upWorld>>

\* The Endpoints are looked at: they are missing, differ, or are as they should.
GetEndpoints(c) ==
    /\ At(c, "resolved")
    /\ LET ep == upWorld.endpoints
       IN \/ /\ NoError
             /\ IF ep.version # 0 /\ ep.ips = upRound[c].ips THEN Settles(c)
                ELSE Goes(c, [at |-> "writing", ips |-> upRound[c].ips, version |-> ep.version])
          \/ Error /\ Settles(c)
    /\ UNCHANGED <<upDuty, upLead, upWorld>>

\* createEndpoint or Update: refused when someone else was faster.
WriteEndpoints(c) ==
    /\ At(c, "writing")
    /\ Settles(c)
    /\ \/ /\ NoError
          /\ IF upRound[c].version = upWorld.endpoints.version
             THEN upWorld' = [upWorld EXCEPT !.endpoints =
                                [ips |-> upRound[c].ips, version |-> @.version + 1]]
             ELSE UNCHANGED upWorld
       \/ Error /\ UNCHANGED upWorld
    /\ UNCHANGED <<upDuty, upLead>>

\* The name resolves to something else, or somebody deletes or edits the object.
EndpointsShift ==
    /\ upDuty = "endpoints" /\ upLeft.shifts > 0
    /\ \/ \E ips \in (SUBSET IPs) \ {{}, upWorld.dns} : upWorld' = [upWorld EXCEPT !.dns = ips]
       \/ /\ upWorld.endpoints.version # 0
          /\ upWorld' = [upWorld EXCEPT !.endpoints.ips = {}, !.endpoints.version = @ + 1]
    /\ upLeft' = [upLeft EXCEPT !.shifts = @ - 1]
    /\ UNCHANGED <<upDuty, upLead, upRound>>

(* ----- node roles --------------------------------------------------------- *)

\* Every minute, every controller lists the nodes.
ListNodes(c) ==
    /\ upDuty = "roles" /\ At(c, "idle")
    /\ \/ NoError /\ Goes(c, [at |-> "labels", seen |-> upWorld.labels])
       \/ Error /\ Settles(c)
    /\ UNCHANGED <<upDuty, upLead, upWorld>>

\* ensureNodeLabel: a node that had no role label gets the one that the k0s label
\* asks for; one that is gone meanwhile gets nothing.
EnsureNodeLabel(c) ==
    /\ At(c, "labels")
    /\ Settles(c)
    /\ LET seen == upRound[c].seen
           needed == "k0s-role" \in seen /\ "role" \notin seen
       IN \/ NoError /\ upWorld' = [upWorld EXCEPT !.labels = IF needed THEN @ \cup {"role"} ELSE @]
          \/ needed /\ Error /\ UNCHANGED upWorld
    /\ UNCHANGED <<upDuty, upLead>>

\* The kubelet's or the user's labels.
LabelsShift ==
    /\ upDuty = "roles" /\ upLeft.shifts > 0
    /\ \E l \in SUBSET {"k0s-role", "role"} \ {upWorld.labels} :
         upWorld' = [upWorld EXCEPT !.labels = l]
    /\ upLeft' = [upLeft EXCEPT !.shifts = @ - 1]
    /\ UNCHANGED <<upDuty, upLead, upRound>>

(* ----- stacks of CRDs and of autopilot ------------------------------------- *)

\* A leader task: while the lead is held, the stack is applied until that
\* succeeds once; after an error it waits 30 seconds.
ApplyManifests(c) ==
    /\ upDuty = "stack" /\ At(c, "task")
    /\ \/ /\ NoError /\ Goes(c, [at |-> "done"])
          /\ upWorld' = [upWorld EXCEPT !.stack = TRUE]
       \/ Error /\ UNCHANGED <<upRound, upWorld>>
    /\ UNCHANGED <<upDuty, upLead>>

\* RunLeaderTasks starts the task with the lead and cancels it when it is lost.
StackTask(c) ==
    /\ upDuty = "stack"
    /\ \/ upLead = c /\ At(c, "idle") /\ Goes(c, [at |-> "task"])
       \/ upLead # c /\ ~At(c, "idle") /\ Settles(c)
    /\ UNCHANGED <<upDuty, upLead, upWorld, upLeft>>

(* ----- newer releases ------------------------------------------------------ *)

\* checkUpdates: that a controller does not lead is logged and nothing more.
\* With an UpdateConfig in the cluster there is nothing to do; otherwise an event
\* announces a newer version.
CheckUpdates(c) ==
    /\ upDuty = "probe" /\ At(c, "idle")
    /\ \/ /\ NoError
          /\ IF upWorld.updateConfig THEN UNCHANGED upWorld
             ELSE upWorld' = [upWorld EXCEPT !.events = @ \cup {[by |-> c, led |-> upLead = c]}]
       \/ Error /\ UNCHANGED upWorld
    /\ UNCHANGED <<upDuty, upLead, upRound>>

UpdateConfigShifts ==
    /\ upDuty = "probe" /\ upLeft.shifts > 0
    /\ upWorld' = [upWorld EXCEPT !.updateConfig = ~@]
    /\ upLeft' = [upLeft EXCEPT !.shifts = @ - 1]
    /\ UNCHANGED <<upDuty, upLead, upRound>>

(* ----- telemetry ------------------------------------------------------------ *)

\* The collecting goroutine: collects, sends, and waits ten minutes, unless it is
\* cancelled; it only notices between two heartbeats or at a failing request.
Heartbeat(c) ==
    /\ upDuty = "telemetry"
    /\ LET t == upWorld.telemetry[c]
           beats(x) == upWorld' = [upWorld EXCEPT !.telemetry[c].beat = x]
       IN \/ t.beat = "waiting" /\ ~t.cancelled /\ NoError /\ beats("collecting")
          \/ t.beat = "collecting" /\ NoError /\ beats("sending")
          \/ t.beat = "collecting" /\ (Error \/ (t.cancelled /\ NoError)) /\ beats("waiting")
          \/ t.beat = "sending" /\ NoError /\ beats("waiting")
          \/ t.beat = "waiting" /\ t.cancelled /\ NoError /\ beats("done")
    /\ UNCHANGED <<upDuty, upLead, upRound>>

\* The stop function cancels, then waits until the goroutine is done.
StopsTelemetry(c) ==
    /\ upDuty = "telemetry" /\ At(c, "stopping")
    /\ upWorld.telemetry[c].beat = "done"
    /\ upWorld' = [upWorld EXCEPT !.telemetry[c].running = FALSE]
    /\ Settles(c)
    /\ UNCHANGED <<upDuty, upLead, upLeft>>

\* Component.Reconcile and Component.Stop, under the component's mutex.
ReconcileTelemetry(c, enabled) ==
    /\ upDuty = "telemetry" /\ At(c, "idle") /\ upLeft.shifts > 0
    /\ LET t == upWorld.telemetry[c]
       IN \/ enabled = t.running /\ NoError /\ UNCHANGED <<upRound, upWorld>>
          \/ /\ enabled /\ ~t.running /\ UNCHANGED upRound
             /\ \/ /\ upWorld' = [upWorld EXCEPT !.telemetry[c] =
                                    [running |-> TRUE, beat |-> "waiting", cancelled |-> FALSE]]
                   /\ upLeft' = [upLeft EXCEPT !.shifts = @ - 1]
                \/ Error /\ UNCHANGED upWorld
          \/ /\ ~enabled /\ t.running /\ Goes(c, [at |-> "stopping"])
             /\ upWorld' = [upWorld EXCEPT !.telemetry[c].cancelled = TRUE]
             /\ upLeft' = [upLeft EXCEPT !.shifts = @ - 1]
    /\ UNCHANGED <<upDuty, upLead>>

(* ----- together -------------------------------------------------------------- *)

\* The lead moves (see LeaderElection), possibly to nobody for a while.
LeadMoves ==
    /\ upLeft.turns > 0
    /\ \E c \in (Controllers \cup {NoOne}) \ {upLead} : upLead' = c
    /\ upLeft' = [upLeft EXCEPT !.turns = @ - 1]
    /\ UNCHANGED <<upDuty, upRound, upWorld>>

\* Sooner or later somebody leads again.
SomebodyLeads ==
    /\ upLead = NoOne
    /\ \E c \in Controllers : upLead' = c
    /\ UNCHANGED <<upDuty, upRound, upWorld, upLeft>>

UpInit ==
    /\ upDuty \in Duties
    /\ upLead = NoOne
    /\ upRound = [c \in Controllers |-> Idle]
    /\ \E ip \in IPs, provided \in BOOLEAN :
         upWorld = [node |-> [provided |-> IF provided THEN {ip} ELSE {}, own |-> {ip},
                              annotated |-> {}, status |-> {ip}],
                    csrs |-> <<>>,
                    dns |-> {ip}, endpoints |-> [ips |-> {}, version |-> 0],
                    labels |-> {}, stack |-> FALSE, updateConfig |-> FALSE, events |-> {},
                    telemetry |-> [c \in Controllers |->
                      [running |-> FALSE, beat |-> "done", cancelled |-> FALSE]]]
    /\ upLeft = [turns |-> MaxTurns, shifts |-> MaxShifts[upDuty], errors |-> MaxErrors]

Rounds(c) ==
    \/ ApproveCSR(c) \/ AuthorizeKubeletServingCSR(c) \/ UpdateApproval(c) \/ CSRRoundEnds(c)
    \/ ResolveAddress(c) \/ GetEndpoints(c) \/ WriteEndpoints(c)
    \/ ListNodes(c) \/ EnsureNodeLabel(c)
    \/ StackTask(c) \/ ApplyManifests(c)
    \/ CheckUpdates(c)
    \/ Heartbeat(c) \/ StopsTelemetry(c)

Shifts ==
    \/ NodeShifts \/ OtherRequests \/ EndpointsShift \/ LabelsShift \/ UpdateConfigShifts
    \/ \E c \in Controllers, enabled \in BOOLEAN : ReconcileTelemetry(c, enabled)

UpNext ==
    \/ \E c \in Controllers : Rounds(c)
    \/ Shifts
    \/ UpdateNodeAddress \/ KubeletRequests
    \/ LeadMoves \/ SomebodyLeads

\* Timers keep ticking; the kubelet, the cloud node controller and the election
\* keep going.
UpFairness ==
    /\ \A c \in Controllers : WF_upVars(Rounds(c))
    /\ WF_upVars(UpdateNodeAddress) /\ WF_upVars(KubeletRequests) /\ WF_upVars(SomebodyLeads)

UpSpec == UpInit /\ [][UpNext]_upVars /\ UpFairness

\* Rounds are where they can be, and the bounds are kept.
UpTypeOK ==
    /\ upDuty \in Duties
    /\ upLead \in Controllers \cup {NoOne}
    /\ \A c \in Controllers :
         upRound[c].at \in {"idle", "csrs", "approval", "resolved", "writing", "labels", "task",
                            "done", "stopping"}
    /\ upLeft \in [turns : 0 .. MaxTurns, shifts : 0 .. MaxShifts[upDuty], errors : 0 .. MaxErrors]

(* ----- properties ------------------------------------------------------------- *)

\* The kubelet has a certificate for the addresses its node reports.
Certified == \E i \in 1 .. Len(upWorld.csrs) :
    upWorld.csrs[i].approved /\ upWorld.csrs[i].fine /\ upWorld.csrs[i].sans = upWorld.node.status

\* The duties get done although the lead moves in the middle of a round, a round
\* of a former leader ends late, requests fail and the world changes under them:
\* in the end the kubelet's certificate covers the addresses the node reports,
\* the Endpoints are what the external name resolves to, a node with a k0s role
\* has a role label, and the stacks are applied (approveCSR, reconcileEndpoints,
\* ensureNodeLabel, CRDStack.Start, Autopilot.applyManifests).
UpkeepIsDone ==
    /\ upDuty = "csr" => Certified
    /\ upDuty = "endpoints" => upWorld.endpoints.ips = upWorld.dns
    /\ upDuty = "roles" => ("k0s-role" \in upWorld.labels => "role" \in upWorld.labels)
    /\ upDuty = "stack" => upWorld.stack

\* Only what a node reported when the approver looked at it gets certified, even if
\* the node has changed its addresses since it asked, and only for a request that
\* passed the checks on the request itself; and once Reconcile has returned with
\* telemetry disabled, no heartbeat is collected or sent any more
\* (CSRApprover.verifyNode and processCSR, telemetry.Component.Reconcile).
UpkeepHoldsBack ==
    /\ \A i \in 1 .. Len(upWorld.csrs) :
         LET csr == upWorld.csrs[i] IN csr.approved => csr.fine /\ csr.sans \subseteq csr.checked
    /\ \A c \in Controllers :
         ~upWorld.telemetry[c].running => upWorld.telemetry[c].beat = "done"

\* Not what a node reports by the time it is approved: the addresses may change
\* between verifyNode and UpdateApproval, which does not look at the node.  Does not
\* hold.
CertifiedAsReported ==
    [][\A i \in 1 .. Len(upWorld.csrs) :
         (upWorld'.csrs[i].approved /\ ~upWorld.csrs[i].approved) =>
           upWorld.csrs[i].sans \subseteq upWorld.node.status]_upVars

\* Only the leader looks for updates, as the log line in checkUpdates has it.
OnlyLeaderProbes == \A e \in upWorld.events : e.led
=============================================================================
