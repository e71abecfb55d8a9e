--------------------------- MODULE EtcdMembership ---------------------------
(***************************************************************************)
(* How controllers join the embedded etcd cluster and leave it again:      *)
(*   - the etcd component (pkg/component/controller/etcd.go): joining as a *)
(*     learner through another controller's join API, waiting to be a      *)
(*     voting member, leaving on stop;                                     *)
(*   - the member reconciler (etcd_member_reconciler.go): the EtcdMember   *)
(*     object of each controller, the leader's resync passes, and the      *)
(*     shutdown that a marked controller performs on itself;               *)
(*   - the controller leases and their count (leasecounter), the leader    *)
(*     lease as the reconciler sees it, and the `k0s etcd leave` command.  *)
(* The etcd cluster and the Kubernetes API are modelled by what the code   *)
(* relies on: membership changes need a quorum, object writes are refused  *)
(* when the object changed since it was read.                              *)
(***************************************************************************)
EXTENDS Integers, FiniteSets

CONSTANTS Nodes,      \* the controllers
          NoNode,     \* nobody holds the leader lease
          MaxBoots,   \* invocations of k0s per controller
          MaxLeaves,  \* leave requests by users, and withdrawals of them
          MaxTroubles, \* lost replies and failed calls, crashes, stops and resets of a
                       \* controller, uses of `k0s etcd leave`
          Formations  \* the sets of controllers that may form the cluster at first

ASSUME EtcdAssumption == /\ NoNode \notin Nodes
                         /\ MaxBoots \in Nat \ {0} /\ MaxLeaves \in Nat /\ MaxTroubles \in Nat
                         /\ Formations \subseteq SUBSET Nodes

VARIABLES
  members,  \* the etcd members: id, controller, voter (else learner), named (has started once)
  lastId,   \* the last member ID etcd handed out
  db,       \* the member ID in each controller's data directory, 0 without member/snap/db
  up,       \* the controllers whose etcd process runs
  phase,    \* how far each k0s process is
  inv,      \* its invocation ID, counting its starts
  leaveOnStop, \* the flag that makes Etcd.Stop leave the cluster
  cr,       \* the EtcdMember objects
  lease,    \* the controller leases
  company,  \* the controllers whose cached count of active controllers is two or more
  holder,   \* who holds the leader lease
  lead,     \* the controllers whose elector says Leading
  yielding, \* the controllers that yielded and have not resumed
  pass,     \* the leader's resync pass
  asked,    \* history: <<member ID, invocation>> of every leave request
  gone,     \* history: member IDs removed by the leave protocol
  spent     \* budgets used

vars == <<members, lastId, db, up, phase, inv, leaveOnStop, cr, lease, company,
          holder, lead, yielding, pass, asked, gone, spent>>

etcdVars == <<members, lastId, db, up>>
electVars == <<holder, lead, yielding>>
leaseVars == <<lease, company>>
histVars == <<asked, gone>>

Phases == {"down", "etcd", "joined", "wait", "ready", "stampNew", "stamp",
           "run", "stopping", "leaving"}
\* The node components are up: the API server, the controller lease and the elector.
Active == {"ready", "stampNew", "stamp", "run"}

\* What the members of the leader's watch read of an EtcdMember; `own` says that
\* nobody wrote the object since createMemberObject's first write.
NoCR == [ex |-> FALSE, id |-> 0, joined |-> "none", leave |-> FALSE,
         inv |-> 0, shut |-> 0, own |-> FALSE]
NoLease == [holder |-> 0, age |-> "none"]
NoPass == [at |-> "idle", crs |-> [n \in Nodes |-> NoCR], ids |-> {},
           todo |-> {}, cur |-> NoNode, id |-> 0]

\* There are finitely many controllers, so that they can be numbered.
ASSUME NumberedAssumption ==
  /\ Cardinality(Nodes) \in Nat
  /\ \E f \in [Nodes -> 1..Cardinality(Nodes)] : \A m, n \in Nodes : f[m] = f[n] => m = n

\* The order of the controllers' names, in which objects are listed.
Rank == CHOOSE f \in [Nodes -> 1..Cardinality(Nodes)] : \A m, n \in Nodes : f[m] = f[n] => m = n

-----------------------------------------------------------------------------
(* etcd and the API server *)

Ids == {m.id : m \in members}
Voters == {m \in members : m.voter}
MemberOf(n) == {m \in members : m.node = n}
Alive(m) == m.node \in up /\ db[m.node] = m.id
Quorum == 2 * Cardinality({m \in Voters : Alive(m)}) > Cardinality(Voters)

\* The controller's own etcd answers linearizable requests, and so its API server
\* works: learners do not answer them.
Serving(n) == Quorum /\ \E m \in Voters : m.node = n /\ Alive(m)

\* etcd refuses a removal that would leave the rest without a quorum.
Removable(m) ==
  \/ ~m.voter
  \/ LET rest == Voters \ {m}
         active == {v \in rest : Alive(v)}
     IN  /\ rest # {}
         /\ 2 * Cardinality(active) > Cardinality(rest)

\* DeleteMember: a removed member's process terminates itself.
Delete(m) == /\ members' = members \ {m}
             /\ up' = IF Alive(m) THEN up \ {m.node} ELSE up
             /\ UNCHANGED <<lastId, db>>

\* AddMemberAsLearner: one learner at a time, no second member with the same peer URL.
Addable(n) == MemberOf(n) = {} /\ \A m \in members : m.voter
AddMemberAsLearner(n) ==
  /\ lastId' = lastId + 1
  /\ members' = members \cup {[id |-> lastId + 1, node |-> n, voter |-> FALSE, named |-> FALSE]}
  /\ UNCHANGED <<db, up>>

Trouble == spent.troubles < MaxTroubles /\ spent' = [spent EXCEPT !.troubles = @ + 1]

-----------------------------------------------------------------------------
(* One controller's life *)

Boot(n) ==
  /\ phase[n] = "down" /\ inv[n] < MaxBoots
  /\ phase' = [phase EXCEPT ![n] = "etcd"]
  /\ inv' = [inv EXCEPT ![n] = @ + 1]
  /\ leaveOnStop' = leaveOnStop \ {n}
  /\ company' = company \ {n}
  /\ UNCHANGED <<etcdVars, cr, lease, electVars, pass, histVars, spent>>

\* The join API of a working controller adds the learner and answers with the
\* initial cluster.
EtcdHandler(n) ==
  /\ \E m \in Nodes \ {n} : phase[m] \in Active /\ Serving(m)
  /\ Addable(n) /\ AddMemberAsLearner(n)

\* Start without a database: syncEtcdConfig asks the join API, in several attempts.
JoinEtcd(n) ==
  /\ phase[n] = "etcd" /\ db[n] = 0
  /\ \/ /\ EtcdHandler(n)
        /\ phase' = [phase EXCEPT ![n] = "joined"]
        /\ UNCHANGED spent
     \/ \* added, but the answer is an error or does not arrive: it is asked again
        /\ EtcdHandler(n)
        /\ Trouble
        /\ UNCHANGED phase
     \/ \* refused in every attempt: Start fails and k0s exits
        /\ ~Addable(n)
        /\ phase' = [phase EXCEPT ![n] = "down"]
        /\ UNCHANGED <<etcdVars, spent>>
  /\ UNCHANGED <<inv, leaveOnStop, cr, leaseVars, electVars, pass, histVars>>

\* The supervisor starts etcd: as the member in the database, else as the one that
\* joined. A member that was removed meanwhile does not come up.
StartEtcd(n) ==
  /\ \/ phase[n] = "etcd" /\ db[n] # 0
     \/ phase[n] = "joined"
  /\ \E m \in MemberOf(n) :
       /\ phase[n] = "etcd" => m.id = db[n]
       /\ members' = (members \ {m}) \cup {[m EXCEPT !.named = TRUE]}
       /\ db' = [db EXCEPT ![n] = m.id]
       /\ up' = up \cup {n}
  /\ phase' = [phase EXCEPT ![n] = "wait"]
  /\ UNCHANGED <<lastId, inv, leaveOnStop, cr, leaseVars, electVars, pass, histVars, spent>>

\* fixupPeerURL is retried until the local endpoint lists the members and finds itself.
FixupPeerURL(n) ==
  /\ phase[n] = "wait" /\ Serving(n)
  /\ phase' = [phase EXCEPT ![n] = "ready"]
  /\ UNCHANGED <<etcdVars, inv, leaveOnStop, cr, leaseVars, electVars, pass, histVars, spent>>

\* createMemberObject, first write: create the object ...
CreateObject(n) ==
  /\ ~cr[n].ex
  /\ cr' = [cr EXCEPT ![n] = [NoCR EXCEPT !.ex = TRUE, !.inv = inv[n], !.own = TRUE]]
  /\ phase' = [phase EXCEPT ![n] = "stampNew"]

\* Mutant: a controller that comes back keeps the leave request of the last time.
ClaimObjectKeepsLeave(n) ==
  /\ cr[n].ex
  /\ cr' = [cr EXCEPT ![n].inv = inv[n], ![n].shut = 0, ![n].own = TRUE]
  /\ phase' = [phase EXCEPT ![n] = "stamp"]

\* ... or claim the existing one for this invocation, and withdraw any leave and
\* shutdown request.
ClaimObject(n) ==
  /\ cr[n].ex
  /\ cr' = [cr EXCEPT ![n].inv = inv[n], ![n].shut = 0, ![n].leave = FALSE, ![n].own = TRUE]
  /\ phase' = [phase EXCEPT ![n] = "stamp"]

\* The member reconciler starts once etcd is ready and the CRD is there.
CreateMember(n) ==
  /\ phase[n] = "ready" /\ Serving(n)
  /\ CreateObject(n) \/ ClaimObject(n)
  /\ UNCHANGED <<etcdVars, inv, leaveOnStop, leaseVars, electVars, pass, histVars, spent>>

\* createMemberObject, second write: member ID and Joined. A failure is only logged
\* for a new object, and makes Start fail for an existing one.
StampMember(n) ==
  /\ phase[n] \in {"stampNew", "stamp"} /\ Serving(n)
  /\ \/ /\ cr[n].own
        /\ cr' = [cr EXCEPT ![n].id = db[n], ![n].joined = "True", ![n].own = FALSE]
        /\ phase' = [phase EXCEPT ![n] = "run"]
        /\ UNCHANGED spent
     \/ \* a conflict
        /\ ~cr[n].own
        /\ phase' = [phase EXCEPT ![n] = IF @ = "stampNew" THEN "run" ELSE "stopping"]
        /\ UNCHANGED <<cr, spent>>
     \/ \* an internal error: all of createMemberObject is tried again
        /\ Trouble
        /\ phase' = [phase EXCEPT ![n] = IF @ = "stampNew" THEN "run" ELSE "ready"]
        /\ UNCHANGED cr
  /\ UNCHANGED <<etcdVars, inv, leaveOnStop, leaseVars, electVars, pass, histVars>>

\* shutdownIfMarked: while not leading, k0s stops itself once its object carries the
\* shutdown label of this invocation.
ShutdownIfMarked(n) ==
  /\ phase[n] = "run" /\ n \notin lead /\ Serving(n)
  /\ cr[n].shut = inv[n]
  /\ leaveOnStop' = IF cr[n].leave THEN leaveOnStop \cup {n} ELSE leaveOnStop
  /\ phase' = [phase EXCEPT ![n] = "stopping"]
  /\ UNCHANGED <<etcdVars, inv, cr, leaseVars, electVars, pass, histVars, spent>>

\* The components stop in reverse order: reconciler, elector, controller lease, and
\* last etcd, which leaves first if asked to.
StopComponents(n) ==
  /\ phase[n] = "stopping"
  /\ pass' = [pass EXCEPT ![n] = NoPass]
  /\ lead' = lead \ {n} /\ yielding' = yielding \ {n}
  /\ holder' = IF holder = n /\ Serving(n) THEN NoNode ELSE holder
  /\ lease' = IF Serving(n) /\ lease[n].holder = inv[n]
              THEN [lease EXCEPT ![n] = [holder |-> 0, age |-> "recent"]] ELSE lease
  /\ IF n \in leaveOnStop
     THEN phase' = [phase EXCEPT ![n] = "leaving"] /\ UNCHANGED up
     ELSE phase' = [phase EXCEPT ![n] = "down"] /\ up' = up \ {n}
  /\ UNCHANGED <<members, lastId, db, inv, leaveOnStop, cr, company, histVars, spent>>

\* Etcd.leave: remove the own member while the termination of etcd is deferred. An
\* etcd that says it is stopping counts as removed; after too many attempts, or when
\* the process ended by itself, etcd is terminated without having left.
LeaveCluster(n) ==
  /\ phase[n] = "leaving"
  /\ \/ \E m \in MemberOf(n) :
          /\ m.id = db[n] /\ Serving(n) /\ Removable(m)
          /\ Delete(m)
          /\ gone' = gone \cup {m.id}
          /\ UNCHANGED spent
     \/ /\ IF \E m \in MemberOf(n) : m.id = db[n] /\ Serving(n) /\ Removable(m)
           THEN Trouble ELSE UNCHANGED spent
        /\ up' = up \ {n}
        /\ UNCHANGED <<members, lastId, db, gone>>
  /\ phase' = [phase EXCEPT ![n] = "down"]
  /\ UNCHANGED <<inv, leaveOnStop, cr, leaseVars, electVars, pass, asked>>

\* k0s or its host crashes: without the host, etcd goes on running until the next start.
Crash(n) ==
  /\ phase[n] # "down" /\ Trouble
  /\ phase' = [phase EXCEPT ![n] = "down"]
  /\ up' \in {up, up \ {n}}
  /\ lead' = lead \ {n} /\ yielding' = yielding \ {n}
  /\ pass' = [pass EXCEPT ![n] = NoPass]
  /\ UNCHANGED <<members, lastId, db, inv, leaveOnStop, cr, leaseVars, holder, histVars>>

\* The service manager stops k0s.
StopK0s(n) ==
  /\ phase[n] \in Active /\ Trouble
  /\ phase' = [phase EXCEPT ![n] = "stopping"]
  /\ UNCHANGED <<etcdVars, inv, leaveOnStop, cr, leaseVars, electVars, pass, histVars>>

\* An administrator wipes the data directory of a stopped controller.
Reset(n) ==
  /\ phase[n] = "down" /\ db[n] # 0 /\ Trouble
  /\ db' = [db EXCEPT ![n] = 0] /\ up' = up \ {n}
  /\ UNCHANGED <<members, lastId, phase, inv, leaveOnStop, cr, leaseVars, electVars, pass, histVars>>

-----------------------------------------------------------------------------
(* Controller leases and the leader lease *)

\* The lease of this invocation is acquired, or renewed in time.
HoldLease(n) ==
  /\ phase[n] \in Active /\ Serving(n)
  /\ lease[n].age # "valid"
  /\ lease' = [lease EXCEPT ![n] = [holder |-> inv[n], age |-> "valid"]]
  /\ UNCHANGED <<etcdVars, phase, inv, leaveOnStop, cr, company, electVars, pass, histVars, spent>>

\* A lease nobody renews expires, and after five minutes counts as abandoned.
AgeLease(n) ==
  /\ lease[n].age \in {"valid", "recent"}
  /\ ~(phase[n] \in Active /\ Serving(n) /\ lease[n].holder = inv[n])
  /\ lease' = [lease EXCEPT ![n].age = IF @ = "valid" THEN "recent" ELSE "old"]
  /\ UNCHANGED <<etcdVars, phase, inv, leaveOnStop, cr, company, electVars, pass, histVars, spent>>

\* ActiveLeases: the valid leases with a holder.
ActiveLeases == Cardinality({n \in Nodes : lease[n].age = "valid" /\ lease[n].holder # 0})

\* runLeaseCounter, every ten seconds.
CountLeases(n) ==
  /\ phase[n] \in Active /\ Serving(n)
  /\ company' = IF ActiveLeases >= 2 THEN company \cup {n} ELSE company \ {n}
  /\ UNCHANGED <<etcdVars, phase, inv, leaveOnStop, cr, lease, electVars, pass, histVars, spent>>

Elect(n) ==
  /\ phase[n] \in Active /\ Serving(n)
  /\ holder = NoNode /\ n \notin yielding
  /\ holder' = n /\ lead' = lead \cup {n}
  /\ UNCHANGED <<etcdVars, phase, inv, leaveOnStop, cr, leaseVars, yielding, pass, histVars, spent>>

\* The leader lease is released by a yield, and expires when it is not renewed.
LoseLeaderLease(n) ==
  /\ holder = n
  /\ n \in yielding \/ ~(n \in lead /\ phase[n] \in Active /\ Serving(n))
  /\ holder' = NoNode
  /\ UNCHANGED <<etcdVars, phase, inv, leaveOnStop, cr, leaseVars, lead, yielding, pass, histVars, spent>>

\* The elector's status becomes Pending, which cancels the pass.
NoticeLoss(n) ==
  /\ n \in lead /\ holder # n
  /\ lead' = lead \ {n}
  /\ pass' = [pass EXCEPT ![n] = NoPass]
  /\ UNCHANGED <<etcdVars, phase, inv, leaveOnStop, cr, leaseVars, holder, yielding, histVars, spent>>

\* waitForResume: thirty seconds are enough for another candidate to take the lease.
ResumeLease(n) ==
  /\ n \in yielding /\ n \notin lead
  /\ holder # NoNode \/ \A m \in Nodes \ {n} : ~(phase[m] \in Active /\ Serving(m))
  /\ yielding' = yielding \ {n}
  /\ UNCHANGED <<etcdVars, phase, inv, leaveOnStop, cr, leaseVars, holder, lead, pass, histVars, spent>>

-----------------------------------------------------------------------------
(* The leader's resync pass *)

Resyncing(n, at) == n \in lead /\ phase[n] = "run" /\ pass[n].at = at /\ Serving(n)
passUnchanged == <<phase, inv, leaveOnStop, leaseVars, holder, lead, asked>>

\* Mutant: objects whose member is gone are taken to be in order.
ActsOnLeaveOnly(c, ids) == c.id \in ids /\ c.leave

\* The objects that reconcileMember does something about: the others it finds in
\* order, or (without a member ID) cannot handle and only says so in their status.
Acts(c, ids) == /\ c.id # 0
                /\ IF c.id \in ids THEN c.leave ELSE c.joined # "False"

Learning == \E m \in members : ~m.voter /\ m.named

\* resync: the objects are listed first, then the members, and both are used to the
\* end of the pass. (If the members cannot be listed, only status messages are written.)
\* Passes that start with nothing to do are left out: what comes up before they list
\* the members is found by the next one as well, with newer objects.
ListObjects(n) ==
  /\ Resyncing(n, "idle")
  /\ Learning \/ \E m \in Nodes : Acts(cr[m], Ids)
  /\ pass' = [pass EXCEPT ![n] = [NoPass EXCEPT !.at = "listed", !.crs = cr]]
  /\ UNCHANGED <<etcdVars, cr, yielding, gone, spent, passUnchanged>>

\* Objects that this pass has no use for are forgotten.
ListMembers(n) ==
  /\ Resyncing(n, "listed")
  /\ LET crs == pass[n].crs
         todo == {m \in Nodes : Acts(crs[m], Ids)}
     IN  pass' = [pass EXCEPT ![n] = [NoPass EXCEPT
                !.at = "items", !.ids = Ids, !.todo = todo,
                !.crs = [m \in Nodes |-> IF m \in todo \/ crs[m].joined # "True" THEN crs[m] ELSE NoCR]]]
  /\ UNCHANGED <<etcdVars, cr, yielding, gone, spent, passUnchanged>>

\* An update built from the object the pass listed: refused if it changed meanwhile.
Put(n, m, new) ==
  IF cr[m] = pass[n].crs[m] THEN cr' = [cr EXCEPT ![m] = [new EXCEPT !.own = FALSE]] ELSE UNCHANGED cr

Done(n, m) == pass' = [pass EXCEPT ![n].todo = @ \ {m}]

\* Mutant: a leader that is to leave waits for its turn without giving up the lead.
ReconcileMemberNoYield(n, m) ==
  /\ Resyncing(n, "items") /\ m \in pass[n].todo
  /\ m = n /\ pass[n].crs[m].id \in pass[n].ids
  /\ Done(n, m)
  /\ UNCHANGED <<etcdVars, cr, yielding, gone, spent, passUnchanged>>

\* reconcileMember, up to the removal: what it decides for the listed object, the
\* listed members and the controller's lease as it is now.
ReconcileMember(n, m) ==
  /\ Resyncing(n, "items") /\ m \in pass[n].todo
  /\ \A o \in pass[n].todo : Rank[m] <= Rank[o]
  /\ LET c == pass[n].crs[m] IN
     \/ /\ c.id \notin pass[n].ids
        /\ Put(n, m, [c EXCEPT !.joined = "False"])
        /\ Done(n, m) /\ UNCHANGED yielding
     \/ \* itself: stay if alone, else let another controller lead
        /\ c.id \in pass[n].ids /\ m = n
        /\ yielding' = IF n \in company THEN yielding \cup {n} ELSE yielding
        /\ Done(n, m) /\ UNCHANGED cr
     \/ /\ c.id \in pass[n].ids /\ m # n
        /\ IF lease[m].age = "valid" /\ lease[m].holder = c.inv /\ c.shut # c.inv
           THEN Put(n, m, [c EXCEPT !.shut = c.inv]) ELSE UNCHANGED cr
        /\ IF lease[m].age = "old"
           THEN pass' = [pass EXCEPT ![n].at = "delete", ![n].cur = m, ![n].id = c.id]
           ELSE Done(n, m)
        /\ UNCHANGED yielding
  /\ UNCHANGED <<etcdVars, gone, spent, passUnchanged>>

\* reconcileMember, the removal of a member whose controller is gone. What etcd
\* refuses is tried again a few times and then reported.
DeleteMember(n) ==
  /\ Resyncing(n, "delete")
  /\ \/ \E m \in members :
          /\ m.id = pass[n].id /\ Removable(m)
          /\ Delete(m)
          /\ gone' = gone \cup {m.id}
          /\ pass' = [pass EXCEPT ![n].at = "deleted"]
     \/ /\ ~ \E m \in members : m.id = pass[n].id /\ Removable(m)
        /\ pass' = [pass EXCEPT ![n].at = "items", ![n].todo = @ \ {pass[n].cur},
                                ![n].cur = NoNode, ![n].id = 0]
        /\ UNCHANGED <<etcdVars, gone>>
  /\ UNCHANGED <<cr, yielding, spent, passUnchanged>>

MarkLeft(n) ==
  /\ Resyncing(n, "deleted")
  /\ LET m == pass[n].cur IN
     /\ Put(n, m, [pass[n].crs[m] EXCEPT !.joined = "False"])
     /\ pass' = [pass EXCEPT ![n].at = "items", ![n].todo = @ \ {m}, ![n].cur = NoNode, ![n].id = 0]
  /\ UNCHANGED <<etcdVars, yielding, gone, spent, passUnchanged>>

\* promoteLearners: at most one learner that has started, from a fresh list.
PickLearner(n) ==
  /\ Resyncing(n, "items") /\ pass[n].todo = {}
  /\ LET learners == {m \in members : ~m.voter /\ m.named} IN
     IF learners = {} THEN pass' = [pass EXCEPT ![n] = NoPass]
     ELSE \E m \in learners :
            pass' = [pass EXCEPT ![n].at = "promote", ![n].cur = m.node, ![n].id = m.id]
  /\ UNCHANGED <<etcdVars, cr, yielding, gone, spent, passUnchanged>>

PromoteMember(n) ==
  /\ Resyncing(n, "promote")
  /\ \/ \E m \in members :
          /\ m.id = pass[n].id /\ (m.voter \/ Alive(m))
          /\ members' = (members \ {m}) \cup {[m EXCEPT !.voter = TRUE]}
          /\ pass' = [pass EXCEPT ![n].at = "promoted"]
     \/ /\ ~ \E m \in members : m.id = pass[n].id /\ (m.voter \/ Alive(m))
        /\ pass' = [pass EXCEPT ![n] = NoPass]
        /\ UNCHANGED members
  /\ UNCHANGED <<lastId, db, up, cr, yielding, gone, spent, passUnchanged>>

\* setJoined, on the object listed at the start of the pass.
SetJoined(n) ==
  /\ Resyncing(n, "promoted")
  /\ LET c == pass[n].crs[pass[n].cur] IN
     IF c.ex /\ c.joined # "True" THEN Put(n, pass[n].cur, [c EXCEPT !.joined = "True"]) ELSE UNCHANGED cr
  /\ pass' = [pass EXCEPT ![n] = NoPass]
  /\ UNCHANGED <<etcdVars, yielding, gone, spent, passUnchanged>>

-----------------------------------------------------------------------------
(* Users *)

APIAvailable == \E n \in Nodes : phase[n] \in Active /\ Serving(n)

\* spec.leave is set, or withdrawn.
EditLeave(n) ==
  /\ APIAvailable /\ cr[n].ex /\ spent.leaves < MaxLeaves /\ spent' = [spent EXCEPT !.leaves = @ + 1]
  /\ cr' = [cr EXCEPT ![n].leave = ~@, ![n].own = FALSE]
  /\ asked' = IF cr[n].leave THEN asked ELSE asked \cup {<<cr[n].id, cr[n].inv>>}
  /\ UNCHANGED <<etcdVars, phase, inv, leaveOnStop, leaseVars, electVars, pass, gone>>

\* `k0s etcd leave --peer-address`: finds the member by its address and removes it.
EtcdLeave(n) ==
  /\ \E m \in Nodes : m \in up /\ Serving(m)
  /\ Trouble
  /\ \E m \in MemberOf(n) : Removable(m) /\ Delete(m)
  /\ UNCHANGED <<phase, inv, leaveOnStop, cr, leaseVars, electVars, pass, histVars>>

-----------------------------------------------------------------------------
Resync(n) == \/ ListObjects(n) \/ ListMembers(n) \/ (\E m \in Nodes : ReconcileMember(n, m))
             \/ DeleteMember(n) \/ MarkLeft(n)
             \/ PickLearner(n) \/ PromoteMember(n) \/ SetJoined(n)

\* What k0s does by itself, one thing after the other.
Life(n) == \/ JoinEtcd(n) \/ StartEtcd(n) \/ FixupPeerURL(n) \/ CreateMember(n) \/ StampMember(n)
           \/ ShutdownIfMarked(n) \/ StopComponents(n) \/ LeaveCluster(n)

Next == \E n \in Nodes :
  \/ Boot(n) \/ Life(n) \/ Resync(n)
  \/ HoldLease(n) \/ AgeLease(n) \/ CountLeases(n)
  \/ Elect(n) \/ LoseLeaderLease(n) \/ NoticeLoss(n) \/ ResumeLease(n)
  \/ Crash(n) \/ StopK0s(n) \/ Reset(n)
  \/ EditLeave(n) \/ EtcdLeave(n)

\* A cluster of the controllers in S, all running, and the others still to join.
Formed(S) ==
  /\ members = {[id |-> Rank[n], node |-> n, voter |-> TRUE, named |-> TRUE] : n \in S}
  /\ lastId = Cardinality(Nodes)
  /\ db = [n \in Nodes |-> IF n \in S THEN Rank[n] ELSE 0]
  /\ up = S
  /\ phase = [n \in Nodes |-> IF n \in S THEN "run" ELSE "down"]
  /\ inv = [n \in Nodes |-> IF n \in S THEN 1 ELSE 0]
  /\ cr = [n \in Nodes |-> IF n \in S THEN [NoCR EXCEPT !.ex = TRUE, !.id = Rank[n], !.joined = "True",
                                                         !.inv = 1] ELSE NoCR]
  /\ lease = [n \in Nodes |-> IF n \in S THEN [holder |-> 1, age |-> "valid"] ELSE NoLease]
  /\ leaveOnStop = {} /\ company = {} /\ holder = NoNode /\ lead = {} /\ yielding = {}
  /\ pass = [n \in Nodes |-> NoPass]
  /\ asked = {} /\ gone = {}
  /\ spent = [leaves |-> 0, troubles |-> 0]

Init == \E S \in Formations : Formed(S)

\* Every started k0s keeps working on its next step; nobody has to boot a controller,
\* and users and crashes may stop at any time.
Fairness ==
  /\ \A n \in Nodes : /\ WF_vars(Life(n)) /\ WF_vars(Resync(n))
                       /\ WF_vars(HoldLease(n) \/ AgeLease(n)) /\ WF_vars(CountLeases(n))
                       /\ WF_vars(LoseLeaderLease(n)) /\ WF_vars(NoticeLoss(n)) /\ WF_vars(ResumeLease(n))
  /\ WF_vars(\E n \in Nodes : Elect(n))

Spec == Init /\ [][Next]_vars /\ Fairness

-----------------------------------------------------------------------------
(* Properties *)

TypeOK ==
  /\ \A m \in members : m.id \in 1..lastId /\ m.node \in Nodes /\ m.voter \in BOOLEAN /\ m.named \in BOOLEAN
  /\ \A a, b \in members : a.id = b.id \/ a.node = b.node => a = b
  /\ lastId \in Nat /\ db \in [Nodes -> 0..lastId] /\ up \subseteq Nodes
  /\ phase \in [Nodes -> Phases] /\ inv \in [Nodes -> 0..MaxBoots] /\ leaveOnStop \subseteq Nodes
  /\ \A n \in Nodes : cr[n].id \in 0..lastId /\ cr[n].joined \in {"none", "True", "False"} /\ cr[n].shut \in {0, cr[n].inv}
  /\ \A n \in Nodes : lease[n].age \in {"none", "valid", "recent", "old"}
  /\ holder \in Nodes \cup {NoNode} /\ lead \subseteq Nodes /\ yielding \subseteq Nodes

\* Whatever restarts and rejoins happen while a pass is under way, the leave protocol
\* (the leader's DeleteMember and a controller's own leave) only ever removes a member
\* ID for which somebody set spec.leave.
RemovedWereAsked == \A id \in gone : \E r \in asked : r[1] = id

\* A controller is only told to shut down if a leave was requested of that very
\* invocation: a label never outlives the request into the next start of k0s.
ShutdownWasAsked == \A n \in Nodes : cr[n].shut # 0 => \E r \in asked : r[2] = cr[n].shut /\ r[1] = cr[n].id

\* The Joined condition never denies a member that etcd has: it is False only for IDs
\* that are gone for good.
NotJoinedIsGone == \A n \in Nodes : cr[n].joined = "False" => cr[n].id \notin Ids

Working(n) == phase[n] = "run" /\ Serving(n)

\* A requested leave ends: not all the time can a member be in the cluster, its leave
\* be requested, and another controller be working. (Of a controller that never got as
\* far as acquiring its lease the reconciler only says that there is no lease.)
LeaveEnds == \A n \in Nodes :
  ~ <>[](/\ cr[n].leave /\ cr[n].id \in Ids /\ lease[n].age # "none"
         /\ \E m \in Nodes \ {n} : Working(m))

\* The Joined conditions catch up with the cluster while a controller is working.
JoinedCatchesUp == \A n \in Nodes :
  ~ <>[](cr[n].id # 0 /\ cr[n].id \notin Ids /\ cr[n].joined # "False" /\ \E m \in Nodes : Working(m))

\* A controller that joined does not stay a learner while a controller is working.
LearnersGetPromoted == \A n \in Nodes :
  ~ <>[](phase[n] = "wait" /\ (\E m \in MemberOf(n) : ~m.voter) /\ \E m \in Nodes : Working(m))

\* Nobody is removed, told to shut down or reported as gone for no reason: see the
\* last three conjuncts (etcd_member_reconciler.go, etcd.go).
OnlyAskedLeave == TypeOK /\ RemovedWereAsked /\ ShutdownWasAsked /\ NotJoinedIsGone

\* What is known of the members catches up with etcd, and learners get promoted
\* (etcd_member_reconciler.go).
JoinersCatchUp == JoinedCatchesUp /\ LearnersGetPromoted
=============================================================================
