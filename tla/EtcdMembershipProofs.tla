----------------------- MODULE EtcdMembershipProofs -----------------------
(***************************************************************************)
(* The leave protocol of etcd members touches only who was asked to leave: *)
(* the invariant EtcdInv, kept by every step of EtcdMembership, for any    *)
(* number of controllers, starts, leave requests and troubles.             *)
(***************************************************************************)
EXTENDS EtcdMembership, TLAPS

\* Zenon is the prover, and SMT that of the leaves that name it.
USE ZenonT(60)

-----------------------------------------------------------------------------
(* The invariant *)

Conditions == {"none", "True", "False"}

CRs == [ex : BOOLEAN, id : Nat, joined : Conditions, leave : BOOLEAN,
        inv : Nat, shut : Nat, own : BOOLEAN]

Stages == {"idle", "listed", "items", "delete", "deleted", "promote", "promoted"}

Passes == [at : Stages, crs : [Nodes -> CRs], ids : SUBSET Nat, todo : SUBSET Nodes,
           cur : Nodes \cup {NoNode}, id : Nat]

Members == [id : Nat, node : Nodes, voter : BOOLEAN, named : BOOLEAN]

Ages == {"none", "valid", "recent", "old"}

\* etcd: member IDs are not used twice, and a controller has one member.
EtcdFits ==
  /\ members \subseteq Members /\ lastId \in Nat
  /\ \A m \in members : m.id \in 1..lastId
  /\ \A a, b \in members : a.id = b.id \/ a.node = b.node => a = b
  /\ db \in [Nodes -> 0..lastId] /\ up \subseteq Nodes

\* What an object, stored or listed, says of the IDs up to `last`, the requests
\* `requests` and the members `ids`: its leave and its shutdown were asked for, of
\* this ID and this invocation; it has neither while the controller may still stamp
\* its ID on it; and a member that is not joined is gone.
ObjectFits(c, last, requests, ids) ==
  /\ c \in CRs /\ c.id <= last
  /\ c.leave => <<c.id, c.inv>> \in requests
  /\ c.shut # 0 => c.shut = c.inv /\ c.id # 0 /\ <<c.id, c.inv>> \in requests
  /\ c.own => ~c.leave /\ c.shut = 0
  /\ c.joined = "False" => c.id \notin ids

\* What a pass has listed and still has to do: leave requests for the listed members,
\* and those that were gone, which IDs never come back from.
PassFits(p, last, requests, ids) ==
  /\ p \in Passes
  /\ \A m \in Nodes : ObjectFits(p.crs[m], last, requests, ids)
  /\ \A m \in p.todo : /\ p.crs[m].id # 0
                       /\ p.crs[m].id \in p.ids => p.crs[m].leave
                       /\ p.crs[m].id \notin p.ids => p.crs[m].id \notin ids
  /\ p.at \in {"delete", "deleted"} =>
       p.cur \in Nodes /\ p.crs[p.cur].leave /\ p.crs[p.cur].id = p.id
  /\ p.at = "deleted" => p.id \notin ids
  /\ p.at \in {"promote", "promoted"} => p.cur \in Nodes

\* How far controller n is, and what its object and its flag say then: an object that
\* names this invocation has the member ID of its database, or none yet.
LifeFits(n) ==
  /\ phase[n] # "down" => inv[n] # 0
  /\ phase[n] \in {"stampNew", "stamp", "run"} => cr[n].inv = inv[n]
  /\ phase[n] = "stampNew" => cr[n].id = 0
  /\ phase[n] = "run" => cr[n].id \in {0, db[n]}
  /\ n \in leaveOnStop => phase[n] \in {"stopping", "leaving", "down"}
  /\ phase[n] = "leaving" => n \in leaveOnStop
  /\ n \in leaveOnStop /\ phase[n] # "down" => \E r \in asked : r[1] = db[n]

RestFits ==
  /\ phase \in [Nodes -> Phases] /\ inv \in [Nodes -> 0..MaxBoots] /\ leaveOnStop \subseteq Nodes
  /\ lease \in [Nodes -> [holder : Nat, age : Ages]]
  /\ holder \in Nodes \cup {NoNode} /\ lead \subseteq Nodes /\ yielding \subseteq Nodes

Objects == /\ cr \in [Nodes -> CRs]
           /\ \A n \in Nodes : ObjectFits(cr[n], lastId, asked, Ids)

PassesFit == /\ pass \in [Nodes -> Passes]
             /\ \A n \in Nodes : PassFits(pass[n], lastId, asked, Ids)

Lives == \A n \in Nodes : LifeFits(n)

EtcdInv == EtcdFits /\ RestFits /\ Objects /\ PassesFit /\ Lives /\ RemovedWereAsked

-----------------------------------------------------------------------------
(* Which steps leave what alone *)

\* What a step may do to the IDs and the requests.
Grows ==
  /\ lastId \in Nat /\ lastId' \in Nat /\ lastId <= lastId'
  /\ asked \subseteq asked'
  /\ \A id \in Ids' : id \in Ids \/ id > lastId

\* An object or a pass that fits keeps fitting while IDs and requests grow.
LEMMA FittingLasts ==
  ASSUME Grows
  PROVE  /\ \A c : ObjectFits(c, lastId, asked, Ids) => ObjectFits(c, lastId', asked', Ids')
         /\ \A p : PassFits(p, lastId, asked, Ids) => PassFits(p, lastId', asked', Ids')
<1>1. ASSUME NEW c, ObjectFits(c, lastId, asked, Ids) PROVE ObjectFits(c, lastId', asked', Ids')
  <2>1. c \in CRs /\ c.id \in Nat BY <1>1 DEF ObjectFits, CRs
  <2>2. c.id <= lastId' BY <1>1, <2>1, SMTT(30) DEF ObjectFits, Grows
  <2>3. c.joined = "False" => c.id \notin Ids'
    BY <1>1, <2>1, SMTT(30) DEF ObjectFits, Grows
  <2> QED BY <1>1, <2>1, <2>2, <2>3 DEF ObjectFits, Grows
<1>2. ASSUME NEW p, PassFits(p, lastId, asked, Ids) PROVE PassFits(p, lastId', asked', Ids')
  <2>1. p \in Passes BY <1>2 DEF PassFits
  <2>2. p.crs \in [Nodes -> CRs] /\ p.todo \subseteq Nodes BY <2>1 DEF Passes
  <2>3. \A m \in Nodes : ObjectFits(p.crs[m], lastId', asked', Ids') BY <1>1, <1>2 DEF PassFits
  <2>4. \A m \in Nodes : p.crs[m].id \in Nat /\ p.crs[m].id <= lastId
    BY <1>2, <2>2 DEF PassFits, ObjectFits, CRs
  <2>5. \A m \in Nodes : p.crs[m].id \notin Ids => p.crs[m].id \notin Ids'
    BY <2>4, SMTT(30) DEF Grows
  <2>6. p.at = "deleted" => p.id \notin Ids' BY <1>2, <2>5 DEF PassFits
  <2>7. \A m \in p.todo : p.crs[m].id \notin p.ids => p.crs[m].id \notin Ids'
    BY <1>2, <2>2, <2>5 DEF PassFits
  <2> QED BY <1>2, <2>1, <2>3, <2>6, <2>7 DEF PassFits
<1> QED BY <1>1, <1>2

\* One step of controller n or of its user.
Step(n) ==
  \/ Boot(n) \/ Life(n) \/ Resync(n)
  \/ HoldLease(n) \/ AgeLease(n) \/ CountLeases(n)
  \/ Elect(n) \/ LoseLeaderLease(n) \/ NoticeLoss(n) \/ ResumeLease(n)
  \/ Crash(n) \/ StopK0s(n) \/ Reset(n)
  \/ EditLeave(n) \/ EtcdLeave(n)

Reconciles(n) == \E m \in Nodes : ReconcileMember(n, m)

\* The steps by what they change; all others leave it alone.
LEMMA Frames ==
  ASSUME NEW n \in Nodes, Step(n)
  PROVE  /\ \/ UNCHANGED <<members, lastId>>
            \/ JoinEtcd(n) \/ StartEtcd(n) \/ LeaveCluster(n) \/ DeleteMember(n)
            \/ PromoteMember(n) \/ EtcdLeave(n)
         /\ UNCHANGED db \/ StartEtcd(n) \/ Reset(n)
         /\ up' \subseteq up \/ StartEtcd(n)
         /\ \/ UNCHANGED cr
            \/ CreateMember(n) \/ StampMember(n) \/ MarkLeft(n) \/ SetJoined(n)
            \/ EditLeave(n) \/ Reconciles(n)
         /\ \/ UNCHANGED pass
            \/ pass' = [pass EXCEPT ![n] = NoPass]
            \/ ListObjects(n) \/ ListMembers(n) \/ DeleteMember(n) \/ MarkLeft(n) \/ PickLearner(n)
            \/ PromoteMember(n) \/ Reconciles(n)
         /\ UNCHANGED gone \/ LeaveCluster(n) \/ DeleteMember(n)
         /\ UNCHANGED asked \/ EditLeave(n)
         /\ UNCHANGED leaveOnStop \/ Boot(n) \/ ShutdownIfMarked(n)
         /\ UNCHANGED inv \/ Boot(n)
         /\ UNCHANGED phase \/ Boot(n) \/ Life(n) \/ Crash(n) \/ StopK0s(n)
         /\ UNCHANGED lease \/ HoldLease(n) \/ AgeLease(n) \/ StopComponents(n)
         /\ holder' \in {holder, n, NoNode} /\ lead' \subseteq lead \cup {n}
         /\ yielding' \subseteq yielding \cup {n}
<1>1. CASE Boot(n)
  BY <1>1 DEF Boot, etcdVars, leaseVars, electVars, histVars, passUnchanged
<1>2. CASE HoldLease(n)
  BY <1>2 DEF HoldLease, etcdVars, leaseVars, electVars, histVars, passUnchanged
<1>3. CASE AgeLease(n)
  BY <1>3 DEF AgeLease, etcdVars, leaseVars, electVars, histVars, passUnchanged
<1>4. CASE CountLeases(n)
  BY <1>4 DEF CountLeases, etcdVars, leaseVars, electVars, histVars, passUnchanged
<1>5. CASE Elect(n)
  BY <1>5 DEF Elect, etcdVars, leaseVars, electVars, histVars, passUnchanged
<1>6. CASE LoseLeaderLease(n)
  BY <1>6 DEF LoseLeaderLease, etcdVars, leaseVars, electVars, histVars, passUnchanged
<1>7. CASE NoticeLoss(n)
  BY <1>7 DEF NoticeLoss, etcdVars, leaseVars, electVars, histVars, passUnchanged
<1>8. CASE ResumeLease(n)
  BY <1>8 DEF ResumeLease, etcdVars, leaseVars, electVars, histVars, passUnchanged
<1>9. CASE Crash(n)
  BY <1>9 DEF Crash, etcdVars, leaseVars, electVars, histVars, passUnchanged
<1>10. CASE StopK0s(n)
  BY <1>10 DEF StopK0s, etcdVars, leaseVars, electVars, histVars, passUnchanged
<1>11. CASE Reset(n)
  BY <1>11 DEF Reset, etcdVars, leaseVars, electVars, histVars, passUnchanged
<1>12. CASE EditLeave(n)
  BY <1>12 DEF EditLeave, etcdVars, leaseVars, electVars, histVars, passUnchanged
<1>13. CASE EtcdLeave(n)
  BY <1>13 DEF EtcdLeave, Delete, etcdVars, leaseVars, electVars, histVars, passUnchanged
<1>14. CASE JoinEtcd(n)
  BY <1>14 DEF JoinEtcd, EtcdHandler, AddMemberAsLearner, etcdVars, leaseVars, electVars, histVars, passUnchanged, Life
<1>15. CASE StartEtcd(n)
  BY <1>15 DEF StartEtcd, etcdVars, leaseVars, electVars, histVars, passUnchanged, Life
<1>16. CASE FixupPeerURL(n)
  BY <1>16 DEF FixupPeerURL, etcdVars, leaseVars, electVars, histVars, passUnchanged, Life
<1>17. CASE CreateMember(n)
  BY <1>17 DEF CreateMember, etcdVars, leaseVars, electVars, histVars, passUnchanged, Life
<1>18. CASE StampMember(n)
  BY <1>18 DEF StampMember, etcdVars, leaseVars, electVars, histVars, passUnchanged, Life
<1>19. CASE ShutdownIfMarked(n)
  BY <1>19 DEF ShutdownIfMarked, etcdVars, leaseVars, electVars, histVars, passUnchanged, Life
<1>20. CASE StopComponents(n)
  BY <1>20 DEF StopComponents, etcdVars, leaseVars, electVars, histVars, passUnchanged, Life
<1>21. CASE LeaveCluster(n)
  BY <1>21 DEF LeaveCluster, Delete, etcdVars, leaseVars, electVars, histVars, passUnchanged, Life
<1>22. CASE ListObjects(n) \/ ListMembers(n)
  BY <1>22 DEF ListObjects, ListMembers, etcdVars, leaseVars, electVars, histVars, passUnchanged
<1>23. CASE Reconciles(n)
  BY <1>23 DEF Reconciles, ReconcileMember, etcdVars, passUnchanged, leaseVars
<1>24. CASE DeleteMember(n)
  BY <1>24 DEF DeleteMember, Delete, etcdVars, leaseVars, electVars, histVars, passUnchanged
<1>25. CASE MarkLeft(n)
  BY <1>25 DEF MarkLeft, etcdVars, leaseVars, electVars, histVars, passUnchanged
<1>26. CASE PickLearner(n)
  BY <1>26 DEF PickLearner, etcdVars, leaseVars, electVars, histVars, passUnchanged
<1>27. CASE PromoteMember(n)
  BY <1>27 DEF PromoteMember, etcdVars, leaseVars, electVars, histVars, passUnchanged
<1>28. CASE SetJoined(n)
  BY <1>28 DEF SetJoined, etcdVars, leaseVars, electVars, histVars, passUnchanged
<1> QED BY <1>1, <1>2, <1>3, <1>4, <1>5, <1>6, <1>7, <1>8, <1>9, <1>10, <1>11, <1>12, <1>13, <1>14, <1>15, <1>16, <1>17, <1>18, <1>19, <1>20, <1>21, <1>22, <1>23, <1>24, <1>25, <1>26, <1>27, <1>28 DEF Step, Life, Resync, Reconciles

-----------------------------------------------------------------------------
(* etcd *)

\* A member that is replaced by one with the same ID and controller.
LEMMA MemberReplaced ==
  ASSUME EtcdFits, NEW m \in members, NEW new \in Members,
         new.id = m.id, new.node = m.node,
         members' = (members \ {m}) \cup {new}, lastId' = lastId, asked' = asked,
         db' \in [Nodes -> 0..lastId], up' \subseteq Nodes
  PROVE  EtcdFits' /\ Grows
<1>1. members' \subseteq Members /\ \A x \in members' : x.id \in 1..lastId' BY DEF EtcdFits
<1>2. ASSUME NEW a \in members', NEW b \in members', a.id = b.id \/ a.node = b.node
      PROVE  a = b
  BY <1>2 DEF EtcdFits
<1>3. Ids' = Ids BY DEF Ids
<1> QED BY <1>1, <1>2, <1>3, SMTT(30) DEF EtcdFits, Grows

\* A member that is removed.
LEMMA MemberRemoved ==
  ASSUME EtcdFits, NEW m \in members, Delete(m), asked' = asked
  PROVE  EtcdFits' /\ Grows /\ m.id \notin Ids'
<1>1. members' = members \ {m} /\ lastId' = lastId /\ db' = db BY DEF Delete
<1>2. up' \subseteq Nodes BY DEF Delete, EtcdFits
<1>3. Ids' \subseteq Ids BY <1>1 DEF Ids
<1>4. m.id \notin Ids' BY <1>1 DEF Ids, EtcdFits
<1>5. EtcdFits' BY <1>1, <1>2 DEF EtcdFits
<1> QED BY <1>1, <1>3, <1>4, <1>5, SMTT(30) DEF EtcdFits, Grows

LEMMA MemberAdded ==
  ASSUME EtcdFits, NEW n \in Nodes, Addable(n), AddMemberAsLearner(n), asked' = asked
  PROVE  EtcdFits' /\ Grows
<1> DEFINE new == [id |-> lastId + 1, node |-> n, voter |-> FALSE, named |-> FALSE]
<1>1. members' = members \cup {new} /\ lastId' = lastId + 1 /\ db' = db /\ up' = up
  BY DEF AddMemberAsLearner
<1>2. lastId \in Nat /\ lastId + 1 \in Nat /\ 0..lastId \subseteq 0..(lastId + 1)
  BY SMTT(30) DEF EtcdFits
<1>3. new \in Members /\ new.id = lastId + 1 /\ new.node = n BY <1>2 DEF Members
<1> HIDE DEF new
<1>4. \A x \in members : x.id # new.id /\ x.node # n
  <2>1. \A x \in members : x.id \in 1..lastId BY DEF EtcdFits
  <2>2. \A x \in members : x.id # new.id BY <2>1, <1>2, <1>3, SMTT(30)
  <2> QED BY <2>2 DEF Addable, MemberOf
<1>5. ASSUME NEW x \in members', NEW y \in members', x.id = y.id \/ x.node = y.node
      PROVE  x = y
  BY <1>1, <1>3, <1>4, <1>5 DEF EtcdFits
<1>6. \A x \in members' : x.id \in 1..lastId'
  BY <1>1, <1>2, <1>3, SMTT(30) DEF EtcdFits
<1>7. \A id \in Ids' : id \in Ids \/ id > lastId
  <2>1. \A x \in members' : x.id \in Ids \/ x.id = lastId + 1 BY <1>1, <1>3 DEF Ids
  <2>2. lastId + 1 > lastId BY <1>2, SMTT(30)
  <2> QED BY <2>1, <2>2 DEF Ids
<1>8. db' \in [Nodes -> 0..lastId'] BY <1>1, <1>2, SMTT(30) DEF EtcdFits
<1>9. lastId <= lastId' BY <1>1, <1>2, SMTT(30)
<1> QED BY <1>1, <1>2, <1>3, <1>5, <1>6, <1>7, <1>8, <1>9 DEF EtcdFits, Grows

\* Every step keeps the members in order, and never gives out an ID again.
LEMMA EtcdStep ==
  ASSUME EtcdInv, NEW n \in Nodes, Step(n)
  PROVE  EtcdFits' /\ Grows
<1> USE DEF EtcdInv
<1>0. 0 \in 0..lastId /\ 1..lastId \subseteq 0..lastId BY SMTT(30) DEF EtcdFits
<1>1. CASE JoinEtcd(n)
  <2>1. CASE EtcdHandler(n)
    BY <1>1, <2>1, MemberAdded DEF JoinEtcd, EtcdHandler, histVars
  <2>2. CASE UNCHANGED etcdVars /\ UNCHANGED asked
    BY <2>2, SMTT(30) DEF etcdVars, EtcdFits, Grows, Ids
  <2> QED BY <1>1, <2>1, <2>2 DEF JoinEtcd, histVars
<1>2. CASE StartEtcd(n)
  <2>1. PICK m \in MemberOf(n) :
          /\ members' = (members \ {m}) \cup {[m EXCEPT !.named = TRUE]}
          /\ db' = [db EXCEPT ![n] = m.id]
          /\ up' = up \cup {n}
    BY <1>2 DEF StartEtcd
  <2>2. m \in members /\ m \in Members /\ m.id \in 1..lastId BY DEF MemberOf, EtcdFits
  <2>3. [m EXCEPT !.named = TRUE] \in Members /\ [m EXCEPT !.named = TRUE].id = m.id
        /\ [m EXCEPT !.named = TRUE].node = m.node
    BY <2>2 DEF Members
  <2>4. db' \in [Nodes -> 0..lastId] BY <1>0, <2>1, <2>2 DEF EtcdFits
  <2>5. up' \subseteq Nodes BY <2>1 DEF EtcdFits
  <2>6. lastId' = lastId /\ asked' = asked BY <1>2 DEF StartEtcd, histVars
  <2> QED BY <2>1, <2>2, <2>3, <2>4, <2>5, <2>6, MemberReplaced
<1>3. CASE LeaveCluster(n)
  <2>1. CASE \E m \in MemberOf(n) : Delete(m)
    BY <1>3, <2>1, MemberRemoved DEF LeaveCluster, MemberOf
  <2>2. CASE up' = up \ {n} /\ UNCHANGED <<members, lastId, db>>
    BY <1>3, <2>2, SMTT(30) DEF LeaveCluster, EtcdFits, Grows, Ids
  <2> QED BY <1>3, <2>1, <2>2 DEF LeaveCluster
<1>4. CASE DeleteMember(n)
  <2>1. CASE \E m \in members : Delete(m)
    BY <1>4, <2>1, MemberRemoved DEF DeleteMember, passUnchanged
  <2>2. CASE UNCHANGED etcdVars
    BY <1>4, <2>2, SMTT(30) DEF DeleteMember, passUnchanged, etcdVars, EtcdFits, Grows, Ids
  <2> QED BY <1>4, <2>1, <2>2 DEF DeleteMember
<1>5. CASE PromoteMember(n)
  <2>1. ASSUME NEW m \in members, members' = (members \ {m}) \cup {[m EXCEPT !.voter = TRUE]}
        PROVE  EtcdFits' /\ Grows
    <3>1. m \in Members BY DEF EtcdFits
    <3>2. [m EXCEPT !.voter = TRUE] \in Members /\ [m EXCEPT !.voter = TRUE].id = m.id
          /\ [m EXCEPT !.voter = TRUE].node = m.node
      BY <3>1 DEF Members
    <3>3. db' \in [Nodes -> 0..lastId] /\ up' \subseteq Nodes /\ lastId' = lastId /\ asked' = asked
      BY <1>5 DEF PromoteMember, passUnchanged, EtcdFits
    <3> QED BY <2>1, <3>2, <3>3, MemberReplaced
  <2>2. CASE UNCHANGED members
    BY <1>5, <2>2, SMTT(30) DEF PromoteMember, passUnchanged, EtcdFits, Grows, Ids
  <2> QED BY <1>5, <2>1, <2>2 DEF PromoteMember
<1>6. CASE EtcdLeave(n)
  BY <1>6, MemberRemoved DEF EtcdLeave, MemberOf, histVars
<1>7. CASE UNCHANGED <<members, lastId>> /\ ~StartEtcd(n)
  <2>1. Ids' = Ids BY <1>7 DEF Ids
  <2>2. asked \subseteq asked' BY Frames DEF EditLeave
  <2>3. db' \in [Nodes -> 0..lastId]
    <3>1. CASE db' = db BY <3>1 DEF EtcdFits
    <3>2. CASE Reset(n) BY <1>0, <3>2 DEF Reset, EtcdFits
    <3> QED BY <1>7, <3>1, <3>2, Frames
  <2>4. lastId <= lastId' /\ lastId \in Nat /\ lastId' \in Nat BY <1>7, SMTT(30) DEF EtcdFits
  <2>5. up' \subseteq Nodes BY <1>7, Frames DEF EtcdFits
  <2> QED BY <1>7, <2>1, <2>2, <2>3, <2>4, <2>5 DEF EtcdFits, Grows
<1> QED BY <1>1, <1>2, <1>3, <1>4, <1>5, <1>6, <1>7, Frames

-----------------------------------------------------------------------------
(* The objects *)

\* What the writes make of an object that fits.
LEMMA ObjectEdits ==
  ASSUME NEW c, NEW last \in Nat, NEW requests, NEW ids, NEW i \in Nat,
         ObjectFits(c, last, requests, ids)
  PROVE  /\ ObjectFits([[c EXCEPT !.joined = "True"] EXCEPT !.own = FALSE], last, requests, ids)
         /\ c.id \notin ids =>
              ObjectFits([[c EXCEPT !.joined = "False"] EXCEPT !.own = FALSE], last, requests, ids)
         /\ c.leave /\ c.id # 0 =>
              ObjectFits([[c EXCEPT !.shut = c.inv] EXCEPT !.own = FALSE], last, requests, ids)
         /\ c.leave \/ <<c.id, c.inv>> \in requests =>
              ObjectFits([c EXCEPT !.leave = ~@, !.own = FALSE], last, requests, ids)
         /\ ObjectFits([c EXCEPT !.inv = i, !.shut = 0, !.leave = FALSE, !.own = TRUE],
                       last, requests, ids)
         /\ i <= last /\ c.own =>
              ObjectFits([c EXCEPT !.id = i, !.joined = "True", !.own = FALSE], last, requests, ids)
<1>0. c \in CRs /\ 0 \in Nat BY SMTT(30) DEF ObjectFits
<1>1. ObjectFits([[c EXCEPT !.joined = "True"] EXCEPT !.own = FALSE], last, requests, ids)
  <2> DEFINE d == [[c EXCEPT !.joined = "True"] EXCEPT !.own = FALSE]
  <2>1. /\ d \in CRs
        /\ d.id = c.id /\ d.joined = "True" /\ (d.leave <=> c.leave)
        /\ d.inv = c.inv /\ d.shut = c.shut /\ ~d.own
    BY <1>0 DEF CRs, Conditions
  <2> HIDE DEF d
  <2>2. ObjectFits(d, last, requests, ids) BY <2>1 DEF ObjectFits
  <2> QED BY <2>2 DEF d
<1>2. ASSUME c.id \notin ids
      PROVE  ObjectFits([[c EXCEPT !.joined = "False"] EXCEPT !.own = FALSE], last, requests, ids)
  <2> DEFINE d == [[c EXCEPT !.joined = "False"] EXCEPT !.own = FALSE]
  <2>1. /\ d \in CRs
        /\ d.id = c.id /\ d.joined = "False" /\ (d.leave <=> c.leave)
        /\ d.inv = c.inv /\ d.shut = c.shut /\ ~d.own
    BY <1>0 DEF CRs, Conditions
  <2> HIDE DEF d
  <2>2. ObjectFits(d, last, requests, ids) BY <1>2, <2>1 DEF ObjectFits
  <2> QED BY <2>2 DEF d
<1>3. ASSUME c.leave, c.id # 0
      PROVE  ObjectFits([[c EXCEPT !.shut = c.inv] EXCEPT !.own = FALSE], last, requests, ids)
  <2> DEFINE d == [[c EXCEPT !.shut = c.inv] EXCEPT !.own = FALSE]
  <2>1. /\ d \in CRs
        /\ d.id = c.id /\ d.joined = c.joined /\ (d.leave <=> c.leave)
        /\ d.inv = c.inv /\ d.shut = c.inv /\ ~d.own
    BY <1>0 DEF CRs, Conditions
  <2> HIDE DEF d
  <2>2. ObjectFits(d, last, requests, ids) BY <1>3, <2>1 DEF ObjectFits
  <2> QED BY <2>2 DEF d
<1>4. ASSUME c.leave \/ <<c.id, c.inv>> \in requests
      PROVE  ObjectFits([c EXCEPT !.leave = ~@, !.own = FALSE], last, requests, ids)
  <2> DEFINE d == [c EXCEPT !.leave = ~@, !.own = FALSE]
  <2>1. /\ d \in CRs
        /\ d.id = c.id /\ d.joined = c.joined /\ (d.leave <=> ~c.leave)
        /\ d.inv = c.inv /\ d.shut = c.shut /\ ~d.own
    BY <1>0 DEF CRs, Conditions
  <2> HIDE DEF d
  <2>2. ObjectFits(d, last, requests, ids) BY <1>4, <2>1 DEF ObjectFits
  <2> QED BY <2>2 DEF d
<1>5. ObjectFits([c EXCEPT !.inv = i, !.shut = 0, !.leave = FALSE, !.own = TRUE], last, requests, ids)
  <2> DEFINE d == [c EXCEPT !.inv = i, !.shut = 0, !.leave = FALSE, !.own = TRUE]
  <2>1. /\ d \in CRs
        /\ d.id = c.id /\ d.joined = c.joined /\ ~d.leave
        /\ d.inv = i /\ d.shut = 0 /\ d.own
    BY <1>0 DEF CRs, Conditions
  <2> HIDE DEF d
  <2>2. ObjectFits(d, last, requests, ids) BY <2>1 DEF ObjectFits
  <2> QED BY <2>2 DEF d
<1>6. ASSUME i <= last, c.own
      PROVE  ObjectFits([c EXCEPT !.id = i, !.joined = "True", !.own = FALSE], last, requests, ids)
  <2> DEFINE d == [c EXCEPT !.id = i, !.joined = "True", !.own = FALSE]
  <2>1. /\ d \in CRs
        /\ d.id = i /\ d.joined = "True" /\ (d.leave <=> c.leave)
        /\ d.inv = c.inv /\ d.shut = c.shut /\ ~d.own
    BY <1>0 DEF CRs, Conditions
  <2> HIDE DEF d
  <2>2. ObjectFits(d, last, requests, ids) BY <1>6, <2>1 DEF ObjectFits
  <2> QED BY <2>2 DEF d
<1> QED BY <1>1, <1>2, <1>3, <1>4, <1>5, <1>6

LEMMA NoObjectFits ==
  ASSUME NEW last \in Nat, NEW requests, NEW ids, NEW i \in Nat
  PROVE  /\ ObjectFits(NoCR, last, requests, ids)
         /\ ObjectFits([NoCR EXCEPT !.ex = TRUE, !.inv = i, !.own = TRUE], last, requests, ids)
<1> DEFINE d == [NoCR EXCEPT !.ex = TRUE, !.inv = i, !.own = TRUE]
<1>1. 0 \in Nat /\ 0 <= last BY SMTT(30)
<1>2. /\ NoCR \in CRs /\ NoCR.id = 0 /\ NoCR.joined = "none" /\ ~NoCR.leave
      /\ NoCR.shut = 0 /\ ~NoCR.own
  BY <1>1 DEF NoCR, CRs, Conditions
<1>3. d \in CRs /\ d.id = 0 /\ d.joined = "none" /\ ~d.leave /\ d.shut = 0 /\ d.own
  BY <1>2 DEF CRs
<1> HIDE DEF d
<1>4. ObjectFits(NoCR, last, requests, ids) BY <1>1, <1>2 DEF ObjectFits
<1>5. ObjectFits(d, last, requests, ids) BY <1>1, <1>3 DEF ObjectFits
<1> QED BY <1>4, <1>5 DEF d

\* One object is written, and fits; or none is.
LEMMA ObjectWritten ==
  ASSUME Objects, Grows, NEW m \in Nodes, NEW c, cr' = [cr EXCEPT ![m] = c],
         ObjectFits(c, lastId', asked', Ids')
  PROVE  Objects'
<1>1. c \in CRs BY DEF ObjectFits
<1>2. cr' \in [Nodes -> CRs] BY <1>1 DEF Objects
<1>3. ASSUME NEW o \in Nodes PROVE ObjectFits(cr'[o], lastId', asked', Ids')
  <2>1. CASE o = m BY <2>1 DEF Objects
  <2>2. CASE o # m BY <2>2, FittingLasts DEF Objects
  <2> QED BY <2>1, <2>2
<1> QED BY <1>2, <1>3 DEF Objects

LEMMA ObjectsKept ==
  ASSUME Objects, Grows, cr' = cr
  PROVE  Objects'
  BY FittingLasts DEF Objects

LEMMA ObjectPut ==
  ASSUME Objects, Grows, NEW n \in Nodes, NEW m \in Nodes, NEW c, Put(n, m, c),
         ObjectFits([c EXCEPT !.own = FALSE], lastId', asked', Ids')
  PROVE  Objects'
  BY ObjectsKept, ObjectWritten DEF Put

\* What a pass has listed still fits after the step.
LEMMA ListedFits ==
  ASSUME EtcdInv, Grows, NEW n \in Nodes, NEW m \in Nodes
  PROVE  ObjectFits(pass[n].crs[m], lastId', asked', Ids')
  BY FittingLasts DEF EtcdInv, PassesFit, PassFits

LEMMA ObjectsStep ==
  ASSUME EtcdInv, NEW n \in Nodes, Step(n), EtcdFits', Grows
  PROVE  Objects'
<1> USE DEF EtcdInv
<1>0. /\ lastId' \in Nat /\ lastId \in Nat /\ lastId <= lastId'
      /\ inv[n] \in Nat /\ db[n] \in Nat /\ db[n] <= lastId'
      /\ cr \in [Nodes -> CRs] /\ cr[n] \in CRs
      /\ ObjectFits(cr[n], lastId', asked', Ids')
  <2>1. inv[n] \in 0..MaxBoots /\ db[n] \in 0..lastId BY DEF RestFits, EtcdFits
  <2>2. inv[n] \in Nat /\ db[n] \in Nat /\ db[n] <= lastId'
    BY <2>1, EtcdAssumption, SMTT(30) DEF Grows
  <2> QED BY <2>2, FittingLasts DEF Objects, Grows
<1>1. CASE CreateMember(n)
  <2>1. CASE CreateObject(n) BY <1>0, <2>1, NoObjectFits, ObjectWritten DEF CreateObject
  <2>2. CASE ClaimObject(n)
    <3> DEFINE c == [cr[n] EXCEPT !.inv = inv[n], !.shut = 0, !.leave = FALSE, !.own = TRUE]
    <3>1. cr' = [cr EXCEPT ![n] = c] BY <1>0, <2>2 DEF ClaimObject, CRs
    <3>2. ObjectFits(c, lastId', asked', Ids') BY <1>0, ObjectEdits
    <3> QED BY <3>1, <3>2, ObjectWritten
  <2> QED BY <1>1, <2>1, <2>2 DEF CreateMember
<1>2. CASE StampMember(n)
  <2>1. CASE cr[n].own /\ cr' = [cr EXCEPT ![n].id = db[n], ![n].joined = "True", ![n].own = FALSE]
    <3> DEFINE c == [cr[n] EXCEPT !.id = db[n], !.joined = "True", !.own = FALSE]
    <3>1. cr' = [cr EXCEPT ![n] = c] BY <1>0, <2>1 DEF CRs
    <3>2. ObjectFits(c, lastId', asked', Ids') BY <1>0, <2>1, ObjectEdits
    <3> QED BY <3>1, <3>2, ObjectWritten
  <2>2. CASE cr' = cr BY <2>2, ObjectsKept
  <2> QED BY <1>2, <2>1, <2>2 DEF StampMember
<1>3. CASE EditLeave(n)
  <2> DEFINE c == [cr[n] EXCEPT !.leave = ~@, !.own = FALSE]
  <2>1. cr' = [cr EXCEPT ![n] = c] BY <1>0, <1>3 DEF EditLeave, CRs
  <2>2. cr[n].leave \/ <<cr[n].id, cr[n].inv>> \in asked' BY <1>3 DEF EditLeave
  <2>3. ObjectFits(c, lastId', asked', Ids') BY <1>0, <2>2, ObjectEdits
  <2> QED BY <2>1, <2>3, ObjectWritten
<1>4. ASSUME NEW m \in Nodes, ReconcileMember(n, m) PROVE Objects'
  <2> DEFINE c == pass[n].crs[m]
  <2>1. ObjectFits(c, lastId', asked', Ids') BY ListedFits
  <2>2. m \in pass[n].todo BY <1>4 DEF ReconcileMember
  <2>3. /\ c.id # 0
        /\ c.id \in pass[n].ids => c.leave
        /\ c.id \notin pass[n].ids => c.id \notin Ids
    BY <2>2 DEF PassesFit, PassFits
  <2>4. Ids' = Ids BY <1>4 DEF ReconcileMember, etcdVars, Ids
  <2>5. CASE c.id \notin pass[n].ids /\ Put(n, m, [c EXCEPT !.joined = "False"])
    <3>1. ObjectFits([[c EXCEPT !.joined = "False"] EXCEPT !.own = FALSE], lastId', asked', Ids')
      BY <1>0, <2>1, <2>3, <2>4, <2>5, ObjectEdits
    <3> QED BY <2>5, <3>1, ObjectPut
  <2>6. CASE c.id \in pass[n].ids /\ Put(n, m, [c EXCEPT !.shut = c.inv])
    <3>1. ObjectFits([[c EXCEPT !.shut = c.inv] EXCEPT !.own = FALSE], lastId', asked', Ids')
      BY <1>0, <2>1, <2>3, <2>6, ObjectEdits
    <3> QED BY <2>6, <3>1, ObjectPut
  <2>7. CASE UNCHANGED cr BY <2>7, ObjectsKept
  <2> QED BY <1>4, <2>5, <2>6, <2>7 DEF ReconcileMember
<1>5. CASE MarkLeft(n)
  <2> DEFINE m == pass[n].cur
             c == pass[n].crs[m]
  <2>1. pass[n].at = "deleted" BY <1>5 DEF MarkLeft, Resyncing
  <2>2. m \in Nodes /\ c.id \notin Ids BY <2>1 DEF PassesFit, PassFits
  <2>3. Ids' = Ids BY <1>5 DEF MarkLeft, etcdVars, Ids
  <2>4. ObjectFits(c, lastId', asked', Ids') BY <2>2, ListedFits
  <2>5. ObjectFits([[c EXCEPT !.joined = "False"] EXCEPT !.own = FALSE], lastId', asked', Ids')
    BY <1>0, <2>2, <2>3, <2>4, ObjectEdits
  <2>6. Put(n, m, [c EXCEPT !.joined = "False"]) BY <1>5 DEF MarkLeft
  <2> QED BY <2>2, <2>5, <2>6, ObjectPut
<1>6. CASE SetJoined(n)
  <2> DEFINE m == pass[n].cur
             c == pass[n].crs[m]
  <2>1. pass[n].at = "promoted" BY <1>6 DEF SetJoined, Resyncing
  <2>2. m \in Nodes BY <2>1 DEF PassesFit, PassFits
  <2>3. ObjectFits([[c EXCEPT !.joined = "True"] EXCEPT !.own = FALSE], lastId', asked', Ids')
    BY <1>0, <2>2, ListedFits, ObjectEdits
  <2>4. Put(n, m, [c EXCEPT !.joined = "True"]) \/ UNCHANGED cr BY <1>6 DEF SetJoined
  <2> QED BY <2>2, <2>3, <2>4, ObjectPut, ObjectsKept
<1>7. CASE UNCHANGED cr BY <1>7, ObjectsKept
<1> QED BY <1>1, <1>2, <1>3, <1>4, <1>5, <1>6, <1>7, Frames DEF Reconciles

-----------------------------------------------------------------------------
(* The resync passes *)

\* What the steps of a pass make of one that fits.
LEMMA PassEdits ==
  ASSUME NEW p, NEW last, NEW requests, NEW ids, NEW m, NEW i \in Nat,
         PassFits(p, last, requests, ids)
  PROVE  /\ m \in Nodes =>
              PassFits([p EXCEPT !.todo = @ \ {m}], last, requests, ids)
         /\ m \in Nodes /\ p.crs[m].leave =>
              PassFits([p EXCEPT !.at = "delete", !.cur = m, !.id = p.crs[m].id], last, requests, ids)
         /\ p.at = "delete" /\ p.id \notin ids =>
              PassFits([p EXCEPT !.at = "deleted"], last, requests, ids)
         /\ PassFits([p EXCEPT !.at = "items", !.todo = @ \ {m}, !.cur = NoNode, !.id = 0], last, requests, ids)
         /\ m \in Nodes =>
              PassFits([p EXCEPT !.at = "promote", !.cur = m, !.id = i], last, requests, ids)
         /\ p.at = "promote" =>
              PassFits([p EXCEPT !.at = "promoted"], last, requests, ids)
<1>0. p \in Passes /\ 0 \in Nat BY SMTT(30) DEF PassFits
<1>1. ASSUME m \in Nodes
      PROVE  PassFits([p EXCEPT !.todo = @ \ {m}], last, requests, ids)
  <2> DEFINE q == [p EXCEPT !.todo = @ \ {m}]
  <2>1. /\ q \in Passes
        /\ q.at = p.at /\ q.crs = p.crs /\ q.ids = p.ids
        /\ q.todo = p.todo \ {m} /\ q.cur = p.cur /\ q.id = p.id
    BY <1>0, <1>1 DEF Passes, Stages, CRs
  <2> HIDE DEF q
  <2>2. PassFits(q, last, requests, ids) BY <1>1, <2>1 DEF PassFits
  <2> QED BY <2>2 DEF q
<1>2. ASSUME m \in Nodes, p.crs[m].leave
      PROVE  PassFits([p EXCEPT !.at = "delete", !.cur = m, !.id = p.crs[m].id], last, requests, ids)
  <2> DEFINE q == [p EXCEPT !.at = "delete", !.cur = m, !.id = p.crs[m].id]
  <2>1. /\ q \in Passes
        /\ q.at = "delete" /\ q.crs = p.crs /\ q.ids = p.ids
        /\ q.todo = p.todo /\ q.cur = m /\ q.id = p.crs[m].id
    BY <1>0, <1>2 DEF Passes, Stages, CRs
  <2> HIDE DEF q
  <2>2. PassFits(q, last, requests, ids) BY <1>2, <2>1 DEF PassFits
  <2> QED BY <2>2 DEF q
<1>3. ASSUME p.at = "delete", p.id \notin ids
      PROVE  PassFits([p EXCEPT !.at = "deleted"], last, requests, ids)
  <2> DEFINE q == [p EXCEPT !.at = "deleted"]
  <2>1. /\ q \in Passes
        /\ q.at = "deleted" /\ q.crs = p.crs /\ q.ids = p.ids
        /\ q.todo = p.todo /\ q.cur = p.cur /\ q.id = p.id
    BY <1>0, <1>3 DEF Passes, Stages, CRs
  <2> HIDE DEF q
  <2>2. PassFits(q, last, requests, ids) BY <1>3, <2>1 DEF PassFits
  <2> QED BY <2>2 DEF q
<1>4. ASSUME TRUE
      PROVE  PassFits([p EXCEPT !.at = "items", !.todo = @ \ {m}, !.cur = NoNode, !.id = 0], last, requests, ids)
  <2> DEFINE q == [p EXCEPT !.at = "items", !.todo = @ \ {m}, !.cur = NoNode, !.id = 0]
  <2>1. /\ q \in Passes
        /\ q.at = "items" /\ q.crs = p.crs /\ q.ids = p.ids
        /\ q.todo = p.todo \ {m} /\ q.cur = NoNode /\ q.id = 0
    BY <1>0, <1>4 DEF Passes, Stages, CRs
  <2> HIDE DEF q
  <2>2. PassFits(q, last, requests, ids) BY <1>4, <2>1 DEF PassFits
  <2> QED BY <2>2 DEF q
<1>5. ASSUME m \in Nodes
      PROVE  PassFits([p EXCEPT !.at = "promote", !.cur = m, !.id = i], last, requests, ids)
  <2> DEFINE q == [p EXCEPT !.at = "promote", !.cur = m, !.id = i]
  <2>1. /\ q \in Passes
        /\ q.at = "promote" /\ q.crs = p.crs /\ q.ids = p.ids
        /\ q.todo = p.todo /\ q.cur = m /\ q.id = i
    BY <1>0, <1>5 DEF Passes, Stages, CRs
  <2> HIDE DEF q
  <2>2. PassFits(q, last, requests, ids) BY <1>5, <2>1 DEF PassFits
  <2> QED BY <2>2 DEF q
<1>6. ASSUME p.at = "promote"
      PROVE  PassFits([p EXCEPT !.at = "promoted"], last, requests, ids)
  <2> DEFINE q == [p EXCEPT !.at = "promoted"]
  <2>1. /\ q \in Passes
        /\ q.at = "promoted" /\ q.crs = p.crs /\ q.ids = p.ids
        /\ q.todo = p.todo /\ q.cur = p.cur /\ q.id = p.id
    BY <1>0, <1>6 DEF Passes, Stages, CRs
  <2> HIDE DEF q
  <2>2. PassFits(q, last, requests, ids) BY <1>6, <2>1 DEF PassFits
  <2> QED BY <2>2 DEF q
<1> QED BY <1>1, <1>2, <1>3, <1>4, <1>5, <1>6

LEMMA NoPassFits ==
  ASSUME NEW last \in Nat, NEW requests, NEW ids
  PROVE  NoPass \in Passes /\ PassFits(NoPass, last, requests, ids)
<1>1. 0 \in Nat BY SMTT(30)
<1>2. ObjectFits(NoCR, last, requests, ids) BY <1>1, NoObjectFits
<1>3. NoCR \in CRs BY <1>2 DEF ObjectFits
<1>4. /\ NoPass \in Passes
      /\ NoPass.at = "idle" /\ NoPass.todo = {} /\ NoPass.crs = [n \in Nodes |-> NoCR]
  BY <1>1, <1>3 DEF NoPass, Passes, Stages
<1> HIDE DEF NoPass
<1> QED BY <1>2, <1>4 DEF PassFits

\* The pass of n is another one that fits; or none changes.
LEMMA PassWritten ==
  ASSUME PassesFit, Grows, NEW n \in Nodes, NEW p, pass' = [pass EXCEPT ![n] = p],
         PassFits(p, lastId', asked', Ids')
  PROVE  PassesFit'
<1>1. p \in Passes BY DEF PassFits
<1>2. pass' \in [Nodes -> Passes] BY <1>1 DEF PassesFit
<1>3. ASSUME NEW o \in Nodes PROVE PassFits(pass'[o], lastId', asked', Ids')
  <2>1. CASE o = n BY <2>1 DEF PassesFit
  <2>2. CASE o # n BY <2>2, FittingLasts DEF PassesFit
  <2> QED BY <2>1, <2>2
<1> QED BY <1>2, <1>3 DEF PassesFit

LEMMA PassStep ==
  ASSUME EtcdInv, NEW n \in Nodes, Step(n), EtcdFits', Grows
  PROVE  PassesFit'
<1> USE DEF EtcdInv
<1> DEFINE p == pass[n]
<1>0. /\ lastId' \in Nat /\ lastId \in Nat /\ 0 \in Nat
      /\ pass \in [Nodes -> Passes] /\ p \in Passes
      /\ PassFits(p, lastId, asked, Ids) /\ PassFits(p, lastId', asked', Ids')
  <2>1. 0 \in Nat BY SMTT(30)
  <2> QED BY <2>1, FittingLasts DEF PassesFit, Grows
<1>1. CASE ListObjects(n)
  <2> DEFINE q == [NoPass EXCEPT !.at = "listed", !.crs = cr]
  <2>1. pass' = [pass EXCEPT ![n] = q] BY <1>1 DEF ListObjects
  <2>2. Ids' = Ids /\ lastId' = lastId /\ asked' = asked
    BY <1>1 DEF ListObjects, etcdVars, passUnchanged, Ids
  <2>3. NoPass \in Passes /\ NoPass.todo = {} BY <1>0, NoPassFits DEF NoPass
  <2>4. \A m \in Nodes : cr[m] \in CRs /\ ObjectFits(cr[m], lastId, asked, Ids)
    BY DEF Objects, ObjectFits
  <2>5. cr \in [Nodes -> CRs] BY DEF Objects
  <2>6. q \in Passes /\ q.at = "listed" /\ q.todo = {} /\ q.crs = cr
    BY <2>3, <2>5 DEF Passes, Stages
  <2> HIDE DEF q
  <2>7. PassFits(q, lastId, asked, Ids) BY <2>4, <2>6 DEF PassFits
  <2> QED BY <2>1, <2>2, <2>7, PassWritten
<1>9. CASE ListMembers(n)
  <2> DEFINE todo == {m \in Nodes : Acts(p.crs[m], Ids)}
             crs == [m \in Nodes |-> IF m \in todo \/ p.crs[m].joined # "True" THEN p.crs[m] ELSE NoCR]
             q == [NoPass EXCEPT !.at = "items", !.ids = Ids, !.todo = todo, !.crs = crs]
  <2>1. pass' = [pass EXCEPT ![n] = q] BY <1>9 DEF ListMembers
  <2>2. Ids' = Ids /\ lastId' = lastId /\ asked' = asked
    BY <1>9 DEF ListMembers, etcdVars, passUnchanged, Ids
  <2>3. Ids \subseteq Nat
    <3>1. \A m \in members : m.id \in Nat BY DEF EtcdFits, Members
    <3> QED BY <3>1 DEF Ids
  <2>4. \A m \in Nodes : crs[m] \in CRs /\ ObjectFits(crs[m], lastId, asked, Ids)
    <3>1. ObjectFits(NoCR, lastId, asked, Ids) BY <1>0, NoObjectFits
    <3>2. \A m \in Nodes : ObjectFits(p.crs[m], lastId, asked, Ids) BY <1>0 DEF PassFits
    <3>3. \A m \in Nodes : ObjectFits(crs[m], lastId, asked, Ids) BY <3>1, <3>2
    <3> QED BY <3>3 DEF ObjectFits
  <2>5. \A m \in todo : m \in Nodes /\ crs[m] = p.crs[m] /\ p.crs[m].id # 0
                        /\ (p.crs[m].id \in Ids => p.crs[m].leave)
    BY DEF Acts
  <2>6. crs \in [Nodes -> CRs] BY <2>4
  <2>7. NoPass \in Passes BY <1>0, NoPassFits
  <2>8. todo \subseteq Nodes OBVIOUS
  <2> HIDE DEF todo, crs
  <2>9. q \in Passes /\ q.at = "items" /\ q.ids = Ids /\ q.todo = todo /\ q.crs = crs
    BY <2>3, <2>6, <2>7, <2>8 DEF Passes, Stages
  <2> HIDE DEF q
  <2>10. PassFits(q, lastId, asked, Ids) BY <2>4, <2>5, <2>9 DEF PassFits
  <2> QED BY <2>1, <2>2, <2>10, PassWritten
<1>2. ASSUME NEW m \in Nodes, ReconcileMember(n, m) PROVE PassesFit'
  <2>1. CASE Done(n, m)
    <3>1. pass' = [pass EXCEPT ![n] = [p EXCEPT !.todo = @ \ {m}]] BY <1>0, <2>1 DEF Done, Passes
    <3> QED BY <1>0, <3>1, PassEdits, PassWritten
  <2>2. CASE /\ p.crs[m].id \in p.ids
             /\ pass' = [pass EXCEPT ![n].at = "delete", ![n].cur = m, ![n].id = p.crs[m].id]
    <3>1. pass' = [pass EXCEPT ![n] = [p EXCEPT !.at = "delete", !.cur = m, !.id = p.crs[m].id]]
      BY <1>0, <2>2 DEF Passes
    <3>2. m \in p.todo BY <1>2 DEF ReconcileMember
    <3>3. p.crs[m].leave BY <1>0, <2>2, <3>2 DEF PassFits
    <3>4. PassFits([p EXCEPT !.at = "delete", !.cur = m, !.id = p.crs[m].id], lastId', asked', Ids')
      BY <1>0, <3>3, PassEdits
    <3> QED BY <3>1, <3>4, PassWritten
  <2> QED BY <1>2, <2>1, <2>2 DEF ReconcileMember
<1>reset. PassFits([p EXCEPT !.at = "items", !.todo = @ \ {p.cur}, !.cur = NoNode, !.id = 0],
               lastId', asked', Ids')
  <2> HIDE DEF p
  <2> QED BY <1>0, PassEdits
<1>3. CASE DeleteMember(n)
  <2>1. p.at = "delete" BY <1>3 DEF DeleteMember, Resyncing
  <2>2. ASSUME NEW m \in members, m.id = p.id, Delete(m),
               pass' = [pass EXCEPT ![n].at = "deleted"]
        PROVE  PassesFit'
    <3>1. asked' = asked BY <1>3 DEF DeleteMember, passUnchanged
    <3>2. p.id \notin Ids' BY <2>2, <3>1, MemberRemoved
    <3>3. pass' = [pass EXCEPT ![n] = [p EXCEPT !.at = "deleted"]] BY <1>0, <2>2 DEF Passes
    <3> QED BY <1>0, <2>1, <3>2, <3>3, PassEdits, PassWritten
  <2>3. CASE pass' = [pass EXCEPT ![n].at = "items", ![n].todo = @ \ {pass[n].cur},
                                  ![n].cur = NoNode, ![n].id = 0]
    <3>1. pass' = [pass EXCEPT ![n] = [p EXCEPT !.at = "items", !.todo = @ \ {p.cur},
                                                !.cur = NoNode, !.id = 0]]
      BY <1>0, <2>3 DEF Passes
    <3> QED BY <1>reset, <3>1, PassWritten
  <2> QED BY <1>3, <2>2, <2>3 DEF DeleteMember
<1>4. CASE MarkLeft(n)
  <2>1. pass' = [pass EXCEPT ![n] = [p EXCEPT !.at = "items", !.todo = @ \ {p.cur},
                                              !.cur = NoNode, !.id = 0]]
    BY <1>0, <1>4 DEF MarkLeft, Passes
  <2> QED BY <1>reset, <2>1, PassWritten
<1>5. CASE pass' = [pass EXCEPT ![n] = NoPass]
  BY <1>0, <1>5, NoPassFits, PassWritten
<1>6. CASE PickLearner(n) /\ ~(pass' = [pass EXCEPT ![n] = NoPass])
  <2>1. PICK m \in members :
          pass' = [pass EXCEPT ![n].at = "promote", ![n].cur = m.node, ![n].id = m.id]
    BY <1>6 DEF PickLearner
  <2>2. m.node \in Nodes /\ m.id \in Nat BY DEF EtcdFits, Members
  <2>3. pass' = [pass EXCEPT ![n] = [p EXCEPT !.at = "promote", !.cur = m.node, !.id = m.id]]
    BY <1>0, <2>1 DEF Passes
  <2> QED BY <1>0, <2>2, <2>3, PassEdits, PassWritten
<1>7. CASE PromoteMember(n) /\ ~(pass' = [pass EXCEPT ![n] = NoPass])
  <2>1. p.at = "promote" BY <1>7 DEF PromoteMember, Resyncing
  <2>2. pass' = [pass EXCEPT ![n].at = "promoted"] BY <1>7 DEF PromoteMember
  <2>3. pass' = [pass EXCEPT ![n] = [p EXCEPT !.at = "promoted"]] BY <1>0, <2>2 DEF Passes
  <2> QED BY <1>0, <2>1, <2>3, PassEdits, PassWritten
<1>8. CASE UNCHANGED pass BY <1>8, FittingLasts DEF PassesFit
<1> QED BY <1>1, <1>2, <1>3, <1>4, <1>5, <1>6, <1>7, <1>8, <1>9, Frames DEF Reconciles

-----------------------------------------------------------------------------
(* The controllers *)

LEMMA PhaseStep ==
  ASSUME EtcdInv, NEW n \in Nodes, Step(n)
  PROVE  phase' = phase \/ \E x \in Phases : phase' = [phase EXCEPT ![n] = x]
<1>1. CASE Boot(n) BY <1>1 DEF Boot, Phases
<1>2. CASE JoinEtcd(n) BY <1>2 DEF JoinEtcd, Phases
<1>3. CASE StartEtcd(n) BY <1>3 DEF StartEtcd, Phases
<1>4. CASE FixupPeerURL(n) BY <1>4 DEF FixupPeerURL, Phases
<1>5. CASE CreateMember(n) BY <1>5 DEF CreateMember, CreateObject, ClaimObject, Phases
<1>6. CASE StampMember(n)
  <2>1. phase \in [Nodes -> Phases] BY DEF EtcdInv, RestFits
  <2>2. \E x \in {"run", "stopping", "ready"} : phase' = [phase EXCEPT ![n] = x]
    BY <1>6, <2>1 DEF StampMember
  <2> QED BY <2>2 DEF Phases
<1>7. CASE ShutdownIfMarked(n) BY <1>7 DEF ShutdownIfMarked, Phases
<1>8. CASE StopComponents(n) BY <1>8 DEF StopComponents, Phases
<1>9. CASE LeaveCluster(n) BY <1>9 DEF LeaveCluster, Phases
<1>10. CASE Crash(n) BY <1>10 DEF Crash, Phases
<1>11. CASE StopK0s(n) BY <1>11 DEF StopK0s, Phases
<1> QED BY <1>1, <1>2, <1>3, <1>4, <1>5, <1>6, <1>7, <1>8, <1>9, <1>10, <1>11, Frames DEF Life

LEMMA RestStep ==
  ASSUME EtcdInv, NEW n \in Nodes, Step(n)
  PROVE  RestFits'
<1> USE DEF EtcdInv
<1>1. phase' \in [Nodes -> Phases] BY PhaseStep DEF RestFits
<1>2. inv' \in [Nodes -> 0..MaxBoots]
  <2>1. CASE UNCHANGED inv BY <2>1 DEF RestFits
  <2>2. CASE Boot(n)
    <3>1. inv[n] \in 0..MaxBoots /\ inv[n] < MaxBoots /\ inv' = [inv EXCEPT ![n] = @ + 1]
      BY <2>2 DEF Boot, RestFits
    <3>2. inv[n] + 1 \in 0..MaxBoots BY <3>1, EtcdAssumption, SMTT(30)
    <3> QED BY <3>1, <3>2 DEF RestFits
  <2> QED BY <2>1, <2>2, Frames
<1>3. leaveOnStop' \subseteq Nodes
  <2>1. CASE Boot(n) BY <2>1 DEF Boot, RestFits
  <2>2. CASE ShutdownIfMarked(n) BY <2>2 DEF ShutdownIfMarked, RestFits
  <2>3. CASE UNCHANGED leaveOnStop BY <2>3 DEF RestFits
  <2> QED BY <2>1, <2>2, <2>3, Frames
<1>4. lease' \in [Nodes -> [holder : Nat, age : Ages]]
  <2>0. lease \in [Nodes -> [holder : Nat, age : Ages]] /\ inv[n] \in Nat /\ 0 \in Nat
    <3>1. inv[n] \in 0..MaxBoots BY DEF RestFits
    <3> QED BY <3>1, EtcdAssumption, SMTT(30) DEF RestFits
  <2>1. CASE HoldLease(n)
    <3>1. [holder |-> inv[n], age |-> "valid"] \in [holder : Nat, age : Ages] BY <2>0 DEF Ages
    <3> QED BY <2>0, <2>1, <3>1 DEF HoldLease
  <2>2. CASE AgeLease(n)
    <3> DEFINE l == [lease[n] EXCEPT !.age = IF @ = "valid" THEN "recent" ELSE "old"]
    <3>1. l \in [holder : Nat, age : Ages] BY <2>0 DEF Ages
    <3>2. lease' = [lease EXCEPT ![n] = l] BY <2>0, <2>2 DEF AgeLease
    <3> QED BY <2>0, <3>1, <3>2
  <2>3. CASE StopComponents(n)
    <3>1. [holder |-> 0, age |-> "recent"] \in [holder : Nat, age : Ages] BY <2>0 DEF Ages
    <3> QED BY <2>0, <2>3, <3>1 DEF StopComponents
  <2> QED BY <2>0, <2>1, <2>2, <2>3, Frames
<1>5. holder' \in Nodes \cup {NoNode} /\ lead' \subseteq Nodes /\ yielding' \subseteq Nodes
  BY Frames DEF RestFits
<1> QED BY <1>1, <1>2, <1>3, <1>4, <1>5 DEF RestFits

\* Only a controller's own createMemberObject changes whom its object names.
LEMMA ObjectNames ==
  ASSUME EtcdInv, NEW n \in Nodes, Step(n), NEW o \in Nodes
  PROVE  \/ cr'[o].id = cr[o].id /\ cr'[o].inv = cr[o].inv
         \/ o = n /\ (CreateMember(n) \/ StampMember(n))
<1> USE DEF EtcdInv
<1>0. cr \in [Nodes -> CRs] BY DEF Objects
<1>1. CASE UNCHANGED cr BY <1>1
<1>2. ASSUME NEW m \in Nodes, NEW d, d.id = cr[m].id, d.inv = cr[m].inv, cr' = [cr EXCEPT ![m] = d]
      PROVE  cr'[o].id = cr[o].id /\ cr'[o].inv = cr[o].inv
  BY <1>0, <1>2
<1>3. ASSUME NEW m \in Nodes, NEW j \in Conditions,
             Put(n, m, [pass[n].crs[m] EXCEPT !.joined = j])
      PROVE  cr'[o].id = cr[o].id /\ cr'[o].inv = cr[o].inv
  <2> DEFINE d == [[cr[m] EXCEPT !.joined = j] EXCEPT !.own = FALSE]
  <2>1. d.id = cr[m].id /\ d.inv = cr[m].inv BY <1>0 DEF CRs
  <2>2. cr' = [cr EXCEPT ![m] = d] \/ cr' = cr BY <1>3 DEF Put
  <2> QED BY <1>1, <1>2, <2>1, <2>2
<1>4. ASSUME NEW m \in Nodes, NEW s,
             Put(n, m, [pass[n].crs[m] EXCEPT !.shut = s])
      PROVE  cr'[o].id = cr[o].id /\ cr'[o].inv = cr[o].inv
  <2> DEFINE d == [[cr[m] EXCEPT !.shut = s] EXCEPT !.own = FALSE]
  <2>1. d.id = cr[m].id /\ d.inv = cr[m].inv BY <1>0 DEF CRs
  <2>2. cr' = [cr EXCEPT ![m] = d] \/ cr' = cr BY <1>4 DEF Put
  <2> QED BY <1>1, <1>2, <2>1, <2>2
<1>5. ASSUME NEW m \in Nodes, ReconcileMember(n, m)
      PROVE  cr'[o].id = cr[o].id /\ cr'[o].inv = cr[o].inv
  BY <1>1, <1>3, <1>4, <1>5 DEF ReconcileMember, Conditions
<1>6. ASSUME MarkLeft(n) \/ SetJoined(n)
      PROVE  cr'[o].id = cr[o].id /\ cr'[o].inv = cr[o].inv
  <2>1. pass[n].at \in {"deleted", "promoted"} BY <1>6 DEF MarkLeft, SetJoined, Resyncing
  <2>2. pass[n].cur \in Nodes BY <2>1 DEF PassesFit, PassFits
  <2> QED BY <1>1, <1>3, <1>6, <2>2 DEF MarkLeft, SetJoined, Conditions
<1>7. CASE EditLeave(n)
  <2> DEFINE d == [cr[n] EXCEPT !.leave = ~@, !.own = FALSE]
  <2>1. d.id = cr[n].id /\ d.inv = cr[n].inv BY <1>0 DEF CRs
  <2>2. cr' = [cr EXCEPT ![n] = d] BY <1>0, <1>7 DEF EditLeave, CRs
  <2> QED BY <1>2, <2>1, <2>2
<1>8. CASE o # n /\ CreateMember(n)
  BY <1>0, <1>8 DEF CreateMember, CreateObject, ClaimObject
<1>9. CASE o # n /\ StampMember(n)
  BY <1>0, <1>9 DEF StampMember
<1> QED BY <1>1, <1>5, <1>6, <1>7, <1>8, <1>9, Frames DEF Reconciles

\* A controller that nothing happens to.
LEMMA LifeKept ==
  ASSUME NEW o \in Nodes, LifeFits(o), asked \subseteq asked',
         phase'[o] = phase[o], inv'[o] = inv[o], db'[o] = db[o],
         cr'[o].id = cr[o].id, cr'[o].inv = cr[o].inv,
         o \in leaveOnStop' <=> o \in leaveOnStop
  PROVE  LifeFits(o)'
  BY DEF LifeFits

LEMMA LifeStep ==
  ASSUME EtcdInv, NEW n \in Nodes, Step(n), Grows, NEW o \in Nodes
  PROVE  LifeFits(o)'
<1> USE DEF EtcdInv
<1>0. /\ LifeFits(o) /\ asked \subseteq asked' /\ phase \in [Nodes -> Phases] /\ leaveOnStop \subseteq Nodes
      /\ DOMAIN inv = Nodes /\ DOMAIN db = Nodes /\ cr \in [Nodes -> CRs]
  BY DEF Lives, Grows, RestFits, EtcdFits, Objects
<1>1. CASE o # n
  <2>1. phase'[o] = phase[o] BY <1>0, <1>1, PhaseStep
  <2>2. inv'[o] = inv[o]
    <3>1. CASE Boot(n) BY <1>0, <1>1, <3>1 DEF Boot
    <3> QED BY <3>1, Frames
  <2>3. db'[o] = db[o]
    <3>1. CASE StartEtcd(n) BY <1>0, <1>1, <3>1 DEF StartEtcd
    <3>2. CASE Reset(n) BY <1>0, <1>1, <3>2 DEF Reset
    <3> QED BY <3>1, <3>2, Frames
  <2>4. o \in leaveOnStop' <=> o \in leaveOnStop
    <3>1. CASE Boot(n) BY <1>1, <3>1 DEF Boot
    <3>2. CASE ShutdownIfMarked(n) BY <1>1, <3>2 DEF ShutdownIfMarked
    <3> QED BY <3>1, <3>2, Frames
  <2> QED BY <1>0, <1>1, <2>1, <2>2, <2>3, <2>4, ObjectNames, LifeKept
<1> SUFFICES ASSUME o = n PROVE LifeFits(n)' BY <1>1
<1>2. CASE Boot(n)
  <2>1. inv[n] \in 0..MaxBoots BY DEF RestFits
  <2>2. inv[n] + 1 # 0 BY <2>1, EtcdAssumption, SMTT(30)
  <2>3. phase'[n] = "etcd" /\ inv'[n] = inv[n] + 1 /\ n \notin leaveOnStop' BY <1>0, <1>2 DEF Boot
  <2> QED BY <2>2, <2>3 DEF LifeFits
<1>3. CASE UNCHANGED <<inv, leaveOnStop>> /\ phase'[n] = "down"
  BY <1>3 DEF LifeFits
<1>4. CASE /\ JoinEtcd(n) \/ StartEtcd(n) \/ FixupPeerURL(n)
           /\ ~(UNCHANGED <<inv, leaveOnStop>> /\ phase'[n] = "down")
  <2>1. phase[n] \in {"etcd", "joined", "wait"} /\ phase'[n] \in {"etcd", "joined", "wait", "ready"}
    BY <1>0, <1>4 DEF JoinEtcd, StartEtcd, FixupPeerURL
  <2>2. inv' = inv /\ leaveOnStop' = leaveOnStop BY <1>4 DEF JoinEtcd, StartEtcd, FixupPeerURL
  <2> QED BY <1>0, <2>1, <2>2 DEF LifeFits
<1>5. CASE CreateMember(n)
  <2>1. phase[n] = "ready" /\ inv' = inv /\ leaveOnStop' = leaveOnStop BY <1>5 DEF CreateMember
  <2>2. CASE CreateObject(n)
    <3>1. phase'[n] = "stampNew" /\ cr'[n] = [NoCR EXCEPT !.ex = TRUE, !.inv = inv[n], !.own = TRUE]
      BY <1>0, <2>2 DEF CreateObject
    <3>2. cr'[n].id = 0 /\ cr'[n].inv = inv[n] BY <3>1 DEF NoCR
    <3> QED BY <1>0, <2>1, <3>1, <3>2 DEF LifeFits
  <2>3. CASE ClaimObject(n)
    <3> DEFINE d == [cr[n] EXCEPT !.inv = inv[n], !.shut = 0, !.leave = FALSE, !.own = TRUE]
    <3>1. phase'[n] = "stamp" /\ cr' = [cr EXCEPT ![n] = d] BY <1>0, <2>3 DEF ClaimObject, CRs
    <3>2. d.inv = inv[n] BY <1>0 DEF CRs
    <3> HIDE DEF d
    <3>3. cr'[n].inv = inv[n] BY <1>0, <3>1, <3>2
    <3> QED BY <1>0, <2>1, <3>1, <3>3 DEF LifeFits
  <2> QED BY <1>5, <2>2, <2>3 DEF CreateMember
<1>6. CASE StampMember(n)
  <2>1. phase[n] \in {"stampNew", "stamp"} /\ inv' = inv /\ leaveOnStop' = leaveOnStop /\ db' = db
    BY <1>6 DEF StampMember, etcdVars
  <2>2. n \notin leaveOnStop /\ inv[n] # 0 /\ cr[n].inv = inv[n] BY <1>0, <2>1 DEF LifeFits
  <2>3. CASE /\ cr' = [cr EXCEPT ![n].id = db[n], ![n].joined = "True", ![n].own = FALSE]
             /\ phase' = [phase EXCEPT ![n] = "run"]
    <3> DEFINE d == [cr[n] EXCEPT !.id = db[n], !.joined = "True", !.own = FALSE]
    <3>0. cr' = [cr EXCEPT ![n] = d] BY <1>0, <2>3 DEF CRs
    <3>1. cr'[n].id = db[n] /\ cr'[n].inv = cr[n].inv
      <4>1. d.id = db[n] /\ d.inv = cr[n].inv BY <1>0 DEF CRs
      <4> HIDE DEF d
      <4> QED BY <1>0, <3>0, <4>1
    <3>2. phase'[n] = "run" BY <1>0, <2>3
    <3> QED BY <2>1, <2>2, <3>1, <3>2 DEF LifeFits
  <2>4. CASE cr' = cr /\ phase' = [phase EXCEPT ![n] = IF @ = "stampNew" THEN "run" ELSE "stopping"]
    <3>1. phase'[n] = "stopping" \/ (phase'[n] = "run" /\ phase[n] = "stampNew") BY <1>0, <2>4
    <3> QED BY <1>0, <2>1, <2>2, <2>4, <3>1 DEF LifeFits
  <2>5. CASE cr' = cr /\ phase' = [phase EXCEPT ![n] = IF @ = "stampNew" THEN "run" ELSE "ready"]
    <3>1. phase'[n] = "ready" \/ (phase'[n] = "run" /\ phase[n] = "stampNew") BY <1>0, <2>5
    <3> QED BY <1>0, <2>1, <2>2, <2>5, <3>1 DEF LifeFits
  <2> QED BY <1>6, <2>3, <2>4, <2>5 DEF StampMember
<1>7. CASE ShutdownIfMarked(n)
  <2>1. /\ phase[n] = "run" /\ cr[n].shut = inv[n] /\ phase'[n] = "stopping"
        /\ inv' = inv /\ db' = db /\ cr' = cr /\ asked' = asked
        /\ leaveOnStop' = IF cr[n].leave THEN leaveOnStop \cup {n} ELSE leaveOnStop
    BY <1>0, <1>7 DEF ShutdownIfMarked, etcdVars, histVars
  <2>2. inv[n] # 0 /\ n \notin leaveOnStop /\ cr[n].id \in {0, db[n]} BY <1>0, <2>1 DEF LifeFits
  <2>3. <<cr[n].id, cr[n].inv>> \in asked /\ cr[n].id # 0 BY <2>1, <2>2 DEF Objects, ObjectFits
  <2>4. \E r \in asked : r[1] = db[n] BY <2>2, <2>3
  <2> QED BY <2>1, <2>2, <2>4 DEF LifeFits
<1>8. CASE StopComponents(n)
  <2>1. /\ phase[n] = "stopping" /\ inv' = inv /\ db' = db /\ leaveOnStop' = leaveOnStop /\ asked' = asked
        /\ phase'[n] = "down" \/ (phase'[n] = "leaving" /\ n \in leaveOnStop)
    BY <1>0, <1>8 DEF StopComponents, histVars
  <2> QED BY <1>0, <2>1 DEF LifeFits
<1>9. CASE LeaveCluster(n) \/ Crash(n)
  BY <1>0, <1>3, <1>9 DEF LeaveCluster, Crash
<1>10. CASE StopK0s(n)
  <2>1. phase[n] \in Active /\ phase'[n] = "stopping" /\ inv' = inv /\ leaveOnStop' = leaveOnStop
    BY <1>0, <1>10 DEF StopK0s
  <2>2. n \notin leaveOnStop /\ inv[n] # 0 BY <1>0, <2>1 DEF LifeFits, Active
  <2> QED BY <2>1, <2>2 DEF LifeFits
<1>11. CASE Reset(n)
  <2>1. phase[n] = "down" /\ phase' = phase /\ inv' = inv /\ leaveOnStop' = leaveOnStop
    BY <1>11 DEF Reset
  <2> QED BY <1>3, <2>1
<1>12. CASE ~Boot(n) /\ ~Life(n) /\ ~Crash(n) /\ ~StopK0s(n) /\ ~Reset(n)
  <2>1. UNCHANGED <<phase, inv, db, leaveOnStop>> BY <1>12, Frames DEF Life
  <2>2. cr'[n].id = cr[n].id /\ cr'[n].inv = cr[n].inv BY <1>12, ObjectNames DEF Life
  <2> QED BY <1>0, <2>1, <2>2, LifeKept
<1> QED BY <1>2, <1>3, <1>4, <1>5, <1>6, <1>7, <1>8, <1>9, <1>10, <1>11, <1>12 DEF Life

-----------------------------------------------------------------------------
(* Nobody leaves unasked *)

LEMMA GoneStep ==
  ASSUME EtcdInv, NEW n \in Nodes, Step(n), Grows
  PROVE  RemovedWereAsked'
<1> USE DEF EtcdInv
<1>0. asked \subseteq asked' BY DEF Grows
<1>1. CASE LeaveCluster(n)
  <2>1. phase[n] = "leaving" /\ \A id \in gone' : id \in gone \/ id = db[n]
    BY <1>1 DEF LeaveCluster
  <2>2. \E r \in asked : r[1] = db[n] BY <2>1 DEF Lives, LifeFits
  <2> QED BY <1>0, <2>1, <2>2 DEF RemovedWereAsked
<1>2. CASE DeleteMember(n)
  <2>1. pass[n].at = "delete" /\ \A id \in gone' : id \in gone \/ id = pass[n].id
    BY <1>2 DEF DeleteMember, Resyncing
  <2>2. LET c == pass[n].crs[pass[n].cur]
        IN  pass[n].cur \in Nodes /\ c.leave /\ c.id = pass[n].id
    BY <2>1 DEF PassesFit, PassFits
  <2>3. LET c == pass[n].crs[pass[n].cur] IN <<c.id, c.inv>> \in asked
    BY <2>2 DEF PassesFit, PassFits, ObjectFits
  <2>4. \E r \in asked : r[1] = pass[n].id BY <2>2, <2>3
  <2> QED BY <1>0, <2>1, <2>4 DEF RemovedWereAsked
<1>3. CASE UNCHANGED gone BY <1>0, <1>3 DEF RemovedWereAsked
<1> QED BY <1>1, <1>2, <1>3, Frames

\* The controllers can be numbered.
LEMMA Ranked ==
  /\ Cardinality(Nodes) \in Nat
  /\ Rank \in [Nodes -> 1..Cardinality(Nodes)]
  /\ \A m, n \in Nodes : Rank[m] = Rank[n] => m = n
  BY NumberedAssumption DEF Rank

LEMMA EtcdInitially ==
  ASSUME Init
  PROVE  EtcdInv
<1>1. PICK S \in Formations : Formed(S) BY DEF Init
<1>2. S \subseteq Nodes BY <1>1, EtcdAssumption
<1>3. /\ lastId = Cardinality(Nodes) /\ lastId \in Nat /\ Rank \in [Nodes -> 1..lastId]
  BY <1>1, Ranked DEF Formed
<1>4. /\ 0 \in Nat /\ 1 \in Nat /\ 1..lastId \subseteq 0..lastId /\ 0 \in 0..lastId /\ 1..lastId \subseteq Nat
      /\ 0 <= lastId /\ \A i \in 1..lastId : i <= lastId /\ i # 0
      /\ 0 \in 0..MaxBoots /\ 1 \in 0..MaxBoots /\ 1 # 0
  BY <1>3, EtcdAssumption, SMTT(30)
<1>5. EtcdFits
  <2> DEFINE M(n) == [id |-> Rank[n], node |-> n, voter |-> TRUE, named |-> TRUE]
  <2>1. members = {M(n) : n \in S} BY <1>1 DEF Formed
  <2>2. \A n \in S : M(n) \in Members /\ M(n).node = n /\ M(n).id = Rank[n] /\ Rank[n] \in 1..lastId
    BY <1>2, <1>3, <1>4 DEF Members
  <2> HIDE DEF M
  <2>3. ASSUME NEW m \in members PROVE m \in Members /\ m.id \in 1..lastId
    <3>1. PICK n \in S : m = M(n) BY <2>1
    <3> QED BY <2>2, <3>1
  <2>4. ASSUME NEW x \in members, NEW y \in members, x.id = y.id \/ x.node = y.node PROVE x = y
    <3>1. PICK n \in S : x = M(n) BY <2>1
    <3>2. PICK o \in S : y = M(o) BY <2>1
    <3>3. /\ n \in Nodes /\ x.id = Rank[n] /\ x.node = n
          /\ o \in Nodes /\ y.id = Rank[o] /\ y.node = o
      BY <1>2, <2>2, <3>1, <3>2
    <3>4. n = o BY <2>4, <3>3, Ranked
    <3> QED BY <3>1, <3>2, <3>4
  <2>5. db \in [Nodes -> 0..lastId] BY <1>1, <1>2, <1>3, <1>4 DEF Formed
  <2>6. up \subseteq Nodes BY <1>1, <1>2 DEF Formed
  <2> QED BY <1>3, <2>3, <2>4, <2>5, <2>6 DEF EtcdFits
<1>6. RestFits
  <2>1. phase \in [Nodes -> Phases] BY <1>1 DEF Formed, Phases
  <2>2. inv \in [Nodes -> 0..MaxBoots] BY <1>1, <1>4 DEF Formed
  <2>3. lease \in [Nodes -> [holder : Nat, age : Ages]]
    <3>1. [holder |-> 1, age |-> "valid"] \in [holder : Nat, age : Ages] BY <1>4 DEF Ages
    <3>2. NoLease \in [holder : Nat, age : Ages] BY <1>4 DEF NoLease, Ages
    <3> QED BY <1>1, <3>1, <3>2 DEF Formed
  <2> QED BY <1>1, <2>1, <2>2, <2>3 DEF Formed, RestFits
<1>7. Objects
  <2> DEFINE C(n) == [NoCR EXCEPT !.ex = TRUE, !.id = Rank[n], !.joined = "True", !.inv = 1]
  <2>1. cr = [n \in Nodes |-> IF n \in S THEN C(n) ELSE NoCR] BY <1>1 DEF Formed
  <2>2. ObjectFits(NoCR, lastId, asked, Ids) BY <1>3, <1>4, NoObjectFits
  <2>3. ASSUME NEW n \in S PROVE ObjectFits(C(n), lastId, asked, Ids)
    <3>1. NoCR \in CRs /\ ~NoCR.leave /\ ~NoCR.own /\ NoCR.shut = 0 BY <1>4 DEF NoCR, CRs, Conditions
    <3>2. Rank[n] \in Nat /\ Rank[n] <= lastId BY <1>2, <1>3, <1>4
    <3>3. /\ C(n) \in CRs /\ C(n).id = Rank[n] /\ C(n).joined = "True"
          /\ ~C(n).leave /\ ~C(n).own /\ C(n).shut = 0
      BY <1>4, <3>1, <3>2 DEF CRs, Conditions
    <3> HIDE DEF C
    <3> QED BY <3>2, <3>3 DEF ObjectFits
  <2> HIDE DEF C
  <2>4. \A n \in Nodes : ObjectFits(cr[n], lastId, asked, Ids) BY <2>1, <2>2, <2>3
  <2>5. \A n \in Nodes : cr[n] \in CRs BY <2>4 DEF ObjectFits
  <2> QED BY <2>1, <2>4, <2>5 DEF Objects
<1>8. PassesFit
  BY <1>1, <1>3, NoPassFits DEF Formed, PassesFit
<1>9. Lives
  <2>1. leaveOnStop = {} /\ \A n \in Nodes : n \notin S => phase[n] = "down" BY <1>1 DEF Formed
  <2>2. ASSUME NEW n \in S PROVE phase[n] = "run" /\ inv[n] = 1 /\ cr[n].inv = 1 /\ cr[n].id = db[n]
    BY <1>1, <1>2 DEF Formed, NoCR
  <2> QED BY <1>4, <2>1, <2>2 DEF Lives, LifeFits
<1>10. RemovedWereAsked BY <1>1 DEF Formed, RemovedWereAsked
<1> QED BY <1>5, <1>6, <1>7, <1>8, <1>9, <1>10 DEF EtcdInv

LEMMA EtcdInvStep ==
  ASSUME EtcdInv, [Next]_vars
  PROVE  EtcdInv'
<1>1. ASSUME NEW n \in Nodes, Step(n) PROVE EtcdInv'
  <2>1. EtcdFits' /\ Grows BY <1>1, EtcdStep
  <2>2. RestFits' BY <1>1, RestStep
  <2>3. Objects' BY <1>1, <2>1, ObjectsStep
  <2>4. PassesFit' BY <1>1, <2>1, PassStep
  <2>5. Lives' BY <1>1, <2>1, LifeStep DEF Lives
  <2>6. RemovedWereAsked' BY <1>1, <2>1, GoneStep
  <2> QED BY <2>1, <2>2, <2>3, <2>4, <2>5, <2>6 DEF EtcdInv
<1>2. CASE UNCHANGED vars
  BY <1>2 DEF vars, EtcdInv, EtcdFits, RestFits, Objects, PassesFit, Lives, LifeFits,
              RemovedWereAsked, Ids
<1> QED BY <1>1, <1>2 DEF Next, Step

LEMMA EtcdInvSuffices ==
  ASSUME EtcdInv
  PROVE  OnlyAskedLeave
<1> USE DEF EtcdInv
<1>1. ASSUME NEW n \in Nodes
      PROVE  /\ cr[n].id \in 0..lastId /\ cr[n].joined \in Conditions /\ cr[n].shut \in {0, cr[n].inv}
             /\ lease[n].age \in Ages
  <2>1. cr[n] \in CRs /\ cr[n].id <= lastId /\ lastId \in Nat BY DEF Objects, ObjectFits, EtcdFits
  <2>2. cr[n].id \in Nat /\ cr[n].joined \in Conditions BY <2>1 DEF CRs
  <2>3. cr[n].id \in 0..lastId BY <2>1, <2>2, SMTT(30)
  <2>4. cr[n].shut \in {0, cr[n].inv} BY DEF Objects, ObjectFits
  <2>5. lease[n].age \in Ages BY DEF RestFits
  <2> QED BY <2>2, <2>3, <2>4, <2>5
<1>2. \A m \in members : m.node \in Nodes /\ m.voter \in BOOLEAN /\ m.named \in BOOLEAN
  BY DEF EtcdFits, Members
<1>3. TypeOK BY <1>1, <1>2 DEF TypeOK, EtcdFits, RestFits, Conditions, Ages
<1>4. ShutdownWasAsked
  <2>1. ASSUME NEW n \in Nodes, cr[n].shut # 0
        PROVE  \E r \in asked : r[2] = cr[n].shut /\ r[1] = cr[n].id
    <3>1. <<cr[n].id, cr[n].inv>> \in asked /\ cr[n].shut = cr[n].inv BY <2>1 DEF Objects, ObjectFits
    <3> QED BY <3>1
  <2> QED BY <2>1 DEF ShutdownWasAsked
<1>5. NotJoinedIsGone BY DEF NotJoinedIsGone, Objects, ObjectFits
<1> QED BY <1>3, <1>4, <1>5 DEF OnlyAskedLeave

\* For any number of controllers, starts, leave requests and troubles, and whatever
\* the leader has listed before: the leave protocol only removes members whose leave
\* was requested, only invocations of which it was requested are told to shut down,
\* and only members that are gone are reported as not joined
\* (etcd_member_reconciler.go, etcd.go).
THEOREM NobodyLeavesUnasked == Spec => []OnlyAskedLeave
<1>1. Init => EtcdInv BY EtcdInitially
<1>2. EtcdInv /\ [Next]_vars => EtcdInv' BY EtcdInvStep
<1>3. EtcdInv => OnlyAskedLeave BY EtcdInvSuffices
<1> QED BY <1>1, <1>2, <1>3, PTL DEF Spec
===========================================================================
