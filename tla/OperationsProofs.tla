-------------------------- MODULE OperationsProofs --------------------------
(***************************************************************************)
(* What is done to running nodes is done with care, for any requests,      *)
(* targets, mount tables, faults and numbers of commands: only whole       *)
(* bundles of the right request are reported as Completed, the verdict of  *)
(* the probes is the worst of them, and a reset spares mounted volumes and *)
(* leaves nothing behind.                                                  *)
(***************************************************************************)
EXTENDS MCOperations, TLAPS

\* Zenon is the prover, and SMT that of the leaves that name it; agNames is only an
\* abbreviation.
USE ZenonT(60) DEF agNames

-----------------------------------------------------------------------------
(* The readiness probes *)

Outcomes == {"running", "ready", "unready", "unresolved", "cancelled"}

\* The verdict so far: unresolved once a target was found not to exist, and none as
\* long as no probe has failed.
ProbesFit ==
  /\ roProbes \in [Targets -> Outcomes]
  /\ roResult \in {"none", "unready", "unresolved", "cancelled"}
  /\ roResult = "unresolved" <=> \E t \in Targets : roProbes[t] = "unresolved"
  /\ roResult = "none" <=> \A t \in Targets : roProbes[t] \in {"running", "ready"}

LEMMA ProbesStep ==
  ASSUME ProbesFit, [RoNext]_roVars
  PROVE  ProbesFit'
<1>1. CASE UNCHANGED roProbing BY <1>1 DEF roProbing, ProbesFit
<1>2. ASSUME NEW target \in Targets, ProbeOne(target) PROVE ProbesFit'
  <2>1. PICK outcome \in {"ready", "unready", "unresolved", "cancelled"} :
          /\ outcome = "cancelled" => \E t \in Targets : roProbes[t] = "unresolved"
          /\ roProbes' = [roProbes EXCEPT ![target] = outcome]
          /\ roResult' = IF outcome = "ready" THEN roResult ELSE MoreSevere(roResult, outcome)
    BY <1>2 DEF ProbeOne
  <2>2. roProbes[target] = "running" BY <1>2 DEF ProbeOne
  <2>3. /\ roProbes' \in [Targets -> Outcomes] /\ roProbes'[target] = outcome
        /\ \A t \in Targets : t # target => roProbes'[t] = roProbes[t]
    BY <2>1 DEF ProbesFit, Outcomes
  <2>4. (\E t \in Targets : roProbes'[t] = "unresolved") <=>
          outcome = "unresolved" \/ \E t \in Targets : roProbes[t] = "unresolved"
    BY <2>2, <2>3
  <2>5. (\A t \in Targets : roProbes'[t] \in {"running", "ready"}) <=>
          outcome = "ready" /\ \A t \in Targets : roProbes[t] \in {"running", "ready"}
    BY <2>1, <2>2, <2>3
  <2>6. roResult' \in {"none", "unready", "unresolved", "cancelled"}
    BY <2>1 DEF MoreSevere, ProbesFit
  <2>7. roResult' = "unresolved" <=> outcome = "unresolved" \/ roResult = "unresolved"
    BY <2>1 DEF MoreSevere
  <2>8. roResult' = "none" <=> outcome = "ready" /\ roResult = "none"
    BY <2>1 DEF MoreSevere
  <2> QED BY <2>3, <2>4, <2>5, <2>6, <2>7, <2>8 DEF ProbesFit
<1>3. RoRun \/ RoManager \/ RootStops \/ LeaseTurnsOver \/ ClusterComesUp => UNCHANGED roProbing
  BY DEF RoRun, RoManager, Setup, RunBegins, LeaseEvent, LeaseReconfigures, WorkerRetries,
         LabelNodeLease, PatchNodeLease, RegisterControllers, ManagerRuns, ManagerEnds, RootStops, LeaseTurnsOver, ClusterComesUp
<1>4. UNCHANGED roVars => UNCHANGED roProbing BY DEF roVars, roProbing
<1> QED BY <1>1, <1>2, <1>3, <1>4 DEF RoNext

LEMMA ProbesSuffice == ProbesFit => ProbeVerdictIsWorst
<1> SUFFICES ASSUME ProbesFit, \A t \in Targets : roProbes[t] # "running"
             PROVE  /\ ReadyForUpdate(roResult) = "Incomplete"
                         <=> \E t \in Targets : roProbes[t] = "unresolved"
                    /\ ReadyForUpdate(roResult) = "CanUpdate"
                         <=> \A t \in Targets : roProbes[t] = "ready"
  BY DEF ProbeVerdictIsWorst
<1>1. (\A t \in Targets : roProbes[t] \in {"running", "ready"}) <=> \A t \in Targets : roProbes[t] = "ready"
  OBVIOUS
<1>2. ReadyForUpdate(roResult) = "Incomplete" <=> roResult = "unresolved"
  BY SMTT(30) DEF ReadyForUpdate, ProbesFit
<1>3. ReadyForUpdate(roResult) = "CanUpdate" <=> roResult = "none"
  BY SMTT(30) DEF ReadyForUpdate, ProbesFit
<1> QED BY <1>1, <1>2, <1>3 DEF ProbesFit

-----------------------------------------------------------------------------
(* Airgap updates *)

Signals == [req : Requests \cup {NoRequest}, status : Ended \cup {"none", "Downloading"}, rv : Nat]
Bundles == [of : Requests \cup {NoRequest, "else"}, whole : BOOLEAN, safe : BOOLEAN]

AgTypes ==
  /\ agSignal \in Signals /\ agCache \in Signals
  /\ agSig \in [at : {"idle", "update"}, seen : Signals]
  /\ agDl \in [at : {"idle", "open", "transfer", "verify", "sync", "rename", "update"},
               seen : Signals, status : Ended \cup {"none"}]
  /\ agTemp \in Bundles /\ agFile \in Bundles /\ agDisk \in Bundles

\* What one looks at is as old as its version: the download controller saw what the
\* cache had, and the cache what the node had.  Whoever still looks at an earlier
\* version of a request that is Completed looks at the same request.
Dated ==
  /\ agCache.rv <= agSignal.rv
  /\ agCache.rv = agSignal.rv => agCache = agSignal
  /\ agDl.at # "idle" =>
       /\ agDl.seen.rv <= agCache.rv
       /\ agDl.seen.rv = agCache.rv => agDl.seen = agCache
  /\ agSignal.status = "Completed" =>
       /\ agCache.req = agSignal.req
       /\ agDl.at # "idle" => agDl.seen.req = agSignal.req

\* How far the download has got says what is known of its file, and only a file that
\* is whole, on the disk and checked gets its name; what the directory on the disk
\* has is such a file, too, but nothing is known of whose it is.
Checked ==
  /\ agFile.whole /\ agFile.safe /\ agDisk.whole /\ agDisk.safe
  /\ agDl.at \in {"verify", "sync", "rename"} => agTemp.whole
  /\ agDl.at = "rename" => agTemp.safe
  /\ agDl.at = "transfer" => agTemp.of = agDl.seen.req
  /\ agDl.at = "verify" => agTemp.of \in {agDl.seen.req, "else"}
  /\ agDl.at \in {"sync", "rename"} =>
       agTemp.of = agDl.seen.req \/ (agDl.seen.req \notin Hashed /\ agTemp.of = "else")
  /\ Answers(agRecord)
  /\ agDl.at = "update" /\ agDl.status = "Completed" => Answers(agDl.seen.req)
  /\ agSignal.status = "Completed" /\ ~agReverted => Answers(agSignal.req)

AirgapInv == AgTypes /\ Dated /\ Checked

\* The steps of a download change neither the node nor what was seen of it.
LEMMA DownloadSteps ==
  ASSUME AgTypes, Downloading
  PROVE  /\ AgTypes' /\ agDl' = [agDl EXCEPT !.at = agDl'.at, !.status = agDl'.status]
         /\ agDl.at # "idle" /\ agDl'.at # "idle" /\ UNCHANGED <<agSignal, agCache, agSig>>
<1>0. NoFile \in Bundles BY DEF NoFile, Bundles
<1>1. DownloadFails => AgTypes' /\ agDl' = [agDl EXCEPT !.at = "update", !.status = "FailedDownload"]
  BY <1>0 DEF DownloadFails, AgTypes, Downloading, Ended
<1>2. CASE OpenAtomic
  <2>1. [of |-> agDl.seen.req, whole |-> FALSE, safe |-> FALSE] \in Bundles
    BY DEF AgTypes, Signals, Bundles
  <2> QED BY <1>1, <1>2, <2>1 DEF OpenAtomic, DownloadGoes, AgTypes, Downloading
<1>3. CASE TransferBundle BY <1>1, <1>3 DEF TransferBundle, DownloadGoes, AgTypes, Bundles, Downloading
<1>4. CASE VerifyHash BY <1>1, <1>4 DEF VerifyHash, DownloadGoes, AgTypes, Downloading
<1>5. CASE SyncAtomic BY <1>1, <1>5 DEF SyncAtomic, DownloadGoes, AgTypes, Bundles, Downloading
<1>6. CASE RenameAtomic BY <1>0, <1>1, <1>6 DEF RenameAtomic, AgTypes, Ended, Downloading
<1> QED BY <1>2, <1>3, <1>4, <1>5, <1>6 DEF Downloading

LEMMA DownloadIsChecked ==
  ASSUME AirgapInv, Downloading
  PROVE  AirgapInv'
<1>1. AgTypes' BY DownloadSteps DEF AirgapInv
<1>2. Dated' BY DownloadSteps DEF AirgapInv, Dated, AgTypes
<1>3. Checked'
  <2>1. ASSUME DownloadFails PROVE Checked'
    <3>1. agDl'.at = "update" /\ agDl'.status = "FailedDownload" /\ UNCHANGED <<agSignal, agNames, agRecord>>
      BY <2>1 DEF DownloadFails, Downloading, AirgapInv, AgTypes
    <3> QED BY <3>1 DEF AirgapInv, Checked, Answers
  <2>2. CASE OpenAtomic
    <3>1. CASE DownloadGoes("transfer") /\ agTemp' = [of |-> agDl.seen.req, whole |-> FALSE, safe |-> FALSE]
                 /\ UNCHANGED <<agNames, agRecord>>
      <4>1. agDl'.at = "transfer" /\ agDl'.seen = agDl.seen /\ agTemp'.of = agDl.seen.req
        BY <3>1 DEF DownloadGoes, AirgapInv, AgTypes
      <4> QED BY <3>1, <4>1 DEF Downloading, AirgapInv, Checked, Answers
    <3> QED BY <2>1, <2>2, <3>1 DEF OpenAtomic
  <2>3. CASE TransferBundle
    BY <2>1, <2>3 DEF TransferBundle, DownloadGoes, Downloading, AirgapInv, AgTypes, Bundles, Checked, Answers
  <2>4. CASE VerifyHash
    BY <2>1, <2>4 DEF VerifyHash, DownloadGoes, Downloading, AirgapInv, AgTypes, Checked, Answers
  <2>5. CASE SyncAtomic
    BY <2>1, <2>5 DEF SyncAtomic, DownloadGoes, Downloading, AirgapInv, AgTypes, Bundles, Checked, Answers
  <2>6. CASE RenameAtomic
    <3>1. CASE /\ agDl' = [agDl EXCEPT !.at = "update", !.status = "Completed"]
               /\ agFile' = agTemp /\ agRecord' = agDl.seen.req /\ UNCHANGED agDisk
      <4>1. agDl.at = "rename" /\ agDl'.at = "update" /\ agDl'.seen = agDl.seen /\ UNCHANGED agSignal
        BY <2>6, <3>1 DEF RenameAtomic, Downloading, AirgapInv, AgTypes
      <4>2. /\ agFile'.whole /\ agFile'.safe
            /\ agFile'.of = agDl.seen.req \/ (agDl.seen.req \notin Hashed /\ agFile'.of = "else")
        BY <3>1, <4>1 DEF AirgapInv, Checked
      <4>3. \A request : request = agDl.seen.req => Answers(request)' BY <4>2 DEF Answers
      <4>4. agSignal.status = "Completed" => agDl.seen.req = agSignal.req BY <4>1 DEF AirgapInv, Dated
      <4>5. Answers(agRecord)' /\ Answers(agDl.seen.req)' BY <3>1, <4>1, <4>3 DEF Answers
      <4>6. agSignal'.status = "Completed" => Answers(agSignal.req)' BY <4>1, <4>3, <4>4 DEF Answers
      <4> QED BY <3>1, <4>1, <4>2, <4>5, <4>6 DEF AirgapInv, Checked
    <3> QED BY <2>1, <2>6, <3>1 DEF RenameAtomic
  <2> QED BY <2>2, <2>3, <2>4, <2>5, <2>6 DEF Downloading
<1> QED BY <1>1, <1>2, <1>3 DEF AirgapInv

LEMMA UpdatesAreDated ==
  ASSUME AirgapInv, NEW reconciler, NEW seen \in Signals, NEW status \in Ended \cup {"none", "Downloading"},
         UpdateNode(reconciler, seen, status), UNCHANGED <<agCache, agFile, agReverted>>,
         status = "Completed" => agDl.at # "idle" /\ seen = agDl.seen /\ Answers(seen.req),
         agDl' \in [at : {"idle", "open", "transfer", "verify", "sync", "rename", "update"},
                    seen : Signals, status : Ended \cup {"none"}],
         agDl' = agDl \/ agDl'.at = "idle"
  PROVE  agSignal' \in Signals /\ Dated' /\ (agSignal'.status = "Completed" /\ ~agReverted' => Answers(agSignal.req)')
<1>1. CASE UNCHANGED agSignal
  BY <1>1, SMTT(30) DEF AirgapInv, Dated, Checked, Answers, AgTypes, Signals
<1>2. CASE seen.rv = agSignal.rv /\ agSignal' = [agSignal EXCEPT !.status = status, !.rv = @ + 1]
  <2>1. /\ agSignal' \in Signals /\ agSignal'.rv = agSignal.rv + 1
        /\ agSignal'.req = agSignal.req /\ agSignal'.status = status
    <3>1. agSignal.rv + 1 \in Nat BY SMTT(30) DEF AirgapInv, AgTypes, Signals
    <3> QED BY <1>2, <3>1 DEF AirgapInv, AgTypes, Signals
  <2>2. status = "Completed" => agCache.req = agSignal.req /\ seen.req = agSignal.req
    <3> SUFFICES ASSUME status = "Completed" PROVE agCache.req = agSignal.req /\ seen.req = agSignal.req
      OBVIOUS
    <3>1. seen = agDl.seen /\ agDl.at # "idle" OBVIOUS
    <3>2. agCache.rv \in Nat /\ agSignal.rv \in Nat BY DEF AirgapInv, AgTypes, Signals
    <3>3. agCache.rv = agSignal.rv BY <1>2, <3>1, <3>2, SMTT(30) DEF AirgapInv, Dated
    <3> QED BY <1>2, <3>1, <3>3 DEF AirgapInv, Dated
  <2> QED BY <2>1, <2>2, SMTT(30) DEF AirgapInv, Dated, Answers, AgTypes, Signals
<1> QED BY <1>1, <1>2 DEF UpdateNode

LEMMA AirgapStep ==
  ASSUME AirgapInv, [AgNext]_agVars
  PROVE  AirgapInv'
<1>1. CASE UNCHANGED agVars
  <2>1. UNCHANGED <<agSignal, agCache, agSig, agDl, agTemp, agNames, agRecord>> BY <1>1 DEF agVars
  <2>2. AgTypes' BY <2>1 DEF AirgapInv, AgTypes
  <2>3. Dated' BY <2>1 DEF AirgapInv, Dated
  <2>4. Checked' BY <2>1 DEF AirgapInv, Checked, Answers
  <2> QED BY <2>2, <2>3, <2>4 DEF AirgapInv
<1>2. CASE CacheFollows
  <2>1. AgTypes' /\ Checked' BY <1>2 DEF CacheFollows, AirgapInv, AgTypes, Checked, Answers
  <2>2. Dated' BY <1>2, SMTT(30) DEF CacheFollows, AirgapInv, AgTypes, Signals, Dated
  <2> QED BY <2>1, <2>2 DEF AirgapInv
<1>3. CASE SignalReconcile
  BY <1>3 DEF SignalReconcile, AirgapInv, AgTypes, Dated, Checked, Answers
<1>4. CASE SignalHandle
  <2>1. agSig.seen \in Signals /\ agSig' \in [at : {"idle", "update"}, seen : Signals]
    BY <1>4 DEF SignalHandle, AirgapInv, AgTypes
  <2>2. agSignal' \in Signals /\ Dated' /\ (agSignal'.status = "Completed" /\ ~agReverted' => Answers(agSignal.req)')
    BY <1>4, <2>1, UpdatesAreDated DEF SignalHandle, AirgapInv, AgTypes, Ended
  <2> QED BY <1>4, <2>1, <2>2 DEF SignalHandle, AirgapInv, AgTypes, Checked, Answers
<1>5. CASE DownloadReconcile
  <2>1. \/ agDl' = agDl
        \/ agDl' = [at |-> "update", seen |-> agCache, status |-> "Completed"] /\ agRecord = agCache.req
        \/ agDl' = [at |-> "open", seen |-> agCache, status |-> "none"]
    BY <1>5, SMTT(30) DEF DownloadReconcile, ReusableDownload
  <2>2. AgTypes' BY <1>5, <2>1 DEF DownloadReconcile, AirgapInv, AgTypes, Ended
  <2>3. Dated' BY <1>5, <2>1, SMTT(30) DEF DownloadReconcile, AirgapInv, AgTypes, Signals, Dated
  <2>4. \/ agDl' = agDl \/ agDl'.at = "open"
        \/ agDl'.at = "update" /\ agDl'.seen = agCache /\ agRecord = agCache.req
    BY <2>1, SMTT(30)
  <2>5. Checked' BY <1>5, <2>4 DEF DownloadReconcile, AirgapInv, Checked, Answers
  <2> QED BY <2>2, <2>3, <2>5 DEF AirgapInv
<1>6. CASE Downloading BY <1>6, DownloadIsChecked
<1>7. CASE DownloadUpdate
  <2>1. /\ agDl.seen \in Signals /\ agDl.status \in Ended \cup {"none"}
        /\ agDl'.at = "idle"
        /\ agDl' \in [at : {"idle", "open", "transfer", "verify", "sync", "rename", "update"},
                       seen : Signals, status : Ended \cup {"none"}]
    BY <1>7 DEF DownloadUpdate, AirgapInv, AgTypes
  <2>2. agSignal' \in Signals /\ Dated' /\ (agSignal'.status = "Completed" /\ ~agReverted' => Answers(agSignal.req)')
    BY <1>7, <2>1, UpdatesAreDated DEF DownloadUpdate, AirgapInv, Checked
  <2> QED BY <1>7, <2>1, <2>2 DEF DownloadUpdate, AirgapInv, AgTypes, Checked, Answers
<1>8. CASE NewManager /\ UNCHANGED agSignal /\ (RebuildManager \/ NodeGoesDown)
  <2>1. /\ agFile' \in Bundles /\ agFile'.whole /\ agFile'.safe
        /\ agDisk' \in Bundles /\ agDisk'.whole /\ agDisk'.safe
        /\ ~agReverted' => agFile' = agFile /\ ~agReverted
    <3>1. CASE UNCHANGED agNames BY <3>1 DEF AirgapInv, AgTypes, Checked
    <3>2. CASE /\ agFile' = [agDisk EXCEPT !.whole = agDisk.whole /\ agDisk.safe]
               /\ agDisk' = agFile' /\ agReverted' = (agReverted \/ agDisk # agFile)
      <4>1. agDisk \in Bundles /\ agDisk.whole = TRUE /\ agDisk.safe = TRUE
        BY DEF AirgapInv, AgTypes, Checked, Bundles
      <4>2. agFile' = agDisk BY <3>2, <4>1 DEF Bundles
      <4> QED BY <3>2, <4>1, <4>2
    <3> QED BY <1>8, <3>1, <3>2 DEF RebuildManager, NodeGoesDown
  <2>2. /\ agDl'.at = "idle" /\ agDl' \in [at : {"idle", "open", "transfer", "verify", "sync", "rename", "update"},
                                         seen : Signals, status : Ended \cup {"none"}]
        /\ agSig' \in [at : {"idle", "update"}, seen : Signals]
    BY <1>8 DEF NewManager, AirgapInv, AgTypes
  <2>3. NoFile \in Bundles /\ NoRequest \notin Requests
    BY AirgapAssumption DEF NoFile, NoRequest, Bundles
  <2>4. AgTypes' BY <1>8, <2>1, <2>2, <2>3 DEF NewManager, AirgapInv, AgTypes
  <2>5. Dated' BY <1>8, <2>2, SMTT(30) DEF NewManager, AirgapInv, AgTypes, Signals, Dated
  <2>6. Checked' BY <1>8, <2>1, <2>2, <2>3 DEF NewManager, AirgapInv, Checked, Answers
  <2> QED BY <2>4, <2>5, <2>6 DEF AirgapInv
<1>9. CASE RemoveBundle
  <2>1. NoFile \in Bundles /\ NoFile.whole /\ NoFile.safe /\ NoFile.of = NoRequest
    BY DEF NoFile, Bundles
  <2> QED BY <1>9, <2>1 DEF RemoveBundle, AirgapInv, AgTypes, Dated, Checked, Answers
<1>10. ASSUME NEW request \in Requests, PutRequest(request) PROVE AirgapInv'
  <2>1. /\ agSignal' \in Signals /\ agSignal'.rv = agSignal.rv + 1 /\ agSignal'.status = "none"
    BY <1>10, SMTT(30) DEF PutRequest, AirgapInv, AgTypes, Signals
  <2>2. AgTypes' /\ Checked' BY <1>10, <2>1 DEF PutRequest, AirgapInv, AgTypes, Checked, Answers
  <2>3. Dated' BY <1>10, <2>1, SMTT(30) DEF PutRequest, AirgapInv, AgTypes, Signals, Dated
  <2> QED BY <2>2, <2>3 DEF AirgapInv
<1>11. CASE FlushDirectory
  BY <1>11 DEF FlushDirectory, AirgapInv, AgTypes, Dated, Checked, Answers
<1> QED
  BY <1>1, <1>2, <1>3, <1>4, <1>5, <1>6, <1>7, <1>8, <1>9, <1>10, <1>11
     DEF AgNext, AgSignalController, AgDownloadController, RebuildManager, NodeGoesDown

LEMMA AirgapInitially == AgInit => AirgapInv
<1> SUFFICES ASSUME AgInit PROVE AirgapInv
  OBVIOUS
<1>1. [req |-> NoRequest, status |-> "none", rv |-> 0] \in Signals BY SMTT(30) DEF Signals
<1>2. NoFile \in Bundles /\ NoFile.whole /\ NoFile.safe /\ NoRequest \notin Requests
  BY AirgapAssumption DEF NoFile, NoRequest, Bundles
<1>3. AgTypes BY <1>1, <1>2 DEF AgInit, AgTypes
<1>4. Dated BY SMTT(30) DEF AgInit, Dated
<1>5. Checked BY <1>2 DEF AgInit, Checked, Answers
<1> QED BY <1>3, <1>4, <1>5 DEF AirgapInv

LEMMA AirgapSuffices == AirgapInv => BundleIsWhole
BY DEF AirgapInv, Checked, Answers, BundleIsWhole

-----------------------------------------------------------------------------
(* Resetting a host *)

Mounts == UNION {Range(t) : t \in Tables}

HoTypes ==
  /\ hoTable \in Seq(Mounts)
  /\ DOMAIN hoCmd = {"op", "at", "ok", "list", "files", "silent"}
  /\ hoCmd.op = "reset" => hoCmd.list \in Seq(Mounts) /\ hoCmd.ok \in BOOLEAN

Without(s, k) == SubSeq(s, 1, k - 1) \o SubSeq(s, k + 1, Len(s))
Shorter(list) == SubSeq(list, 1, Len(list) - 1)

\* The walk over the mounts has got to the end of its list: the list is how the table
\* begins, and what the table has behind it is left mounted.
Walked ==
  /\ Len(hoCmd.list) <= Len(hoTable)
  /\ \A i \in 1..Len(hoCmd.list) : hoCmd.list[i] = hoTable[i]
  /\ \A i \in 1..Len(hoTable) : i > Len(hoCmd.list) => Skipped(hoTable[i][1])

\* A volume that is mounted where a reset unmounts it has its data.
VolumesLive == \A i \in 1..Len(hoTable) : ~Skipped(hoTable[i][1]) => hoTable[i][2] \in hoVolumes

\* How far a reset has got, and what is gone by then unless it met an error.
ResetFits ==
  hoCmd.op = "reset" =>
    /\ ~hoLocked /\ hoCmd.at \in {1, 2, 3, 5, 99}
    /\ hoCmd.at = 3 => Walked
    /\ hoCmd.at \in {3, 5, 99} /\ hoCmd.ok /\ ~hoCmd.silent => "controller" \notin hoServices
    /\ hoCmd.at \in {5, 99} /\ hoCmd.ok =>
         hoDisk = EmptyDisk /\ \A i \in 1..Len(hoTable) : LeftMounted(hoTable[i][1])

Resetting == HoTypes /\ VolumesLive /\ ResetFits

\* Once k0s was started during a reset nothing is claimed any more.
ResetInv == ~hoIntruded => Resetting

\* What is behind the k-th element moves up when it is removed.
LEMMA Removed ==
  ASSUME NEW S, NEW s \in Seq(S), NEW k \in 1..Len(s)
  PROVE  /\ Without(s, k) \in Seq(S) /\ Len(Without(s, k)) = Len(s) - 1
         /\ \A i \in 1..Len(s) - 1 : Without(s, k)[i] = IF i < k THEN s[i] ELSE s[i + 1]
<1> DEFINE a == SubSeq(s, 1, k - 1)
           b == SubSeq(s, k + 1, Len(s))
<1>1. Len(s) \in Nat /\ k \in Nat BY SMTT(30)
<1>2. a \in Seq(S) /\ Len(a) = k - 1 /\ \A i \in 1..k - 1 : a[i] = s[i]
  BY <1>1, SMTT(30)
<1>3. b \in Seq(S) /\ Len(b) = Len(s) - k /\ \A i \in 1..Len(s) - k : b[i] = s[k + i]
  BY <1>1, SMTT(30)
<1>4. Without(s, k) = a \o b BY DEF Without
<1> HIDE DEF a, b
<1>5. a \o b \in Seq(S) /\ Len(a \o b) = Len(s) - 1
  <2>1. a \in Seq(S) /\ b \in Seq(S) BY <1>2, <1>3
  <2>2. a \o b \in Seq(S) /\ Len(a \o b) = Len(a) + Len(b) BY <2>1, SMTT(30)
  <2>3. (k - 1) + (Len(s) - k) = Len(s) - 1 BY <1>1, SMTT(30)
  <2> QED BY <1>2, <1>3, <2>2, <2>3
<1>6. ASSUME NEW i \in 1..Len(s) - 1 PROVE (a \o b)[i] = IF i < k THEN s[i] ELSE s[i + 1]
  <2>1. CASE i < k BY <1>1, <1>2, <1>3, <2>1, SMTT(30)
  <2>2. CASE i >= k
    <3>1. i \in Nat /\ i - (k - 1) \in 1..Len(s) - k /\ k + (i - (k - 1)) = i + 1
      BY <1>1, <2>2, SMTT(30)
    <3>2. (a \o b)[i] = b[i - (k - 1)] BY <1>1, <1>2, <1>3, <2>2, <3>1, SMTT(30)
    <3> QED BY <1>1, <1>3, <2>2, <3>1, <3>2, SMTT(30)
  <2>3. i < k \/ i >= k BY <1>1, SMTT(30)
  <2> QED BY <2>1, <2>2, <2>3
<1> QED BY <1>4, <1>5, <1>6

\* The unmount takes off the mount the walk has got to: what lies behind it on the
\* table is left mounted, so it is at another path.
LEMMA UnmountsTheLast ==
  ASSUME HoTypes, hoCmd.op = "reset", Walked, hoCmd.list # <<>>, ~Skipped(hoCmd.list[Len(hoCmd.list)][1])
  PROVE  LET k == Len(hoCmd.list)
             t == Unmounted(hoTable, hoCmd.list[Len(hoCmd.list)][1])
         IN  /\ k \in 1..Len(hoTable) /\ t \in Seq(Mounts) /\ Len(t) = Len(hoTable) - 1
             /\ \A i \in 1..Len(t) : t[i] = IF i < k THEN hoTable[i] ELSE hoTable[i + 1]
<1> DEFINE k == Len(hoCmd.list)
           path == hoCmd.list[Len(hoCmd.list)][1]
           at == {i \in DOMAIN hoTable : hoTable[i][1] = path}
<1>1. hoTable \in Seq(Mounts) /\ hoCmd.list \in Seq(Mounts) BY DEF HoTypes
<1>2. k \in 1..Len(hoTable) /\ hoTable[k] = hoCmd.list[Len(hoCmd.list)] /\ Len(hoTable) \in Nat
  BY <1>1, SMTT(30) DEF Walked
<1>3. k \in at /\ \A i \in at : i \in 1..Len(hoTable) /\ i <= k
  BY <1>1, <1>2, SMTT(30) DEF Walked
<1>4. LastAt(hoTable, path) = k
  <2>1. \A x \in at : (\A y \in at : x >= y) => x = k BY <1>2, <1>3, SMTT(30)
  <2>2. \A y \in at : k >= y BY <1>2, <1>3, SMTT(30)
  <2>3. LastAt(hoTable, path) = CHOOSE x \in at : \A y \in at : x >= y BY DEF LastAt, Max
  <2> HIDE DEF at
  <2> QED BY <1>3, <2>1, <2>2, <2>3
<1>5. \E m \in Range(hoTable) : m[1] = path
  BY <1>1, <1>2, SMTT(30) DEF Range
<1>6. Unmounted(hoTable, path) = Without(hoTable, k) BY <1>4, <1>5 DEF Unmounted, Without
<1> HIDE DEF k, path
<1>7. /\ Unmounted(hoTable, path) \in Seq(Mounts) /\ Len(Unmounted(hoTable, path)) = Len(hoTable) - 1
      /\ \A i \in 1..Len(Unmounted(hoTable, path)) :
           Unmounted(hoTable, path)[i] = IF i < k THEN hoTable[i] ELSE hoTable[i + 1]
  BY <1>1, <1>2, <1>6, Removed
<1> QED BY <1>2, <1>7 DEF k, path

\* Nothing that another command does concerns a reset.
LEMMA OtherCommands ==
  ASSUME Resetting, UNCHANGED <<hoSetup, hoTable, hoVolumes>>,
         DOMAIN hoCmd' = {"op", "at", "ok", "list", "files", "silent"}, hoCmd'.op # "reset"
  PROVE  Resetting'
BY DEF Resetting, HoTypes, VolumesLive, ResetFits, Skipped, LeftMounted

LEMMA OthersStep ==
  ASSUME Resetting,
         \/ BackupStep \/ CreateArchive \/ RestoreDatabase \/ RestoreFiles \/ CommandEnds
         \/ InstallService \/ RunBackup \/ RunRestore
  PROVE  Resetting'
<1>0. /\ DOMAIN NoCommand = {"op", "at", "ok", "list", "files", "silent"} /\ NoCommand.op = "none"
  BY DEF NoCommand
<1>1. UNCHANGED <<hoSetup, hoTable, hoVolumes>>
  BY DEF BackupStep, CreateArchive, RestoreDatabase, RestoreFiles, CommandEnds, InstallService,
         RunBackup, RunRestore
<1>2. DOMAIN hoCmd' = {"op", "at", "ok", "list", "files", "silent"} /\ hoCmd'.op # "reset"
  <2>1. CASE CommandEnds \/ InstallService \/ RunBackup \/ RunRestore
    BY <1>0, <2>1 DEF CommandEnds, InstallService, Commands, RunBackup, RunRestore
  <2>2. CASE BackupStep \/ CreateArchive
    <3>1. hoCmd.op = "backup" BY <2>2 DEF BackupStep, CreateArchive
    <3>2. DOMAIN hoCmd' = DOMAIN hoCmd /\ hoCmd'.op = hoCmd.op
      BY <2>2 DEF BackupStep, CreateArchive, Returns, Resetting, HoTypes
    <3> QED BY <3>1, <3>2 DEF Resetting, HoTypes
  <2>3. CASE RestoreDatabase \/ RestoreFiles
    <3>1. hoCmd.op = "restore" BY <2>3 DEF RestoreDatabase, RestoreFiles
    <3>2. DOMAIN hoCmd' = DOMAIN hoCmd /\ hoCmd'.op = hoCmd.op
      BY <2>3 DEF RestoreDatabase, RestoreFiles, Returns, GoesOn, Resetting, HoTypes
    <3> QED BY <3>1, <3>2 DEF Resetting, HoTypes
  <2> QED BY <2>1, <2>2, <2>3
<1> QED BY <1>1, <1>2, OtherCommands

\* The service may be started and stopped at any time, and the cluster writes while it
\* runs; a reset that it runs into is one that k0s was started during.
LEMMA ServiceStep ==
  ASSUME Resetting, StartInstalledService \/ StopService \/ ClusterWrites, ~hoIntruded'
  PROVE  Resetting'
<1>1. CASE StopService
  BY <1>1 DEF StopService, Resetting, HoTypes, VolumesLive, ResetFits, Walked, Skipped, LeftMounted
<1>2. CASE ClusterWrites
  <2>1. hoCmd.op # "reset" BY <1>2 DEF ClusterWrites, Resetting, ResetFits
  <2> QED BY <1>2, <2>1 DEF ClusterWrites, Resetting, HoTypes, VolumesLive, ResetFits, Skipped, LeftMounted
<1>3. CASE StartInstalledService
  <2>1. PICK t \in Tables : (hoTable = <<>> => hoTable' = t) /\ (hoTable # <<>> => hoTable' = hoTable)
    BY <1>3 DEF StartInstalledService, NewRuntimeConfig
  <2>2. t \in Seq(Mounts) BY HostAssumption, SMTT(30) DEF Mounts
  <2>3. hoTable' \in Seq(Mounts) BY <2>1, <2>2 DEF Resetting, HoTypes
  <2>4. HoTypes' BY <1>3, <2>3 DEF StartInstalledService, Resetting, HoTypes
  <2>5. VolumesLive'
    <3>1. CASE hoTable = <<>>
      <4>1. hoVolumes' = {m[2] : m \in Range(hoTable')} BY <1>3, <3>1 DEF StartInstalledService, NewRuntimeConfig
      <4>2. \A i \in 1..Len(hoTable') : hoTable'[i] \in Range(hoTable') BY <2>3, SMTT(30) DEF Range
      <4> QED BY <4>1, <4>2 DEF VolumesLive
    <3>2. CASE hoTable # <<>>
      BY <1>3, <2>1, <3>2 DEF StartInstalledService, NewRuntimeConfig, Resetting, VolumesLive, Skipped, LeftMounted
    <3> QED BY <3>1, <3>2
  <2>6. hoCmd'.op # "reset" BY <1>3 DEF StartInstalledService, NewRuntimeConfig
  <2> QED BY <2>4, <2>5, <2>6 DEF Resetting, ResetFits
<1> QED BY <1>1, <1>2, <1>3

\* The first steps: nothing is unmounted or removed yet, and the controller's service
\* is the first to be uninstalled.
LEMMA ResetBegins ==
  ASSUME Resetting, RunUninstall \/ CleanupContainers \/ CleanupServices
  PROVE  Resetting'
<1>1. UNCHANGED <<hoSetup, hoTable, hoVolumes, hoLocked, hoDisk>>
  BY DEF RunUninstall, CleanupContainers, CleanupServices
<1>2. VolumesLive' BY <1>1 DEF Resetting, VolumesLive, Skipped, LeftMounted
<1>3. CASE RunUninstall
  <2>1. /\ DOMAIN hoCmd' = {"op", "at", "ok", "list", "files", "silent"}
        /\ hoCmd'.op = "reset" /\ hoCmd'.at = 1 /\ hoCmd'.list = <<>> /\ hoCmd'.ok /\ ~hoLocked
    BY <1>3 DEF RunUninstall, NoCommand
  <2>2. <<>> \in Seq(Mounts) BY SMTT(30)
  <2>3. HoTypes' BY <1>1, <2>1, <2>2 DEF Resetting, HoTypes
  <2>4. ResetFits' BY <1>1, <2>1, SMTT(30) DEF ResetFits
  <2> QED BY <1>1, <1>2, <2>3, <2>4 DEF Resetting
<1>4. CASE CleanupContainers
  <2>1. /\ DOMAIN hoCmd' = DOMAIN hoCmd /\ hoCmd'.op = "reset" /\ hoCmd'.at = 2
        /\ hoCmd'.list = hoCmd.list /\ hoCmd'.ok = hoCmd.ok /\ hoCmd.op = "reset"
    BY <1>4 DEF CleanupContainers, GoesOn, Resetting, HoTypes
  <2>2. HoTypes' BY <1>1, <2>1 DEF Resetting, HoTypes
  <2>3. ResetFits' BY <1>1, <2>1, SMTT(30) DEF Resetting, ResetFits
  <2> QED BY <1>1, <1>2, <2>2, <2>3 DEF Resetting
<1>5. CASE CleanupServices
  <2>1. /\ DOMAIN hoCmd' = DOMAIN hoCmd /\ hoCmd'.op = "reset" /\ hoCmd'.at = 3
        /\ hoCmd'.list = hoTable /\ hoCmd'.ok \in BOOLEAN /\ hoCmd.op = "reset"
    BY <1>5 DEF CleanupServices, Resetting, HoTypes
  <2>2. hoCmd'.ok /\ ~hoCmd'.silent => "controller" \notin hoServices'
    <3>1. PICK failing \in SUBSET hoServices : \E hushed \in SUBSET failing :
            LET able == hoServices \ failing
                ok == able # {} \/ failing = hushed
            IN  /\ hoServices' = hoServices \ (IF "controller" \in able THEN {"controller"} ELSE able)
                /\ hoCmd' = [hoCmd EXCEPT !.at = 3, !.list = hoTable, !.ok = @ /\ ok,
                                          !.silent = "controller" \in failing /\ ok]
      BY <1>5 DEF CleanupServices
    <3>2. hoCmd'.ok /\ ~hoCmd'.silent => "controller" \notin failing
      BY <3>1 DEF Resetting, HoTypes
    <3> QED BY <3>1, <3>2
  <2>3. HoTypes' BY <1>1, <2>1 DEF Resetting, HoTypes
  <2>4. Walked'
    <3>1. Len(hoTable') \in Nat BY <1>1, SMTT(30) DEF Resetting, HoTypes
    <3> QED BY <1>1, <2>1, <3>1, SMTT(30) DEF Walked
  <2>5. ResetFits' BY <1>1, <2>1, <2>2, <2>4, SMTT(30) DEF Resetting, ResetFits
  <2> QED BY <1>1, <1>2, <2>3, <2>5 DEF Resetting
<1> QED BY <1>3, <1>4, <1>5

\* One mount after the other is taken off, from the last one on.
LEMMA UnmountStep ==
  ASSUME Resetting, UnmountBackwards
  PROVE  Resetting'
<1> DEFINE path == hoCmd.list[Len(hoCmd.list)][1]
           k == Len(hoCmd.list)
<1>1. /\ hoCmd.op = "reset" /\ hoCmd.at = 3 /\ hoCmd.list # <<>>
      /\ UNCHANGED <<hoSetup, hoServices, hoLocked, hoDisk, hoVolumes>>
  BY DEF UnmountBackwards
<1>2. /\ hoTable \in Seq(Mounts) /\ hoCmd.list \in Seq(Mounts) /\ hoCmd.ok \in BOOLEAN
      /\ DOMAIN hoCmd = {"op", "at", "ok", "list", "files", "silent"}
  BY <1>1 DEF Resetting, HoTypes
<1>3. Walked /\ VolumesLive /\ ~hoLocked /\ (hoCmd.ok /\ ~hoCmd.silent => "controller" \notin hoServices)
  BY <1>1, SMTT(30) DEF Resetting, ResetFits
<1>4. /\ k \in Nat \ {0} /\ Shorter(hoCmd.list) \in Seq(Mounts) /\ Len(Shorter(hoCmd.list)) = k - 1
      /\ \A i \in 1..k - 1 : Shorter(hoCmd.list)[i] = hoCmd.list[i]
  <2>1. k \in Nat \ {0} BY <1>1, <1>2, SMTT(30)
  <2>2. hoCmd.list \in Seq(Mounts) /\ Shorter(hoCmd.list) = SubSeq(hoCmd.list, 1, k - 1) BY <1>2 DEF Shorter
  <2> QED BY <2>1, <2>2, SMTT(30)
<1>5. CASE Skipped(path) /\ hoCmd' = [hoCmd EXCEPT !.list = SubSeq(@, 1, Len(@) - 1)] /\ UNCHANGED hoTable
  <2>1. /\ DOMAIN hoCmd' = DOMAIN hoCmd /\ hoCmd'.op = "reset" /\ hoCmd'.at = 3
        /\ hoCmd'.list = Shorter(hoCmd.list) /\ hoCmd'.ok = hoCmd.ok /\ hoCmd'.silent = hoCmd.silent
    BY <1>1, <1>2, <1>5 DEF Shorter
  <2>2. HoTypes' BY <1>2, <1>4, <1>5, <2>1 DEF HoTypes
  <2>3. VolumesLive' BY <1>1, <1>3, <1>5 DEF VolumesLive, Skipped, LeftMounted
  <2>4. Walked'
    <3>1. hoTable[k] = hoCmd.list[Len(hoCmd.list)] BY <1>2, <1>3, <1>4, SMTT(30) DEF Walked
    <3>2. \A i \in 1..Len(hoTable) : i > k - 1 => Skipped(hoTable[i][1])
      <4>1. \A i \in 1..Len(hoTable) : i > k - 1 => i = k \/ i > k BY <1>4, SMTT(30)
      <4> QED BY <1>3, <1>5, <3>1, <4>1 DEF Walked
    <3>3. \A x : Skipped(x)' <=> Skipped(x) BY <1>1 DEF Skipped, LeftMounted
    <3>4. k - 1 <= Len(hoTable) /\ \A i \in 1..k - 1 : Shorter(hoCmd.list)[i] = hoTable[i]
      BY <1>2, <1>3, <1>4, SMTT(30) DEF Walked
    <3> QED BY <1>4, <1>5, <2>1, <3>2, <3>3, <3>4 DEF Walked
  <2>5. ResetFits' BY <1>1, <1>3, <2>1, <2>4, SMTT(30) DEF ResetFits
  <2> QED BY <1>1, <2>2, <2>3, <2>5 DEF Resetting
<1>6. CASE /\ ~Skipped(path) /\ hoTable' = Unmounted(hoTable, path)
           /\ hoCmd' = [hoCmd EXCEPT !.list = SubSeq(@, 1, Len(@) - 1)]
  <2>1. /\ DOMAIN hoCmd' = DOMAIN hoCmd /\ hoCmd'.op = "reset" /\ hoCmd'.at = 3
        /\ hoCmd'.list = Shorter(hoCmd.list) /\ hoCmd'.ok = hoCmd.ok /\ hoCmd'.silent = hoCmd.silent
    BY <1>1, <1>2, <1>6 DEF Shorter
  <2>2. /\ k \in 1..Len(hoTable) /\ hoTable' \in Seq(Mounts) /\ Len(hoTable') = Len(hoTable) - 1
        /\ \A i \in 1..Len(hoTable') : hoTable'[i] = IF i < k THEN hoTable[i] ELSE hoTable[i + 1]
    BY <1>1, <1>3, <1>6, UnmountsTheLast DEF Resetting
  <2> HIDE DEF k, path
  <2>3. HoTypes' BY <1>2, <1>4, <2>1, <2>2 DEF HoTypes
  <2>4. \A x : Skipped(x)' <=> Skipped(x) BY <1>1 DEF Skipped, LeftMounted
  <2>5. \A i \in 1..Len(hoTable') : \E j \in 1..Len(hoTable) : hoTable'[i] = hoTable[j] /\ (i >= k => j > k)
    <3> TAKE i \in 1..Len(hoTable')
    <3>1. Len(hoTable) \in Nat /\ k \in Nat BY <1>2, <1>4, SMTT(30)
    <3>2. CASE i < k
      <4>1. i \in 1..Len(hoTable) /\ ~(i >= k) BY <2>2, <3>1, <3>2, SMTT(30)
      <4> QED BY <2>2, <3>2, <4>1
    <3>3. CASE ~(i < k)
      <4>1. i + 1 \in 1..Len(hoTable) /\ i + 1 > k BY <2>2, <3>1, <3>3, SMTT(30)
      <4> QED BY <2>2, <3>3, <4>1
    <3> QED BY <3>2, <3>3
  <2>6. VolumesLive' BY <1>1, <1>3, <2>4, <2>5 DEF VolumesLive
  <2>7. Walked'
    <3>1. k - 1 <= Len(hoTable') BY <1>2, <1>4, <2>2, SMTT(30)
    <3>2. ASSUME NEW i \in 1..k - 1 PROVE Shorter(hoCmd.list)[i] = hoTable'[i]
      <4>1. Len(hoTable) \in Nat /\ k \in Nat BY <1>2, <1>4, SMTT(30)
      <4>2. i < k /\ i \in 1..Len(hoTable') /\ i \in 1..k BY <2>2, <4>1, SMTT(30)
      <4>3. hoCmd.list[i] = hoTable[i] BY <1>3, <4>2 DEF Walked, k
      <4> QED BY <1>4, <2>2, <4>2, <4>3
    <3>3. ASSUME NEW i \in 1..Len(hoTable'), i > k - 1 PROVE Skipped(hoTable'[i][1])
      <4>1. i >= k BY <1>4, <2>2, <3>3, SMTT(30)
      <4>2. PICK j \in 1..Len(hoTable) : hoTable'[i] = hoTable[j] /\ j > k BY <2>5, <4>1
      <4> QED BY <1>3, <4>2 DEF Walked, k
    <3> QED BY <1>4, <2>1, <2>4, <3>1, <3>2, <3>3 DEF Walked
  <2>8. ResetFits' BY <1>1, <1>3, <2>1, <2>7, SMTT(30) DEF ResetFits
  <2> QED BY <2>3, <2>6, <2>8 DEF Resetting
<1>7. CASE hoCmd' = [hoCmd EXCEPT !.at = 5, !.ok = FALSE, !.list = <<>>] /\ UNCHANGED hoTable
  <2>1. /\ DOMAIN hoCmd' = DOMAIN hoCmd /\ hoCmd'.op = "reset" /\ hoCmd'.at = 5
        /\ hoCmd'.list = <<>> /\ ~hoCmd'.ok /\ hoCmd'.ok \in BOOLEAN
    BY <1>1, <1>2, <1>7
  <2>2. <<>> \in Seq(Mounts) BY SMTT(30)
  <2>3. HoTypes' BY <1>2, <1>7, <2>1, <2>2 DEF HoTypes
  <2>4. VolumesLive' BY <1>1, <1>3, <1>7 DEF VolumesLive, Skipped, LeftMounted
  <2>5. ResetFits' BY <1>1, <1>3, <2>1, SMTT(30) DEF ResetFits
  <2> QED BY <2>3, <2>4, <2>5 DEF Resetting
<1> QED BY <1>5, <1>6, <1>7 DEF UnmountBackwards

\* Nothing is mounted any more that would lose its data with the directories.
LEMMA RemoveStep ==
  ASSUME Resetting, RemoveDirectories
  PROVE  Resetting'
<1>1. /\ hoCmd.op = "reset" /\ hoCmd.at = 3 /\ hoCmd.list = <<>>
      /\ UNCHANGED <<hoSetup, hoServices, hoLocked, hoTable>>
  BY DEF RemoveDirectories
<1>2. /\ DOMAIN hoCmd' = DOMAIN hoCmd /\ hoCmd'.op = "reset" /\ hoCmd'.at = 5
      /\ hoCmd'.list = hoCmd.list /\ hoCmd'.ok \in BOOLEAN
      /\ hoCmd'.silent = hoCmd.silent
      /\ hoCmd'.ok => /\ hoCmd.ok /\ hoDisk' = EmptyDisk
                      /\ \A m \in Range(hoTable) : LeftMounted(m[1])
  BY <1>1 DEF RemoveDirectories, Resetting, HoTypes
<1>3. \A i \in 1..Len(hoTable) : Skipped(hoTable[i][1])
  <2>1. Walked BY <1>1, SMTT(30) DEF Resetting, ResetFits
  <2>2. Len(hoCmd.list) = 0 BY <1>1, SMTT(30)
  <2>3. \A i \in 1..Len(hoTable) : i > 0 BY SMTT(30)
  <2> QED BY <2>1, <2>2, <2>3 DEF Walked
<1>4. \A i \in 1..Len(hoTable') : Skipped(hoTable[i][1])' BY <1>1, <1>3 DEF Skipped, LeftMounted
<1>5. HoTypes' BY <1>1, <1>2 DEF Resetting, HoTypes
<1>6. VolumesLive' BY <1>4 DEF VolumesLive
<1>7. ~hoLocked /\ (hoCmd.ok /\ ~hoCmd.silent => "controller" \notin hoServices)
  BY <1>1, SMTT(30) DEF Resetting, ResetFits
<1>8. hoCmd'.ok => \A i \in 1..Len(hoTable') : LeftMounted(hoTable[i][1])'
  <2>1. \A i \in 1..Len(hoTable) : hoTable[i] \in Range(hoTable)
    BY SMTT(30) DEF Resetting, HoTypes, Range
  <2> QED BY <1>1, <1>2, <2>1 DEF LeftMounted
<1>9. ResetFits' BY <1>1, <1>2, <1>7, <1>8, SMTT(30) DEF ResetFits
<1> QED BY <1>5, <1>6, <1>9 DEF Resetting

LEMMA RestStep ==
  ASSUME Resetting, CleanupRest
  PROVE  Resetting'
<1>1. /\ hoCmd.op = "reset" /\ hoCmd.at = 5
      /\ UNCHANGED <<hoSetup, hoServices, hoLocked, hoDisk, hoTable, hoVolumes>>
  BY DEF CleanupRest
<1>2. /\ DOMAIN hoCmd' = DOMAIN hoCmd /\ hoCmd'.op = "reset" /\ hoCmd'.at = 99
      /\ hoCmd'.list = hoCmd.list /\ hoCmd'.ok \in BOOLEAN /\ (hoCmd'.ok => hoCmd.ok)
      /\ hoCmd'.silent = hoCmd.silent
  <2>1. PICK ok \in BOOLEAN : hoCmd' = [hoCmd EXCEPT !.at = 99, !.ok = @ /\ ok]
    BY DEF CleanupRest, Returns
  <2>2. DOMAIN hoCmd = {"op", "at", "ok", "list", "files", "silent"} /\ hoCmd.ok \in BOOLEAN
    BY <1>1 DEF Resetting, HoTypes
  <2> QED BY <1>1, <2>1, <2>2
<1>3. HoTypes' /\ VolumesLive' BY <1>1, <1>2 DEF Resetting, HoTypes, VolumesLive, Skipped, LeftMounted
<1>4. hoCmd.ok => /\ ~hoCmd.silent => "controller" \notin hoServices
                  /\ hoDisk = EmptyDisk
                  /\ \A i \in 1..Len(hoTable) : LeftMounted(hoTable[i][1])
  BY <1>1, SMTT(30) DEF Resetting, ResetFits
<1>5. ~hoLocked BY <1>1 DEF Resetting, ResetFits
<1>6. \A x : LeftMounted(x)' <=> LeftMounted(x) BY <1>1 DEF LeftMounted
<1>7. hoCmd'.ok => /\ ~hoCmd'.silent => "controller" \notin hoServices'
                   /\ hoDisk' = EmptyDisk
                   /\ \A i \in 1..Len(hoTable') : LeftMounted(hoTable[i][1])'
  BY <1>1, <1>2, <1>4, <1>6
<1>8. ResetFits' BY <1>1, <1>2, <1>5, <1>7, SMTT(30) DEF ResetFits
<1> QED BY <1>3, <1>8 DEF Resetting

LEMMA ResetStep ==
  ASSUME ResetInv, [HoNext]_hoVars
  PROVE  ResetInv'
<1> SUFFICES ASSUME ~hoIntruded' PROVE Resetting'
  BY DEF ResetInv
<1>1. CASE UNCHANGED hoVars
  BY <1>1 DEF hoVars, ResetInv, Resetting, HoTypes, VolumesLive, ResetFits, Walked, Skipped, LeftMounted
<1>2. ~hoIntruded => Resetting BY DEF ResetInv
<1>3. HoNext => ~hoIntruded
  BY DEF HoNext, HoCommand, CleanupContainers, CleanupServices, UnmountBackwards, RemoveDirectories,
         CleanupRest, BackupStep, CreateArchive, RestoreDatabase, RestoreFiles, CommandEnds,
         InstallService, StartInstalledService, NewRuntimeConfig, StopService, ClusterWrites,
         RunUninstall, RunBackup, RunRestore
<1>4. CASE HoNext
  BY <1>2, <1>3, <1>4, OthersStep, ServiceStep, ResetBegins, UnmountStep, RemoveStep, RestStep
     DEF HoNext, HoCommand
<1> QED BY <1>1, <1>4

LEMMA ResetInitially == HoInit => ResetInv
<1> SUFFICES ASSUME HoInit PROVE Resetting
  BY DEF ResetInv
<1>1. <<>> \in Seq(Mounts) /\ 1..Len(<<>>) = {} BY SMTT(30)
<1>2. DOMAIN NoCommand = {"op", "at", "ok", "list", "files", "silent"} /\ NoCommand.op = "none" BY DEF NoCommand
<1> QED BY <1>1, <1>2 DEF HoInit, Resetting, HoTypes, VolumesLive, ResetFits

LEMMA ResetSuffices == ResetInv => ResetSparesVolumes /\ ResetMeansGone
<1> SUFFICES ASSUME Resetting, hoCmd.op = "reset"
             PROVE  /\ \A m \in Range(hoTable) : ~Skipped(m[1]) => m[2] \in hoVolumes
                    /\ hoCmd.at = 99 /\ hoCmd.ok =>
                         /\ hoDisk = EmptyDisk
                         /\ ~hoCmd.silent => "controller" \notin hoServices
                         /\ \A m \in Range(hoTable) : LeftMounted(m[1])
  BY DEF ResetInv, ResetSparesVolumes, ResetMeansGone
<1>1. DOMAIN hoTable = 1..Len(hoTable) BY SMTT(30) DEF Resetting, HoTypes
<1>2. \A m \in Range(hoTable) : \E i \in 1..Len(hoTable) : m = hoTable[i] BY <1>1 DEF Range
<1>3. \A m \in Range(hoTable) : ~Skipped(m[1]) => m[2] \in hoVolumes
  BY <1>2 DEF Resetting, VolumesLive
<1>4. ASSUME hoCmd.at = 99, hoCmd.ok
      PROVE  /\ hoDisk = EmptyDisk
             /\ ~hoCmd.silent => "controller" \notin hoServices
             /\ \A m \in Range(hoTable) : LeftMounted(m[1])
  <2>1. /\ hoDisk = EmptyDisk
        /\ ~hoCmd.silent => "controller" \notin hoServices
        /\ \A i \in 1..Len(hoTable) : LeftMounted(hoTable[i][1])
    BY <1>4, SMTT(30) DEF Resetting, ResetFits
  <2> QED BY <1>2, <2>1
<1> QED BY <1>3, <1>4

-----------------------------------------------------------------------------
(* All of them *)

OperationsInv == AirgapInv /\ ProbesFit /\ ResetInv

LEMMA OperationsInvInit == OperationsInit => OperationsInv
<1>1. RoInit => ProbesFit BY DEF RoInit, ProbesFit, Outcomes
<1> QED BY <1>1, AirgapInitially, ResetInitially DEF OperationsInit, OperationsInv

LEMMA OperationsInvStep == OperationsInv /\ [OperationsNext]_operationsVars => OperationsInv'
<1> SUFFICES ASSUME OperationsInv, [OperationsNext]_operationsVars PROVE OperationsInv'
  OBVIOUS
<1>1. [AgNext]_agVars /\ [RoNext]_roVars /\ [HoNext]_hoVars
  BY DEF OperationsNext, operationsVars
<1> QED BY <1>1, AirgapStep, ProbesStep, ResetStep DEF OperationsInv

\* What autopilot decides and installs can be relied on, for any requests, targets,
\* faults, conflicts, rebuilds of the manager and crashes: only whole bundles, of the
\* right request if it has a hash, are reported as Completed (airgap, atomic.go), and
\* the verdict of the readiness probes is the worst of them (readyprober.go).  A power
\* loss that takes back a renamed file is excepted: the directory is not synced.
THEOREM AutopilotCanBeReliedOn == OperationsSpec => []AutopilotIsSound
<1>1. OperationsInv => AutopilotIsSound
  BY AirgapSuffices, ProbesSuffice DEF OperationsInv, AutopilotIsSound
<1> QED BY <1>1, OperationsInvInit, OperationsInvStep, PTL DEF OperationsSpec

\* For any mount table, failing calls and sequence of commands a reset during which k0s
\* is not started spares the volumes that are still mounted outside of the run
\* directory, and when it reports no error the directories and mounts are gone, and the
\* service of the controller as well unless its uninstallation failed without being
\* reported: an exit code of 1 is swallowed, and so is any error of the controller's
\* service if the worker's could be uninstalled (pkg/cleanup).
THEOREM ResetsAreCareful == OperationsSpec => []ResetIsCareful
<1>1. OperationsInv => ResetIsCareful
  BY ResetSuffices DEF OperationsInv, ResetIsCareful
<1> QED BY <1>1, OperationsInvInit, OperationsInvStep, PTL DEF OperationsSpec
=============================================================================
