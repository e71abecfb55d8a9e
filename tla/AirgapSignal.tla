---------------------------- MODULE AirgapSignal ----------------------------
(***************************************************************************)
(* The airgap update of a node (pkg/autopilot/controller/signal/airgap):   *)
(* a request in the node's annotations is taken up by two reconcilers of   *)
(* one manager, the signal controller, which moves it to Downloading, and  *)
(* the download controller, which fetches the bundle through the atomic    *)
(* file writer (internal/pkg/file/atomic.go) and moves it to Completed or  *)
(* FailedDownload.  Both read the manager's cache, both are started by the *)
(* same filter, which only lets requests without a status through, and     *)
(* both run into update conflicts.  The manager is rebuilt when the lease  *)
(* changes, the process may be killed, and the machine may lose power.     *)
(***************************************************************************)
EXTENDS Naturals, FiniteSets

CONSTANTS Requests,     \* the update requests a plan may put on the node
          Hashed,       \* those which carry the SHA-256 of their bundle
          MaxRequests,  \* how often a request is put on the node
          MaxFaults     \* failing calls, rebuilds and crashes

ASSUME AirgapAssumption ==
  /\ Hashed \subseteq Requests /\ Requests # {} /\ "no request" \notin Requests
  /\ MaxRequests \in Nat /\ MaxFaults \in Nat

VARIABLES agSignal,  \* the annotations: the request, its status, the resource version
          agCache,   \* the same as the manager's cache has it
          agQueue,   \* the reconcilers that have the node in their queue
          agSig,     \* the signal controller: idle, or about to update what it saw
          agDl,      \* the download controller: where it is, what it saw, how it went
          agTemp,    \* the temporary file the download is written to
          agFile,    \* the bundle in the images directory
          agDisk,    \* the same as the directory on the disk has it
          agReverted,\* a power loss has put an earlier bundle under the name
          agRecord,  \* the request of the download the reconciler remembers
          agLost,    \* the manager went away while the request was Downloading
          agPut,     \* requests put on the node so far
          agFaults   \* faults so far

agVars == <<agSignal, agCache, agQueue, agSig, agDl, agTemp, agFile, agDisk, agReverted,
            agRecord, agLost, agPut, agFaults>>
agNames == <<agFile, agDisk, agReverted>>

NoRequest == "no request"
NoFile == [of |-> NoRequest, whole |-> TRUE, safe |-> TRUE]
Reconcilers == {"signal", "download"}
Ended == {"Completed", "FailedDownload"}

(***************************************************************************)
(* The event filter of both reconcilers: the annotations changed, it is an *)
(* airgap request, and it has no status yet.                               *)
(***************************************************************************)
SignalControllerEventFilter(signal) ==
  IF signal.req # NoRequest /\ signal.status = "none" THEN Reconcilers ELSE {}

(* The cache takes over the object, and the filtered event is queued. *)
CacheFollows ==
  /\ agCache # agSignal
  /\ agCache' = agSignal
  /\ agQueue' = agQueue \cup SignalControllerEventFilter(agSignal)
  /\ UNCHANGED <<agSignal, agSig, agDl, agTemp, agNames, agRecord, agLost, agPut,
                 agFaults>>

AgFault == agFaults < MaxFaults /\ agFaults' = agFaults + 1
AgNoFault == UNCHANGED agFaults

(* An update of the node: it fails on a stale version, and may fail otherwise. *)
UpdateNode(reconciler, seen, status) ==
  \/ /\ seen.rv = agSignal.rv
     /\ agSignal' = [agSignal EXCEPT !.status = status, !.rv = @ + 1]
     /\ AgNoFault
     /\ UNCHANGED agQueue
  \/ /\ (seen.rv # agSignal.rv /\ AgNoFault) \/ AgFault
     /\ agQueue' = agQueue \cup {reconciler}
     /\ UNCHANGED agSignal

(* The signal controller takes the request out of its queue and reads the node. *)
SignalReconcile ==
  /\ agSig.at = "idle" /\ "signal" \in agQueue
  /\ agQueue' = agQueue \ {"signal"}
  /\ agSig' = IF agCache.status # "none" THEN agSig
              ELSE [at |-> "update", seen |-> agCache]
  /\ UNCHANGED <<agSignal, agCache, agDl, agTemp, agNames, agRecord, agLost, agPut,
                 agFaults>>

(* Handle: a request without a status is moved to Downloading. *)
SignalHandle ==
  /\ agSig.at = "update"
  /\ UpdateNode("signal", agSig.seen, "Downloading")
  /\ agSig' = [agSig EXCEPT !.at = "idle"]
  /\ UNCHANGED <<agCache, agDl, agTemp, agNames, agRecord, agLost, agPut>>

(* A download made for the same request is used again if its file is still there. *)
ReusableDownload(request) == agRecord = request /\ agFile # NoFile

(* The download controller reads the node; a status it is not meant for ends it. *)
DownloadReconcile ==
  /\ agDl.at = "idle" /\ "download" \in agQueue
  /\ agQueue' = agQueue \ {"download"}
  /\ agDl' = CASE agCache.status \notin {"none", "Downloading"} -> agDl
               [] ReusableDownload(agCache.req) ->
                    [at |-> "update", seen |-> agCache, status |-> "Completed"]
               [] OTHER -> [at |-> "open", seen |-> agCache, status |-> "none"]
  /\ UNCHANGED <<agSignal, agCache, agSig, agTemp, agNames, agRecord, agLost, agPut,
                 agFaults>>

DownloadFails ==
  /\ agDl' = [agDl EXCEPT !.at = "update", !.status = "FailedDownload"]
  /\ agTemp' = NoFile
  /\ UNCHANGED <<agNames, agRecord>>

DownloadGoes(at) == agDl' = [agDl EXCEPT !.at = at]

(* AtomicOpener.Open: a temporary file in the directory of the target. *)
OpenAtomic ==
  /\ agDl.at = "open"
  /\ \/ /\ DownloadGoes("transfer")
        /\ agTemp' = [of |-> agDl.seen.req, whole |-> FALSE, safe |-> FALSE]
        /\ AgNoFault /\ UNCHANGED <<agNames, agRecord>>
     \/ AgFault /\ DownloadFails

(***************************************************************************)
(* The transfer: a bad status, a stalled or a cut off transfer is an       *)
(* error; the server may also send something else in full.                 *)
(***************************************************************************)
TransferBundle ==
  /\ agDl.at = "transfer"
  /\ \/ /\ \/ agTemp' = [agTemp EXCEPT !.whole = TRUE] /\ AgNoFault
           \/ agTemp' = [agTemp EXCEPT !.whole = TRUE, !.of = "else"] /\ AgFault
        /\ DownloadGoes("verify")
        /\ UNCHANGED <<agNames, agRecord>>
     \/ AgFault /\ DownloadFails

(* The hash is compared if the request gives one. *)
VerifyHash ==
  /\ agDl.at = "verify"
  /\ IF agDl.seen.req \in Hashed /\ agTemp.of # agDl.seen.req
     THEN DownloadFails
     ELSE DownloadGoes("sync") /\ UNCHANGED <<agTemp, agNames, agRecord>>
  /\ AgNoFault

(* As SyncAtomic, but leaves it to the system to write the data back. *)
SyncAtomicLater ==
  /\ agDl.at = "sync"
  /\ DownloadGoes("rename")
  /\ AgNoFault /\ UNCHANGED <<agTemp, agNames, agRecord>>

(* finish: the data is on the disk before the file gets its name. *)
SyncAtomic ==
  /\ agDl.at = "sync"
  /\ \/ /\ DownloadGoes("rename")
        /\ agTemp' = [agTemp EXCEPT !.safe = TRUE]
        /\ AgNoFault /\ UNCHANGED <<agNames, agRecord>>
     \/ AgFault /\ DownloadFails

(***************************************************************************)
(* finish: the rename; the directory is not synced, so that the disk has   *)
(* the former name for a while.  The downloader returns and the request is *)
(* recorded.                                                               *)
(***************************************************************************)
RenameAtomic ==
  /\ agDl.at = "rename"
  /\ \/ /\ agDl' = [agDl EXCEPT !.at = "update", !.status = "Completed"]
        /\ agFile' = agTemp /\ agTemp' = NoFile
        /\ agRecord' = agDl.seen.req /\ agReverted' = FALSE
        /\ AgNoFault /\ UNCHANGED agDisk
     \/ AgFault /\ DownloadFails

Downloading ==
  /\ OpenAtomic \/ TransferBundle \/ VerifyHash \/ SyncAtomic \/ RenameAtomic
  /\ UNCHANGED <<agSignal, agCache, agQueue, agSig, agLost, agPut>>

(* The download controller reports how it went. *)
DownloadUpdate ==
  /\ agDl.at = "update"
  /\ UpdateNode("download", agDl.seen, agDl.status)
  /\ agDl' = [agDl EXCEPT !.at = "idle"]
  /\ UNCHANGED <<agCache, agSig, agTemp, agNames, agRecord, agLost, agPut>>

(***************************************************************************)
(* A new manager: its reconcilers remember nothing, its cache is filled    *)
(* with create events, which go through the same filter.                   *)
(***************************************************************************)
NewManager ==
  /\ agCache' = agSignal
  /\ agQueue' = SignalControllerEventFilter(agSignal)
  /\ agSig' = [agSig EXCEPT !.at = "idle"] /\ agDl' = [agDl EXCEPT !.at = "idle"]
  /\ agRecord' = NoRequest /\ agTemp' = NoFile
  /\ agLost' = (agLost \/ agSignal.status = "Downloading")

(***************************************************************************)
(* The lease changed: the context of the reconcilers ends, a transfer is   *)
(* aborted and its temporary file is removed; the last steps of the writer *)
(* do not look at the context and are waited for.                          *)
(***************************************************************************)
RebuildManager ==
  /\ AgFault
  /\ agDl.at \notin {"sync", "rename"}
  /\ NewManager
  /\ UNCHANGED <<agSignal, agNames, agPut>>

(***************************************************************************)
(* The process is killed, or the machine loses power, and with it unsynced *)
(* data and what has not been written back of the directory.               *)
(***************************************************************************)
NodeGoesDown ==
  /\ AgFault
  /\ NewManager
  /\ \/ UNCHANGED agNames
     \/ /\ agFile' = [agDisk EXCEPT !.whole = agDisk.whole /\ agDisk.safe]
        /\ agDisk' = agFile' /\ agReverted' = (agReverted \/ agDisk # agFile)
  /\ UNCHANGED <<agSignal, agPut>>

(* External: the system writes the directory back. *)
FlushDirectory ==
  /\ agDisk # agFile
  /\ agDisk' = agFile
  /\ UNCHANGED <<agSignal, agCache, agQueue, agSig, agDl, agTemp, agFile, agReverted,
                 agRecord, agLost, agPut, agFaults>>

(* External: the plan puts a request on the node. *)
PutRequest(request) ==
  /\ agPut < MaxRequests
  /\ agSignal' = [req |-> request, status |-> "none", rv |-> agSignal.rv + 1]
  /\ agPut' = agPut + 1 /\ agLost' = FALSE
  /\ UNCHANGED <<agCache, agQueue, agSig, agDl, agTemp, agNames, agRecord, agFaults>>

(* External: somebody removes the bundle. *)
RemoveBundle ==
  /\ agFile # NoFile /\ AgFault
  /\ agFile' = NoFile
  /\ UNCHANGED <<agSignal, agCache, agQueue, agSig, agDl, agTemp, agDisk, agReverted,
                 agRecord, agLost, agPut>>

AgInit ==
  LET signal == [req |-> NoRequest, status |-> "none", rv |-> 0]
  IN  /\ agSignal = signal /\ agCache = signal /\ agQueue = {}
      /\ agSig = [at |-> "idle", seen |-> signal]
      /\ agDl = [at |-> "idle", seen |-> signal, status |-> "none"]
      /\ agTemp = NoFile /\ agFile = NoFile /\ agDisk = NoFile /\ agReverted = FALSE
      /\ agRecord = NoRequest /\ agLost = FALSE /\ agPut = 0 /\ agFaults = 0

\* Every variable has its type.
AgTypeOK ==
  LET Signals == [req : Requests \cup {NoRequest}, rv : 0..(MaxRequests * 4),
                  status : Ended \cup {"none", "Downloading"}]
      Files == [of : Requests \cup {NoRequest, "else"}, whole : BOOLEAN, safe : BOOLEAN]
  IN  /\ agSignal \in Signals /\ agCache \in Signals /\ agQueue \subseteq Reconcilers
      /\ agSig \in [at : {"idle", "update"}, seen : Signals]
      /\ agDl \in [at : {"idle", "open", "transfer", "verify", "sync", "rename", "update"},
                   seen : Signals, status : Ended \cup {"none"}]
      /\ agTemp \in Files /\ agFile \in Files /\ agDisk \in Files /\ agReverted \in BOOLEAN
      /\ agRecord \in Requests \cup {NoRequest}
      /\ agLost \in BOOLEAN /\ agPut \in 0..MaxRequests /\ agFaults \in 0..MaxFaults

AgSignalController == SignalReconcile \/ SignalHandle
AgDownloadController == DownloadReconcile \/ Downloading \/ DownloadUpdate

AgNext ==
  \/ CacheFollows \/ AgSignalController \/ AgDownloadController
  \/ RebuildManager \/ NodeGoesDown \/ RemoveBundle \/ FlushDirectory
  \/ \E request \in Requests : PutRequest(request)

(* The watch delivers and the two workers of the manager keep running. *)
AgSpec ==
  /\ AgInit /\ [][AgNext]_agVars
  /\ WF_agVars(CacheFollows)
  /\ WF_agVars(AgSignalController) /\ WF_agVars(AgDownloadController)

(* The bundle is the request's, or the server sent something else and there was no
   hash to tell, or somebody has removed it. *)
Answers(request) ==
  request \in Requests =>
    agFile.of \in {request, NoRequest} \/ (request \notin Hashed /\ agFile.of = "else")

(***************************************************************************)
(* Only whole bundles ever appear under their name, also after the machine *)
(* lost power at any point of a download; and no request is Completed with *)
(* the bundle of another one or, if it has a hash, with anything but its   *)
(* own.  The exception is a power loss after the rename that brought an    *)
(* earlier bundle back (finish in atomic.go).                              *)
(***************************************************************************)
BundleIsWhole ==
  /\ agFile.whole
  /\ agSignal.status = "Completed" /\ ~agReverted => Answers(agSignal.req)

(***************************************************************************)
(* Not with the exception: a Completed request may be left with an earlier *)
(* bundle.  Does not hold.                                                 *)
(***************************************************************************)
CompletedIsDurable == agSignal.status = "Completed" => Answers(agSignal.req)

(***************************************************************************)
(* A request comes to an end, whatever conflicts, failures and crashes     *)
(* there are, unless the manager goes away while it is Downloading: nobody *)
(* takes up such a request again, since the filter asks for no status.     *)
(***************************************************************************)
AirgapRequestsEnd ==
  <>[](agSignal.req # NoRequest => agSignal.status \in Ended \/ agLost)

(***************************************************************************)
(* A request comes to an end also if the manager is rebuilt or restarted   *)
(* in between: what the manager forgets costs a repeated download, not     *)
(* correctness.                                                            *)
(***************************************************************************)
AirgapSurvivesRebuild ==
  <>[](agSignal.req # NoRequest => agSignal.status \in Ended)
=============================================================================
