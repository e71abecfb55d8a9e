-------------------------- MODULE SignalNodeProofs --------------------------
(***************************************************************************)
(* Theorems about SignalNode, for any set of versions, any number of       *)
(* signals and faults, and every kind of node.  TypeOK and the forward     *)
(* motion of the statuses hold in every environment: signals at any time,  *)
(* lost replies included.  The second half, from the invariant Careful on, *)
(* is what a node is promised where no reply is lost: nothing disturbs a   *)
(* node that is not cordoned, a restart runs the version asked for, and a  *)
(* Completed signal tells the truth.                                       *)
(***************************************************************************)
EXTENDS SignalNode, TLAPS

\* Zenon is the prover, and SMT that of the leaves that name it.
USE ZenonT(60)

\* The inductive invariant: a cache at the latest resource version holds the
\* stored signal, and stored signals are numbered by the signals sent.
Coherent ==
    /\ TypeOK
    /\ \A m \in Managers : synced[m] => seen[m] = signal
    /\ signal.id <= sent

LEMMA WithStatusType ==
    ASSUME NEW s \in Signal, NEW st \in Statuses
    PROVE  /\ WithStatus(s, st) \in Signal
           /\ WithStatus(s, st).id = s.id
           /\ WithStatus(s, st).status = st
BY SignalNodeAssumption DEF WithStatus, Signal

\* What every write does: it keeps the types and the coherence of the caches,
\* and it stores either nothing or the given signal over an equal cached one.
LEMMA UpdateType ==
    ASSUME Coherent, UNCHANGED <<seen, sent>>,
           NEW m \in Managers, NEW c \in Controllers, NEW s \in Signal,
           s.id = seen[m].id, Update(m, c, s)
    PROVE  /\ signal' \in Signal
           /\ synced' \in [Managers -> BOOLEAN]
           /\ queue' \in [Managers -> SUBSET Controllers]
           /\ \A x \in Managers : synced'[x] => seen'[x] = signal'
           /\ signal'.id <= sent'
           /\ signal' = signal \/ (seen[m] = signal /\ signal' = s)
<1>1. CASE UNCHANGED <<signal, synced, queue>>
  BY <1>1 DEF Coherent, TypeOK
<1>2. CASE /\ CanWrite(m) /\ signal' = s /\ synced' = [x \in Managers |-> FALSE]
           /\ Drop(m, c) \/ (LostReplies /\ UNCHANGED queue)
  BY <1>2 DEF Coherent, TypeOK, CanWrite, Drop
<1> QED BY <1>1, <1>2 DEF Update

LEMMA DropType ==
    ASSUME TypeOK, NEW m \in Managers, NEW c \in Controllers, Drop(m, c)
    PROVE  queue' \in [Managers -> SUBSET Controllers]
BY DEF TypeOK, Drop

LEMMA ReplaceBinaryType ==
    ASSUME TypeOK, ReplaceBinary
    PROVE  disk' \in Versions
BY DEF TypeOK, ReplaceBinary

LEMMA FreshManagerType ==
    ASSUME Coherent, NEW m \in Managers, FreshManager(m), UNCHANGED <<signal, sent>>
    PROVE  /\ seen' \in [Managers -> Signal]
           /\ synced' \in [Managers -> BOOLEAN]
           /\ queue' \in [Managers -> SUBSET Controllers]
           /\ \A x \in Managers : synced'[x] => seen'[x] = signal'
BY DEF Coherent, TypeOK, FreshManager, CreateEvent, ControllersOf, Controllers

\* A step of Next keeps the inductive invariant, and never writes an older
\* status over a newer one.
Forward ==
    signal'.id = signal.id /\ signal' # signal =>
        Rank(signal'.status) > Rank(signal.status)

LEMMA CoherentInit == Init => Coherent
<1> SUFFICES ASSUME Init PROVE Coherent
  OBVIOUS
<1>1. signal \in Signal
  BY SMTT(30), SignalNodeAssumption DEF Init, Signal, Statuses
<1>2. seen \in [Managers -> Signal] /\ synced \in [Managers -> BOOLEAN]
      /\ queue \in [Managers -> SUBSET Controllers]
  BY <1>1 DEF Init
<1>3. tracker \in Restart
  BY SMTT(30), SignalNodeAssumption DEF Init, Restart, NoRestart
<1>4. \A m \in Managers : seen[m] = signal
  BY DEF Init
<1>5. signal.id = 0 /\ sent = 0 /\ record = 0 /\ faults = 0
  BY DEF Init
<1>6. /\ proc \in {"up", "stopping", "down"} /\ running \in Versions /\ disk \in Versions
      /\ tmp \in Versions \cup {NoFile} /\ cordoned \in BOOLEAN
  BY DEF Init
<1>7. 0 \in 0..MaxSignals /\ 0 \in 0..MaxFaults
  BY SMTT(30), SignalNodeAssumption
<1>8. TypeOK
  BY <1>1, <1>2, <1>3, <1>5, <1>6, <1>7 DEF TypeOK
<1> QED
  BY SMTT(30), <1>4, <1>5, <1>8 DEF Coherent

LEMMA ReconcileStep ==
    ASSUME Coherent, NodeReconcile
    PROVE  Coherent' /\ Forward
<1> USE SignalNodeAssumption
<1> DEFINE s == seen["node"]
<1>0. "node" \in Managers /\ s \in Signal /\ signal \in Signal
  BY DEF Coherent, TypeOK, Managers
<1>c. {"signal", "downloading", "applying", "restart", "restarted"} \subseteq Controllers
  BY DEF Controllers
<1>1. CASE SignalReconcile
  <2>1. CASE /\ s.status = "None"
             /\ Update("node", "signal", WithStatus(s, SignalNext(s)))
    <3>1. SignalNext(s) \in {"Completed", "Downloading"}
      BY DEF SignalNext
    <3>2. WithStatus(s, SignalNext(s)) \in Signal /\ WithStatus(s, SignalNext(s)).id = s.id
          /\ WithStatus(s, SignalNext(s)).status = SignalNext(s)
      BY SMTT(30), <1>0, <3>1, WithStatusType DEF Statuses
    <3> HIDE DEF s
    <3>3. UNCHANGED <<seen, proc, running, files, local, cordoned, env>>
      BY <1>1 DEF SignalReconcile
    <3> QED
      BY SMTT(30), <1>0, <1>c, <2>1, <3>1, <3>2, <3>3, UpdateType
         DEF s, Coherent, TypeOK, Forward, Rank, files, local, env
  <2>2. CASE Drop("node", "signal") /\ UNCHANGED <<signal, synced>>
    BY <1>0, <1>1, <1>c, <2>2, DropType
       DEF SignalReconcile, Coherent, TypeOK, Forward, files, local, env
  <2> QED BY <1>1, <2>1, <2>2 DEF SignalReconcile
<1>2. CASE DownloadReconcile
  <2>1. \E st \in {"Cordoning", "FailedDownload"} :
            Update("node", "downloading", WithStatus(s, st))
    BY <1>2 DEF DownloadReconcile
  <2>2. PICK st \in {"Cordoning", "FailedDownload"} :
            Update("node", "downloading", WithStatus(s, st))
    BY <2>1
  <2>3. WithStatus(s, st) \in Signal /\ WithStatus(s, st).id = s.id
        /\ WithStatus(s, st).status = st
    BY SMTT(30), <1>0, WithStatusType DEF Statuses
  <2>4. s.status \in {"None", "Downloading"}
    BY <1>2 DEF DownloadReconcile, Ignored, Awaits
  <2>5. tmp' \in Versions \cup {NoFile} /\ record' \in 0..MaxSignals
    BY <1>0, <1>2 DEF DownloadReconcile, Coherent, TypeOK, Signal
  <2>6. UNCHANGED <<seen, proc, running, disk, tracker, cordoned, env>>
    BY <1>2 DEF DownloadReconcile
  <2> HIDE DEF s
  <2> QED
    BY SMTT(30), <1>0, <1>c, <2>2, <2>3, <2>4, <2>5, <2>6, UpdateType
       DEF s, Coherent, TypeOK, Forward, Rank, env
<1>3. CASE ApplyReconcile
  <2>1. PICK t \in Stamps :
          LET r == [s EXCEPT !.status = "Restart", !.stamp = t] IN
          tracker' = Initiated(r) /\ Update("node", "applying", r)
    BY <1>3 DEF ApplyReconcile
  <2> DEFINE r == [s EXCEPT !.status = "Restart", !.stamp = t]
  <2>2. r \in Signal /\ r.id = s.id /\ r.status = "Restart" /\ r.stamp = t
    BY <1>0 DEF Signal, Statuses
  <2>3. tracker' \in Restart
    BY <1>0, <2>1, <2>2 DEF Initiated, Restart, Signal
  <2>4. s.status \in {"None", "ApplyingUpdate"}
    BY <1>3 DEF ApplyReconcile, Ignored, Awaits
  <2>5. disk' \in Versions /\ tmp' \in Versions \cup {NoFile}
    BY <1>3, ReplaceBinaryType DEF ApplyReconcile, Coherent, TypeOK
  <2>6. UNCHANGED <<seen, proc, running, record, cordoned, env>>
    BY <1>3 DEF ApplyReconcile
  <2>7. Update("node", "applying", r)
    BY <2>1
  <2> HIDE DEF s, r
  <2> QED
    BY SMTT(30), <1>0, <1>c, <2>2, <2>3, <2>4, <2>5, <2>6, <2>7, UpdateType
       DEF s, Coherent, TypeOK, Forward, Rank, env
<1>4. CASE RestartReconcile \/ RestartedReconcile
  <2>1. proc' \in {"up", "stopping", "down"}
    BY <1>4 DEF RestartReconcile, RestartedReconcile, Coherent, TypeOK
  <2>2. UNCHANGED <<seen, running, files, local, cordoned, env>>
    BY <1>4 DEF RestartReconcile, RestartedReconcile
  <2>3. \E c \in {"restart", "restarted"} :
          /\ s.status \in {"None", "Restart"}
          /\ \/ Update("node", c, WithStatus(s, "UnCordoning"))
             \/ Drop("node", c) /\ UNCHANGED <<signal, synced>>
    BY <1>4 DEF RestartReconcile, RestartedReconcile, Ignored, Awaits
  <2>4. PICK c \in {"restart", "restarted"} :
          /\ s.status \in {"None", "Restart"}
          /\ \/ Update("node", c, WithStatus(s, "UnCordoning"))
             \/ Drop("node", c) /\ UNCHANGED <<signal, synced>>
    BY <2>3
  <2>5. LET w == WithStatus(s, "UnCordoning") IN
        w \in Signal /\ w.id = s.id /\ w.status = "UnCordoning"
    BY <1>0, WithStatusType DEF Statuses
  <2> HIDE DEF s
  <2>6. CASE Update("node", c, WithStatus(s, "UnCordoning"))
    BY SMTT(30), <1>0, <1>c, <2>1, <2>2, <2>4, <2>5, <2>6, UpdateType
       DEF s, Coherent, TypeOK, Forward, Rank, files, local, env
  <2>7. CASE Drop("node", c) /\ UNCHANGED <<signal, synced>>
    BY <1>0, <1>c, <2>1, <2>2, <2>7, DropType
       DEF Coherent, TypeOK, Forward, files, local, env
  <2> QED BY <2>4, <2>6, <2>7
<1> QED BY <1>1, <1>2, <1>3, <1>4 DEF NodeReconcile

LEMMA CordonStep ==
    ASSUME Coherent, NEW m \in Managers, CordonReconcile(m) \/ UncordonReconcile(m)
    PROVE  Coherent' /\ Forward
<1>0. seen[m] \in Signal /\ signal \in Signal /\ Cordoners \subseteq Controllers
  BY DEF Coherent, TypeOK, Controllers
<1>1. PICK c \in Cordoners, want \in BOOLEAN, next \in {"ApplyingUpdate", "Completed"} :
        /\ CordonUncordon(m, c, want, next)
        /\ c = "cordoning" => next = "ApplyingUpdate"
        /\ c = "uncordoning" => next = "Completed"
  BY DEF CordonReconcile, UncordonReconcile, Cordoners
<1>2. /\ seen[m].status \in {"None", Awaits(c)}
      /\ UNCHANGED <<seen, proc, running, files, local, env>>
      /\ cordoned' \in BOOLEAN
  BY <1>1 DEF CordonUncordon, Ignored, Coherent, TypeOK
<1>3. LET w == WithStatus(seen[m], next) IN
      w \in Signal /\ w.id = seen[m].id /\ w.status = next
  BY SMTT(30), <1>0, WithStatusType DEF Statuses
<1>4. CASE Drop(m, c) /\ UNCHANGED <<signal, synced>>
  BY <1>0, <1>2, <1>4, DropType DEF Coherent, TypeOK, Forward, files, local, env
<1>5. CASE synced' = [x \in Managers |-> FALSE] /\ UNCHANGED <<signal, queue>>
  BY <1>2, <1>5 DEF Coherent, TypeOK, Forward, files, local, env
<1>6. CASE Update(m, c, WithStatus(seen[m], next))
  <2>1. Coherent'
    BY <1>0, <1>2, <1>3, <1>6, UpdateType DEF Coherent, TypeOK, files, local, env
  <2>2. signal' = signal \/ (seen[m] = signal /\ signal' = WithStatus(seen[m], next))
    BY <1>0, <1>2, <1>3, <1>6, UpdateType DEF env
  <2>3. Forward
    BY SMTT(30), <1>1, <1>2, <1>3, <2>2 DEF Forward, Rank, Awaits, Cordoners
  <2> QED BY <2>1, <2>3
<1> QED BY <1>1, <1>4, <1>5, <1>6 DEF CordonUncordon

LEMMA EnvironmentStep ==
    ASSUME Coherent, EnvStep
    PROVE  Coherent' /\ Forward
<1> USE SignalNodeAssumption DEF Forward, files, local, env, api
<1>0. "node" \in Managers /\ "leader" \in Managers /\ seen["node"] \in Signal
  BY DEF Coherent, TypeOK, Managers
<1>f. Fault => faults' \in 0..MaxFaults
  BY SMTT(30) DEF Fault, Coherent, TypeOK
<1>1. CASE Start \/ Rebuild
  <2>1. tracker' \in Restart
    BY SMTT(30), <1>1 DEF Start, Rebuild, Coherent, TypeOK, Restart, NoRestart
  <2>2. FreshManager("node") /\ UNCHANGED <<signal, sent, files, cordoned>>
        /\ proc' \in {"up", "stopping", "down"} /\ running' \in Versions /\ record' = 0
        /\ faults' \in 0..MaxFaults
    BY <1>1, <1>f DEF Start, Rebuild, Coherent, TypeOK
  <2> QED
    BY SMTT(30), <1>0, <2>1, <2>2, FreshManagerType DEF Coherent, TypeOK
<1>2. CASE LeaderChange
  BY <1>0, <1>2, <1>f, FreshManagerType DEF LeaderChange, Coherent, TypeOK
<1>3. CASE Heartbeat \/ Exit \/ Crash
  BY <1>3, <1>f DEF Heartbeat, Exit, Crash, Coherent, TypeOK
<1>4. CASE CrashWhileApplying
  <2>1. disk' \in Versions /\ faults' \in 0..MaxFaults /\ proc' = "down"
        /\ UNCHANGED <<seen, queue, running, tmp, local, cordoned, sent>>
        /\ seen["node"].status \in {"None", "ApplyingUpdate"}
    BY <1>4, <1>f, ReplaceBinaryType DEF CrashWhileApplying, Coherent, Ignored, Awaits
  <2>2. CASE UNCHANGED <<signal, synced>>
    BY <2>1, <2>2 DEF Coherent, TypeOK
  <2>3. CASE /\ CanWrite("node") /\ synced' = [m \in Managers |-> FALSE]
             /\ \E t \in Stamps :
                  signal' = [seen["node"] EXCEPT !.status = "Restart", !.stamp = t]
    <3>1. seen["node"] = signal
      BY <1>0, <2>3 DEF CanWrite, Coherent
    <3>2. signal' \in Signal /\ signal'.id = signal.id /\ signal'.status = "Restart"
      BY <1>0, <2>3, <3>1 DEF Signal, Statuses
    <3> QED BY SMTT(30), <2>1, <2>3, <3>1, <3>2 DEF Coherent, TypeOK, Rank
  <2> QED BY <1>4, <2>2, <2>3 DEF CrashWhileApplying
<1>5. CASE Send
  <2>1. sent' = sent + 1 /\ sent < MaxSignals /\ synced' = [m \in Managers |-> FALSE]
        /\ UNCHANGED <<seen, queue, proc, running, files, local, cordoned, faults>>
    BY <1>5 DEF Send
  <2>2. signal' \in Signal /\ signal'.id = sent + 1
    BY SMTT(30), <1>5 DEF Send, Signal, Statuses, Coherent, TypeOK
  <2>3. signal.id \in Nat /\ sent \in Nat
    BY SMTT(30) DEF Coherent, TypeOK, Signal
  <2>4. signal'.id # signal.id
    BY SMTT(30), <2>2, <2>3 DEF Coherent
  <2> QED BY SMTT(30), <2>1, <2>2, <2>3, <2>4 DEF Coherent, TypeOK
<1> QED BY <1>1, <1>2, <1>3, <1>4, <1>5 DEF EnvStep

LEMMA QueueStep ==
    ASSUME Coherent, NEW m \in Managers,
           Observe(m) \/ \E c \in Controllers : Ignore(m, c)
    PROVE  Coherent' /\ Forward
<1> USE DEF Forward, files, local, env
<1>1. CASE Observe(m)
  <2>1. UpdateEvent(m, seen[m], signal) \subseteq Controllers
    BY DEF UpdateEvent, ControllersOf, Controllers
  <2> HIDE DEF Forward
  <2>2. queue' \in [Managers -> SUBSET Controllers]
    BY <1>1, <2>1 DEF Observe, Coherent, TypeOK
  <2> QED BY <1>1, <2>2 DEF Observe, Coherent, TypeOK, Forward
<1>2. CASE \E c \in Controllers : Ignore(m, c)
  BY <1>2, DropType DEF Ignore, Coherent, TypeOK
<1> QED BY <1>1, <1>2

LEMMA NextStep ==
    ASSUME Coherent, [Next]_vars
    PROVE  Coherent' /\ (Forward \/ UNCHANGED vars)
<1>1. CASE UNCHANGED vars
  BY <1>1 DEF vars, Coherent, TypeOK
<1>2. CASE Next
  BY <1>2, ReconcileStep, EnvironmentStep, CordonStep, QueueStep DEF Next, ManagerStep
<1> QED BY <1>1, <1>2

\* Every variable of the update of a node keeps its type.
THEOREM TypeCorrect == Spec => []TypeOK
<1>1. Coherent /\ [Next]_vars => Coherent'
  BY NextStep
<1>2. Coherent => TypeOK
  BY DEF Coherent
<1> QED BY CoherentInit, <1>1, <1>2, PTL DEF Spec

\* The status of a signal never goes back: no stale cache, left-over request,
\* crash, leader change, lost reply or early re-signalling makes one of the
\* reconcilers write an older status over a newer one of the same signal.
THEOREM StatusesMoveForward == Spec => NoStatusRegression
<1>1. Coherent /\ [Next]_vars => Coherent'
  BY NextStep
<1>2. Coherent /\ [Next]_vars =>
        [signal'.id = signal.id /\ signal' # signal =>
            Rank(signal'.status) > Rank(signal.status)]_vars
  BY NextStep DEF Forward
<1> QED BY CoherentInit, <1>1, <1>2, PTL DEF Spec, NoStatusRegression

\* A manager that works: that of the node does while k0s runs.
Alive(m) == m = "node" => proc # "down"

\* The controllers that alone take a signal out of the status they wait for.
Sole(m, c) == \/ m = "node" /\ c \in {"downloading", "applying"}
              \/ Responsible(m) /\ c \in Cordoners

\* A request of such a controller is about the signal as it is stored.
RequestsAreCurrent ==
    \A m \in Managers : \A c \in queue[m] :
        Sole(m, c) /\ Alive(m) => signal.status = Awaits(c) /\ seen[m] = signal

\* What the statuses say of the files of the node.
FilesFit ==
    /\ signal.id = sent /\ record <= sent
    /\ sent = 0 => signal.status = "Absent"
    /\ record = sent /\ sent # 0 /\ tmp # NoFile => tmp = signal.version
    /\ signal.status \in {"Cordoning", "ApplyingUpdate"} => tmp = signal.version
    /\ signal.status = "Restart" => disk = signal.version

\* What the statuses say of the schedulability of the node.
CordonFits ==
    /\ NeedsCordoning /\ signal.status \in {"ApplyingUpdate", "Restart"} => cordoned
    /\ CordonedOnlyForUpdate
    /\ cordoned => NeedsCordoning

\* A process that would stop for the status in its cache is about to.
PendingFits ==
    /\ proc # "down" /\ IsRestartPending(seen["node"])
         /\ running # seen["node"].version => seen["node"] = signal
    /\ PendingRestartKnown

Careful == RequestsAreCurrent /\ FilesFit /\ CordonFits /\ PendingFits

\* With signals to idle nodes, requests for a restart are not older than the
\* signal, and only an update that is under way tells process and executable apart.
Truthful ==
    /\ proc # "down" /\ queue["node"] \cap {"restart", "restarted"} # {} =>
            seen["node"].status # "None" /\ signal.status # "None"
    /\ signal.status \in {"UnCordoning", "Completed"} => disk = signal.version
    /\ signal.status \notin {"ApplyingUpdate", "Restart"} /\ proc # "down" => running = disk

\* The two accepted outcomes of a write: nothing changes, or the cached object was
\* current, the signal is replaced and the request is dropped.
LEMMA UpdateOutcome ==
    ASSUME Coherent, ~LostReplies, NEW m \in Managers, NEW c, NEW s, Update(m, c, s)
    PROVE  \/ UNCHANGED <<signal, synced, queue>>
           \/ /\ seen[m] = signal /\ signal' = s
              /\ queue' = [queue EXCEPT ![m] = @ \ {c}]
BY DEF Update, CanWrite, Drop, Coherent

\* One controller of one manager takes a signal out of a status.
LEMMA SoleIsUnique ==
    ASSUME NEW m \in Managers, NEW c \in Controllers, Sole(m, c),
           NEW x \in Managers, NEW d \in Controllers, Sole(x, d), Awaits(d) = Awaits(c)
    PROVE  x = m /\ d = c
BY SignalNodeAssumption DEF Sole, Managers, Controllers, Cordoners, Awaits, Responsible

\* A sole controller's write leaves no request of a sole controller behind, and a
\* write to a signal in another status meets none.
LEMMA WriteKeepsRequests ==
    ASSUME Coherent, RequestsAreCurrent, NEW m \in Managers, NEW c \in Controllers,
           queue' = [queue EXCEPT ![m] = @ \ {c}], UNCHANGED <<seen, proc>>,
           \/ Sole(m, c) /\ signal.status = Awaits(c)
           \/ signal.status \in {"None", "Restart"}
    PROVE  RequestsAreCurrent'
<1> SUFFICES ASSUME NEW x \in Managers, NEW d \in queue'[x], Sole(x, d)', Alive(x)'
             PROVE  FALSE
  BY DEF RequestsAreCurrent
<1>1. d \in queue[x] /\ d \in Controllers /\ (x = m => d # c)
  BY DEF Coherent, TypeOK
<1>2. Sole(x, d) /\ Alive(x)
  BY DEF Sole, Alive, Responsible
<1>3. signal.status = Awaits(d)
  BY <1>1, <1>2 DEF RequestsAreCurrent
<1>4. CASE Sole(m, c) /\ signal.status = Awaits(c)
  BY <1>1, <1>2, <1>3, <1>4, SoleIsUnique
<1>5. CASE signal.status \in {"None", "Restart"}
  BY <1>2, <1>3, <1>5 DEF Sole, Awaits, Cordoners
<1> QED BY <1>4, <1>5

\* Requests that are dropped, and a cache that is out of date, change nothing.
LEMMA FewerRequests ==
    ASSUME Coherent, RequestsAreCurrent, UNCHANGED <<signal, seen>>,
           \A x \in Managers : queue'[x] \subseteq queue[x] /\ (Alive(x)' => Alive(x))
    PROVE  RequestsAreCurrent'
<1>1. \A x, d : Sole(x, d)' <=> Sole(x, d)
  BY DEF Sole, Responsible
<1> QED BY <1>1 DEF RequestsAreCurrent

LEMMA WithStatusFields ==
    ASSUME NEW s \in Signal, NEW st \in Statuses
    PROVE  /\ WithStatus(s, st).id = s.id
           /\ WithStatus(s, st).version = s.version
           /\ WithStatus(s, st).status = st
BY SignalNodeAssumption DEF WithStatus, Signal

\* What a step may do to the executable and to the process.
Considerate ==
    /\ Disturbs /\ NeedsCordoning => cordoned
    /\ proc = "up" /\ proc' = "stopping" => disk = signal.version

LEMMA CarefulSignal ==
    ASSUME Coherent, Careful, ~LostReplies, SignalReconcile
    PROVE  Careful' /\ Considerate
<1> DEFINE s == seen["node"]
<1>0. "node" \in Managers /\ s \in Signal /\ signal \in Signal /\ "signal" \in Controllers
  BY DEF Coherent, TypeOK, Managers, Controllers
<1>1. UNCHANGED <<seen, proc, running, files, local, cordoned, env>>
  BY DEF SignalReconcile
<1>2. Considerate
  BY <1>1, <1>0 DEF Considerate, Disturbs, files
<1>3. CASE UNCHANGED <<signal, synced, queue>>
  BY <1>1, <1>2, <1>3
     DEF Careful, RequestsAreCurrent, Sole, Alive, Responsible, FilesFit, CordonFits,
         CordonedOnlyForUpdate, PendingFits, PendingRestartKnown, IsRestartPending,
         files, local, env
<1>4. CASE Drop("node", "signal") /\ UNCHANGED <<signal, synced>>
  <2>1. RequestsAreCurrent'
    BY <1>0, <1>1, <1>4, FewerRequests DEF Drop, Coherent, TypeOK, Careful, Alive
  <2> QED
    BY <1>1, <1>2, <1>4, <2>1
       DEF Careful, FilesFit, CordonFits, CordonedOnlyForUpdate, PendingFits,
           PendingRestartKnown, IsRestartPending, files, local, env
<1>5. CASE /\ s.status = "None" /\ s = signal
           /\ queue' = [queue EXCEPT !["node"] = @ \ {"signal"}]
           /\ \E st \in {"Completed", "Downloading"} : signal' = WithStatus(s, st)
  <2>1. RequestsAreCurrent'
    BY <1>0, <1>1, <1>5, WriteKeepsRequests DEF Careful
  <2>2. /\ signal'.id = signal.id /\ signal'.version = signal.version
        /\ signal'.status \in {"Completed", "Downloading"}
    BY SMTT(30), <1>0, <1>5, WithStatusFields DEF Statuses
  <2> HIDE DEF s
  <2>3. FilesFit'
    BY <1>1, <1>5, <2>2 DEF Careful, FilesFit, files, local, env
  <2>4. CordonFits'
    BY <1>1, <1>5, <2>2 DEF Careful, CordonFits, CordonedOnlyForUpdate
  <2>5. PendingFits'
    BY <1>1, <1>5, <2>2
       DEF s, PendingFits, PendingRestartKnown, IsRestartPending, files, local
  <2> QED BY <1>2, <2>1, <2>3, <2>4, <2>5 DEF Careful
<1>6. CASE s.status = "None" /\ Update("node", "signal", WithStatus(s, SignalNext(s)))
  <2>1. SignalNext(s) \in {"Completed", "Downloading"}
    BY DEF SignalNext
  <2> QED BY <1>0, <1>3, <1>5, <1>6, <2>1, UpdateOutcome
<1> QED BY <1>4, <1>6 DEF SignalReconcile

LEMMA CarefulDownload ==
    ASSUME Coherent, Careful, ~LostReplies, DownloadReconcile
    PROVE  Careful' /\ Considerate
<1> DEFINE s == seen["node"]
<1>0. "node" \in Managers /\ signal \in Signal /\ "downloading" \in Controllers
  BY DEF Coherent, TypeOK, Managers, Controllers
<1>1. s = signal /\ signal.status = "Downloading"
  BY <1>0 DEF DownloadReconcile, Takes, Careful, RequestsAreCurrent, Sole, Alive, Awaits
<1>2. UNCHANGED <<seen, proc, running, disk, tracker, cordoned, env>>
  BY DEF DownloadReconcile
<1>3. Considerate
  BY <1>2 DEF Considerate, Disturbs
<1>4. /\ record' \in {record, signal.id}
      /\ \/ tmp' = signal.version
         \/ UNCHANGED <<tmp, record>> /\ ReusableDownload(s)
         \/ UNCHANGED <<tmp, record>> /\ ~ReusableDownload(s)
              /\ Update("node", "downloading", WithStatus(s, "FailedDownload"))
  BY <1>1 DEF DownloadReconcile
<1>t. signal.id = sent /\ sent # 0 /\ record <= sent
      /\ (record = sent /\ tmp # NoFile => tmp = signal.version)
  BY <1>1 DEF Careful, FilesFit
<1>5. CASE UNCHANGED <<signal, synced, queue>>
  <2>1. RequestsAreCurrent'
    BY <1>2, <1>5 DEF Careful, RequestsAreCurrent, Sole, Alive, Responsible
  <2>2. FilesFit'
    BY <1>1, <1>2, <1>4, <1>5, <1>t DEF FilesFit, env, Coherent, TypeOK
  <2>3. CordonFits' /\ PendingFits'
    BY <1>2, <1>5
       DEF Careful, CordonFits, CordonedOnlyForUpdate, PendingFits, PendingRestartKnown,
           IsRestartPending
  <2> QED BY <1>3, <2>1, <2>2, <2>3 DEF Careful
<1>6. ASSUME NEW st \in {"Cordoning", "FailedDownload"},
             queue' = [queue EXCEPT !["node"] = @ \ {"downloading"}],
             signal' = WithStatus(s, st),
             st = "Cordoning" => tmp' = signal.version
      PROVE  Careful' /\ Considerate
  <2>1. RequestsAreCurrent'
    BY <1>0, <1>1, <1>2, <1>6, WriteKeepsRequests DEF Careful, Sole, Awaits
  <2>2. /\ signal'.id = signal.id /\ signal'.version = signal.version
        /\ signal'.status = st
    BY SMTT(30), <1>0, <1>1, <1>6, WithStatusFields DEF Statuses
  <2> HIDE DEF s
  <2>3. FilesFit'
    BY <1>1, <1>2, <1>4, <1>6, <1>t, <2>2 DEF s, FilesFit, env, Coherent, TypeOK
  <2>4. CordonFits'
    BY <1>1, <1>2, <2>2 DEF Careful, CordonFits, CordonedOnlyForUpdate
  <2>5. PendingFits'
    BY <1>1, <1>2, <2>2 DEF s, PendingFits, PendingRestartKnown, IsRestartPending
  <2> QED BY <1>3, <2>1, <2>3, <2>4, <2>5 DEF Careful
<1>7. CASE Update("node", "downloading", WithStatus(s, "Cordoning"))
           /\ ((ReusableDownload(s) /\ UNCHANGED <<tmp, record>>) \/ tmp' = s.version)
  <2>1. tmp' = signal.version
    BY <1>1, <1>7, <1>t DEF ReusableDownload
  <2> QED BY <1>0, <1>5, <1>6, <1>7, <2>1, UpdateOutcome
<1>8. CASE Update("node", "downloading", WithStatus(s, "FailedDownload"))
  BY <1>0, <1>5, <1>6, <1>8, UpdateOutcome
<1> QED BY <1>7, <1>8 DEF DownloadReconcile

\* Whoever takes up an apply request finds the downloaded version, on a cordoned
\* node, under the signal that is stored.
LEMMA ApplyFinds ==
    ASSUME Coherent, Careful, Takes("node", "applying"), ReplaceBinary
    PROVE  /\ seen["node"] = signal /\ signal.status = "ApplyingUpdate"
           /\ tmp = signal.version /\ disk' = signal.version
           /\ NeedsCordoning => cordoned
           /\ signal.id = sent /\ sent # 0
<1>1. seen["node"] = signal /\ signal.status = "ApplyingUpdate"
  BY DEF Takes, Careful, RequestsAreCurrent, Sole, Alive, Awaits, Managers
<1>2. tmp = signal.version /\ signal.version \in Versions
  BY <1>1 DEF Careful, FilesFit, Coherent, TypeOK, Signal
<1>3. disk' = signal.version
  BY <1>2, SignalNodeAssumption DEF ReplaceBinary
<1> QED BY <1>1, <1>2, <1>3 DEF Careful, CordonFits, FilesFit

LEMMA CarefulApply ==
    ASSUME Coherent, Careful, ~LostReplies, ApplyReconcile
    PROVE  Careful' /\ Considerate
<1> DEFINE s == seen["node"]
<1>0. "node" \in Managers /\ signal \in Signal /\ "applying" \in Controllers
  BY DEF Coherent, TypeOK, Managers, Controllers
<1>1. /\ s = signal /\ signal.status = "ApplyingUpdate"
      /\ tmp = signal.version /\ disk' = signal.version
      /\ NeedsCordoning => cordoned
      /\ signal.id = sent /\ sent # 0
  BY ApplyFinds DEF ApplyReconcile
<1>2. UNCHANGED <<seen, proc, running, record, cordoned, env>>
  BY DEF ApplyReconcile
<1>3. Considerate
  BY <1>1, <1>2 DEF Considerate, Disturbs
<1>4. PICK t \in Stamps :
        LET r == [s EXCEPT !.status = "Restart", !.stamp = t] IN
        tracker' = Initiated(r) /\ Update("node", "applying", r)
  BY DEF ApplyReconcile
<1> DEFINE r == [s EXCEPT !.status = "Restart", !.stamp = t]
<1>5. r.id = signal.id /\ r.version = signal.version /\ r.status = "Restart"
  BY <1>0, <1>1 DEF Signal
<1>6. tracker' = Initiated(r) /\ Update("node", "applying", r)
  BY <1>4
<1> HIDE DEF s, r
<1>7. CASE UNCHANGED <<signal, synced, queue>>
  <2>1. "applying" \in queue'["node"]
    BY <1>7 DEF ApplyReconcile, Takes
  <2>2. tmp' = tmp
    BY <2>1 DEF ApplyReconcile
  <2>3. RequestsAreCurrent'
    BY <1>2, <1>7 DEF Careful, RequestsAreCurrent, Sole, Alive, Responsible
  <2>4. FilesFit' /\ CordonFits'
    BY <1>1, <1>2, <1>7, <2>2
       DEF Careful, FilesFit, CordonFits, CordonedOnlyForUpdate, env
  <2>5. PendingFits'
    BY <1>1, <1>2, <1>7 DEF s, PendingFits, PendingRestartKnown, IsRestartPending
  <2> QED BY <1>3, <2>3, <2>4, <2>5 DEF Careful
<1>8. CASE /\ s = signal /\ signal' = r
           /\ queue' = [queue EXCEPT !["node"] = @ \ {"applying"}]
  <2>1. RequestsAreCurrent'
    BY <1>0, <1>1, <1>2, <1>8, WriteKeepsRequests DEF Careful, Sole, Awaits
  <2>2. tmp' \in {tmp, NoFile}
    BY DEF ApplyReconcile
  <2>3. FilesFit'
    BY <1>1, <1>2, <1>5, <1>8, <2>2 DEF Careful, FilesFit, env
  <2>4. CordonFits'
    BY <1>1, <1>2, <1>5, <1>8 DEF Careful, CordonFits, CordonedOnlyForUpdate
  <2>5. tracker' = Initiated(signal') /\ tracker' # NoRestart
    BY <1>0, <1>1, <1>5, <1>6, <1>8 DEF Initiated, NoRestart
  <2>6. PendingFits'
    BY <1>1, <1>2, <1>5, <1>8, <2>5
       DEF s, PendingFits, PendingRestartKnown, IsRestartPending
  <2> QED BY <1>3, <2>1, <2>3, <2>4, <2>6 DEF Careful
<1> QED BY <1>0, <1>6, <1>7, <1>8, UpdateOutcome DEF s

\* The restart and the restarted reconciler: the status goes on when the process
\* is new, and the process ends when it is not.
LEMMA CarefulRestart ==
    ASSUME Coherent, Careful, ~LostReplies, RestartReconcile \/ RestartedReconcile
    PROVE  Careful' /\ Considerate
<1> DEFINE s == seen["node"]
<1>0. "node" \in Managers /\ s \in Signal /\ signal \in Signal
      /\ {"restart", "restarted"} \subseteq Controllers
  BY DEF Coherent, TypeOK, Managers, Controllers
<1>1. UNCHANGED <<seen, running, files, local, cordoned, env>>
  BY DEF RestartReconcile, RestartedReconcile
<1>2. s.status \in {"None", "Restart"} /\ proc # "down"
  BY DEF RestartReconcile, RestartedReconcile, Ignored, Awaits, Takes
<1>3. PICK c \in {"restart", "restarted"} :
        \/ /\ Drop("node", c) /\ UNCHANGED <<signal, synced>>
           /\ \/ proc' = proc
              \/ proc' = "stopping" /\ IsRestartPending(s) /\ running # s.version
        \/ /\ Update("node", c, WithStatus(s, "UnCordoning")) /\ proc' = proc
           /\ running = s.version \/ ~IsRestartPending(s)
  BY DEF RestartReconcile, RestartedReconcile
<1>4. Considerate
  <2>1. CASE proc' = proc
    BY <1>1, <2>1 DEF Considerate, Disturbs, files
  <2>2. CASE IsRestartPending(s) /\ running # s.version
    <3>1. s = signal
      BY <1>2, <2>2 DEF Careful, PendingFits
    <3>2. signal.status = "Restart"
      BY <2>2, <3>1 DEF IsRestartPending
    <3> QED
      BY <1>1, <3>2 DEF Considerate, Disturbs, files, Careful, FilesFit, CordonFits
  <2> QED BY <1>3, <2>1, <2>2
<1> HIDE DEF s
<1>5. CASE UNCHANGED <<signal, synced>> /\ proc' # "down"
           /\ \A x \in Managers : queue'[x] \subseteq queue[x]
  <2>1. RequestsAreCurrent'
    BY <1>1, <1>2, <1>5, FewerRequests DEF Careful, Alive
  <2> QED
    BY <1>1, <1>2, <1>4, <1>5, <2>1
       DEF Careful, FilesFit, CordonFits, CordonedOnlyForUpdate, PendingFits,
           PendingRestartKnown, IsRestartPending, files, local, env
<1>6. CASE /\ s = signal /\ signal' = WithStatus(s, "UnCordoning") /\ proc' = proc
           /\ queue' = [queue EXCEPT !["node"] = @ \ {c}]
           /\ running = s.version \/ ~IsRestartPending(s)
  <2>1. RequestsAreCurrent'
    BY <1>0, <1>1, <1>2, <1>6, WriteKeepsRequests DEF Careful
  <2>2. /\ signal'.id = signal.id /\ signal'.version = signal.version
        /\ signal'.status = "UnCordoning"
    BY <1>0, <1>6, WithStatusFields DEF Statuses
  <2>3. FilesFit'
    BY <1>1, <1>2, <1>6, <2>2 DEF Careful, FilesFit, files, local, env
  <2>4. CordonFits'
    BY <1>1, <1>6, <2>2 DEF Careful, CordonFits, CordonedOnlyForUpdate
  <2>5. PendingFits'
    BY <1>1, <1>6, <2>2
       DEF s, PendingFits, PendingRestartKnown, IsRestartPending, files, local
  <2> QED BY <1>4, <2>1, <2>3, <2>4, <2>5 DEF Careful
<1>7. CASE Drop("node", c) /\ UNCHANGED <<signal, synced>> /\ proc' # "down"
  BY <1>0, <1>5, <1>7 DEF Drop, Coherent, TypeOK
<1>8. CASE /\ Update("node", c, WithStatus(s, "UnCordoning")) /\ proc' = proc
           /\ running = s.version \/ ~IsRestartPending(s)
  <2>1. CASE UNCHANGED <<signal, synced, queue>>
    BY <1>2, <1>5, <1>8, <2>1
  <2> QED BY <1>0, <1>6, <1>8, <2>1, UpdateOutcome DEF s
<1> QED BY <1>2, <1>3, <1>7, <1>8

-----------------------------------------------------------------------------
LEMMA CarefulCordon ==
    ASSUME Coherent, Careful, ~LostReplies, NEW m \in Managers,
           CordonReconcile(m) \/ UncordonReconcile(m)
    PROVE  Careful' /\ Considerate
<1>0. seen[m] \in Signal /\ signal \in Signal /\ cordoned \in BOOLEAN
      /\ Cordoners \subseteq Controllers
  BY DEF Coherent, TypeOK, Controllers
<1>1. PICK c \in Cordoners, want \in BOOLEAN, next \in {"ApplyingUpdate", "Completed"} :
        /\ CordonUncordon(m, c, want, next)
        /\ c = "cordoning" => next = "ApplyingUpdate" /\ want = TRUE
        /\ c = "uncordoning" => next = "Completed" /\ want = FALSE
  BY DEF CordonReconcile, UncordonReconcile, Cordoners
<1>2. UNCHANGED <<seen, proc, running, files, local, env>> /\ Takes(m, c)
  BY <1>1 DEF CordonUncordon
<1>3. Considerate
  BY <1>2 DEF Considerate, Disturbs, files
<1>4. CASE Drop(m, c) /\ UNCHANGED <<signal, synced, cordoned>>
  <2>1. RequestsAreCurrent'
    BY <1>2, <1>4, FewerRequests DEF Drop, Coherent, TypeOK, Careful, Alive
  <2> QED
    BY <1>2, <1>3, <1>4, <2>1
       DEF Careful, FilesFit, CordonFits, CordonedOnlyForUpdate, PendingFits,
           PendingRestartKnown, IsRestartPending, files, local, env
<1>5. ASSUME Responsible(m)
      PROVE  /\ seen[m] = signal /\ signal.status = Awaits(c) /\ Sole(m, c)
             /\ signal.status = IF want THEN "Cordoning" ELSE "UnCordoning"
  BY <1>1, <1>2, <1>5
     DEF Takes, Careful, RequestsAreCurrent, Sole, Alive, Awaits, Cordoners
<1>6. CASE /\ Responsible(m) /\ UNCHANGED <<signal, queue>>
           /\ cordoned' = IF NeedsCordoning THEN want ELSE cordoned
  <2>1. RequestsAreCurrent'
    BY <1>2, <1>6 DEF Careful, RequestsAreCurrent, Sole, Alive, Responsible
  <2>2. CordonFits'
    BY <1>0, <1>5, <1>6 DEF Careful, CordonFits, CordonedOnlyForUpdate, NeedsCordoning
  <2> QED
    BY <1>2, <1>3, <1>6, <2>1, <2>2
       DEF Careful, FilesFit, PendingFits, PendingRestartKnown, IsRestartPending,
           files, local, env
<1>7. CASE /\ Responsible(m) /\ signal' = WithStatus(seen[m], next)
           /\ queue' = [queue EXCEPT ![m] = @ \ {c}]
           /\ cordoned' = IF NeedsCordoning THEN want ELSE cordoned
  <2>1. RequestsAreCurrent'
    BY <1>0, <1>2, <1>5, <1>7, WriteKeepsRequests DEF Careful
  <2>n. next \in Statuses /\ next = IF want THEN "ApplyingUpdate" ELSE "Completed"
    BY <1>1 DEF Statuses, Cordoners
  <2>2. /\ signal'.id = signal.id /\ signal'.version = signal.version
        /\ signal'.status = next
        /\ next = IF want THEN "ApplyingUpdate" ELSE "Completed"
    BY SMTT(30), <1>0, <1>5, <1>7, <2>n, WithStatusFields
  <2>3. FilesFit'
    BY <1>2, <1>5, <1>7, <2>2 DEF Careful, FilesFit, files, local, env
  <2>4. CordonFits'
    BY <1>0, <1>5, <1>7, <2>2 DEF Careful, CordonFits, CordonedOnlyForUpdate, NeedsCordoning
  <2>5. ~ (proc # "down" /\ IsRestartPending(seen["node"])
             /\ running # seen["node"].version)
    BY <1>5, <1>7 DEF Careful, PendingFits, IsRestartPending
  <2>6. PendingFits'
    BY <1>2, <2>2, <2>5 DEF PendingFits, PendingRestartKnown, IsRestartPending, files, local
  <2> QED BY <1>3, <2>1, <2>3, <2>4, <2>6 DEF Careful
<1>8. CASE /\ Responsible(m) /\ Update(m, c, WithStatus(seen[m], next))
           /\ cordoned' = IF NeedsCordoning THEN want ELSE cordoned
  BY <1>6, <1>7, <1>8, UpdateOutcome
<1> QED BY <1>1, <1>4, <1>6, <1>8 DEF CordonUncordon

\* A new cache holds the stored signal, and its requests are for that.
LEMMA FreshIsCareful ==
    ASSUME Coherent, Careful, NEW m \in Managers, FreshManager(m), UNCHANGED signal,
           \A x \in Managers \ {m} : Alive(x)' => Alive(x)
    PROVE  RequestsAreCurrent'
<1> SUFFICES ASSUME NEW x \in Managers, NEW d \in queue'[x], Sole(x, d)', Alive(x)'
             PROVE  signal'.status = Awaits(d) /\ seen'[x] = signal'
  BY DEF RequestsAreCurrent
<1>1. CASE x = m
  <2>1. d \in CreateEvent(m, signal) /\ seen'[m] = signal
    BY <1>1 DEF FreshManager, Coherent, TypeOK
  <2> QED BY <1>1, <2>1 DEF CreateEvent
<1>2. CASE x # m
  <2>1. d \in queue[x] /\ seen'[x] = seen[x] /\ Sole(x, d) /\ Alive(x)
    BY <1>2 DEF FreshManager, Coherent, TypeOK, Sole, Responsible
  <2> QED BY <2>1 DEF Careful, RequestsAreCurrent
<1> QED BY <1>1, <1>2

LEMMA CarefulEnvironment ==
    ASSUME Coherent, Careful, SignalWhen # "any", EnvStep
    PROVE  Careful' /\ Considerate
<1> USE DEF files, local, env, api
<1>0. "node" \in Managers /\ "leader" \in Managers /\ signal \in Signal
  BY DEF Coherent, TypeOK, Managers
<1>1. CASE Start \/ Rebuild
  <2>1. /\ FreshManager("node") /\ UNCHANGED <<signal, sent, disk, tmp, cordoned>>
        /\ proc' = "up" /\ record' = 0
        /\ \/ UNCHANGED <<proc, running, tracker>>
           \/ proc = "down" /\ running' = disk
    BY <1>1 DEF Start, Rebuild
  <2>2. RequestsAreCurrent'
    BY <1>0, <2>1, FreshIsCareful DEF Alive, Managers
  <2>3. FilesFit'
    BY SMTT(30), <2>1 DEF Careful, FilesFit, Coherent, TypeOK
  <2>4. CordonFits'
    BY <2>1 DEF Careful, CordonFits, CordonedOnlyForUpdate
  <2>5. seen'["node"] = signal'
    BY <1>0, <2>1 DEF FreshManager, Coherent, TypeOK
  <2>6. PendingFits'
    BY <2>1, <2>5 DEF Careful, PendingFits, PendingRestartKnown, IsRestartPending
  <2>7. Considerate
    BY <2>1 DEF Considerate, Disturbs
  <2> QED BY <2>2, <2>3, <2>4, <2>6, <2>7 DEF Careful
<1>2. CASE LeaderChange
  <2>1. FreshManager("leader")
        /\ UNCHANGED <<signal, proc, running, disk, tmp, record, tracker, cordoned, sent>>
    BY <1>2 DEF LeaderChange
  <2>2. RequestsAreCurrent'
    BY <1>0, <2>1, FreshIsCareful DEF Alive
  <2>3. seen'["node"] = seen["node"]
    BY <1>0, <2>1 DEF FreshManager, Coherent, TypeOK
  <2> QED
    BY <2>1, <2>2, <2>3
       DEF Careful, FilesFit, CordonFits, CordonedOnlyForUpdate, PendingFits,
           PendingRestartKnown, IsRestartPending, Considerate, Disturbs
<1>3. CASE Heartbeat \/ Exit \/ Crash
  <2>1. /\ UNCHANGED <<signal, seen, queue, running, disk, tmp, record, tracker,
                       cordoned, sent>>
        /\ proc' \in {proc, "down"}
    BY <1>3 DEF Heartbeat, Exit, Crash
  <2>2. RequestsAreCurrent'
    BY <2>1, FewerRequests DEF Careful, Alive
  <2> QED
    BY <2>1, <2>2
       DEF Careful, FilesFit, CordonFits, CordonedOnlyForUpdate, PendingFits,
           PendingRestartKnown, IsRestartPending, Considerate, Disturbs
<1>4. CASE CrashWhileApplying
  <2>1. /\ seen["node"] = signal /\ signal.status = "ApplyingUpdate"
        /\ tmp = signal.version /\ disk' = signal.version
        /\ NeedsCordoning => cordoned
        /\ signal.id = sent /\ sent # 0
    BY <1>4, ApplyFinds DEF CrashWhileApplying
  <2>2. UNCHANGED <<seen, queue, running, tmp, record, tracker, cordoned, sent>>
        /\ proc' = "down"
    BY <1>4 DEF CrashWhileApplying
  <2>3. signal'.id = signal.id /\ signal'.version = signal.version
        /\ signal'.status \in {"ApplyingUpdate", "Restart"}
    BY <1>0, <1>4, <2>1 DEF CrashWhileApplying, Signal
  <2>4. RequestsAreCurrent'
    <3> SUFFICES ASSUME NEW x \in Managers, NEW d \in queue'[x], Sole(x, d)', Alive(x)'
                 PROVE  FALSE
      BY DEF RequestsAreCurrent
    <3>1. x = "leader" /\ d \in queue[x] /\ Sole(x, d) /\ d \in Cordoners
      BY <2>2 DEF Alive, Managers, Sole, Responsible
    <3>2. signal.status = Awaits(d)
      BY <3>1 DEF Careful, RequestsAreCurrent, Alive
    <3> QED BY <2>1, <3>1, <3>2 DEF Awaits, Cordoners
  <2>5. FilesFit'
    BY <2>1, <2>2, <2>3 DEF Careful, FilesFit
  <2>6. CordonFits'
    BY <2>1, <2>2, <2>3 DEF Careful, CordonFits, CordonedOnlyForUpdate
  <2>7. PendingFits' /\ Considerate
    BY <2>1, <2>2 DEF PendingFits, PendingRestartKnown, Considerate, Disturbs
  <2> QED BY <2>4, <2>5, <2>6, <2>7 DEF Careful
<1>5. CASE Send
  <2>1. /\ signal.status \in {"Absent", "Completed", "FailedDownload"}
        /\ sent' = sent + 1
        /\ signal'.id = sent + 1 /\ signal'.status = "None"
        /\ UNCHANGED <<seen, queue, proc, running, disk, tmp, record, tracker, cordoned>>
    BY SMTT(30), <1>5, SignalNodeAssumption DEF Send, Finished
  <2>2. RequestsAreCurrent'
    <3> SUFFICES ASSUME NEW x \in Managers, NEW d \in queue'[x], Sole(x, d)', Alive(x)'
                 PROVE  FALSE
      BY DEF RequestsAreCurrent
    <3>1. d \in queue[x] /\ Sole(x, d) /\ Alive(x)
      BY <2>1 DEF Alive, Sole, Responsible
    <3>2. signal.status = Awaits(d)
      BY <3>1 DEF Careful, RequestsAreCurrent
    <3> QED BY <2>1, <3>1, <3>2 DEF Awaits, Sole, Cordoners
  <2>n. sent \in Nat /\ record \in Nat /\ record <= sent
    BY SMTT(30) DEF Careful, FilesFit, Coherent, TypeOK
  <2>3. FilesFit'
    BY SMTT(30), <2>1, <2>n DEF FilesFit
  <2>4. CordonFits'
    BY <2>1 DEF Careful, CordonFits, CordonedOnlyForUpdate
  <2>5. PendingFits' /\ Considerate
    BY <2>1
       DEF Careful, PendingFits, PendingRestartKnown, IsRestartPending, Considerate, Disturbs
  <2> QED BY <2>2, <2>3, <2>4, <2>5 DEF Careful
<1> QED BY <1>1, <1>2, <1>3, <1>4, <1>5 DEF EnvStep

LEMMA CarefulQueue ==
    ASSUME Coherent, Careful, NEW m \in Managers,
           Observe(m) \/ \E c \in Controllers : Ignore(m, c)
    PROVE  Careful' /\ Considerate
<1> USE DEF files, local, env
<1>0. "node" \in Managers
  BY DEF Managers
<1>1. UNCHANGED <<signal, proc, running, disk, tmp, record, tracker, cordoned, sent>>
  BY DEF Observe, Ignore
<1>2. CASE Observe(m)
  <2>1. RequestsAreCurrent'
    <3> SUFFICES ASSUME NEW x \in Managers, NEW d \in queue'[x], Sole(x, d)', Alive(x)'
                 PROVE  signal'.status = Awaits(d) /\ seen'[x] = signal'
      BY DEF RequestsAreCurrent
    <3>1. Sole(x, d) /\ Alive(x)
      BY <1>1 DEF Alive, Sole, Responsible
    <3>2. CASE d \in queue[x]
      BY <1>1, <1>2, <3>1, <3>2 DEF Observe, Careful, RequestsAreCurrent, Coherent, TypeOK
    <3>3. CASE x = m /\ d \in UpdateEvent(m, seen[m], signal)
      BY <1>1, <1>2, <3>3 DEF Observe, UpdateEvent, Coherent, TypeOK
    <3> QED BY <1>2, <3>2, <3>3 DEF Observe, Coherent, TypeOK
  <2>2. seen'["node"] \in {seen["node"], signal}
    BY <1>0, <1>2 DEF Observe, Coherent, TypeOK
  <2>3. PendingFits'
    BY <1>1, <2>2 DEF Careful, PendingFits, PendingRestartKnown, IsRestartPending
  <2> QED
    BY <1>1, <2>1, <2>3
       DEF Careful, FilesFit, CordonFits, CordonedOnlyForUpdate, Considerate, Disturbs
<1>3. CASE \E c \in Controllers : Ignore(m, c)
  <2>1. PICK c \in Controllers : Ignore(m, c)
    BY <1>3
  <2>2. RequestsAreCurrent' /\ seen' = seen
    BY <1>1, <2>1, FewerRequests DEF Ignore, Drop, Coherent, TypeOK, Careful, Alive
  <2> QED
    BY <1>1, <2>2
       DEF Careful, FilesFit, CordonFits, CordonedOnlyForUpdate, PendingFits,
           PendingRestartKnown, IsRestartPending, Considerate, Disturbs
<1> QED BY <1>2, <1>3

\* What a write stores: never the status None, and with the files of the node as
\* they are the status after the one the writer has found.
LEMMA TruthfulReconcile ==
    ASSUME Coherent, Careful, Truthful, ~LostReplies, NodeReconcile
    PROVE  Truthful'
<1> DEFINE s == seen["node"]
<1>0. "node" \in Managers /\ s \in Signal /\ signal \in Signal
  <2>1. "node" \in Managers
    BY DEF Managers
  <2> QED BY <2>1 DEF Coherent, TypeOK
<1> USE DEF files, local, env
<1>1. CASE SignalReconcile
  <2>1. UNCHANGED <<seen, proc, running, disk>>
        /\ proc # "down"
    BY <1>1 DEF SignalReconcile, Takes
  <2>2. CASE Drop("node", "signal") /\ UNCHANGED <<signal, synced>>
    BY <1>0, <2>1, <2>2 DEF Truthful, Drop, Coherent, TypeOK
  <2>3. CASE s.status = "None" /\ Update("node", "signal", WithStatus(s, SignalNext(s)))
    <3>1. SignalNext(s) \in Statuses /\ SignalNext(s) \in {"Completed", "Downloading"}
          /\ (SignalNext(s) = "Completed" => running = s.version)
      BY DEF SignalNext, Statuses
    <3>2. CASE UNCHANGED <<signal, synced, queue>>
      BY <2>1, <3>2 DEF Truthful
    <3>3. CASE /\ s = signal /\ signal' = WithStatus(s, SignalNext(s))
               /\ queue' = [queue EXCEPT !["node"] = @ \ {"signal"}]
      <4>1. signal'.status = SignalNext(s) /\ signal'.version = signal.version
        BY <1>0, <3>1, <3>3, WithStatusFields
      <4>2. running = disk
        BY <2>1, <2>3, <3>3 DEF Truthful
      <4> HIDE DEF s
      <4>3. queue'["node"] \subseteq queue["node"]
        BY <1>0, <3>3 DEF Coherent, TypeOK
      <4> QED BY <2>1, <3>1, <3>3, <4>1, <4>2, <4>3 DEF Truthful
    <3> QED BY <1>0, <2>3, <3>2, <3>3, UpdateOutcome
  <2> QED BY <1>1, <2>2, <2>3 DEF SignalReconcile
<1>2. CASE DownloadReconcile
  <2>1. UNCHANGED <<seen, proc, running, disk>>
    BY <1>2 DEF DownloadReconcile
  <2>2. s = signal /\ signal.status = "Downloading"
    BY <1>0, <1>2
       DEF DownloadReconcile, Takes, Careful, RequestsAreCurrent, Sole, Alive, Awaits
  <2>3. PICK st \in {"Cordoning", "FailedDownload"} :
            Update("node", "downloading", WithStatus(s, st))
    BY <1>2 DEF DownloadReconcile
  <2>4. WithStatus(s, st).status = st
    BY SMTT(30), <1>0, WithStatusFields DEF Statuses
  <2> HIDE DEF s
  <2>5. CASE UNCHANGED <<signal, synced, queue>>
    BY <2>1, <2>5 DEF Truthful
  <2>6. CASE /\ signal' = WithStatus(s, st)
             /\ queue' = [queue EXCEPT !["node"] = @ \ {"downloading"}]
    <3>1. queue'["node"] \subseteq queue["node"]
      BY <1>0, <2>6 DEF Coherent, TypeOK
    <3> QED BY <2>1, <2>2, <2>4, <2>6, <3>1 DEF Truthful
  <2> QED BY <1>0, <2>3, <2>5, <2>6, UpdateOutcome DEF s
<1>3. CASE ApplyReconcile
  <2>1. UNCHANGED <<seen, proc, running>>
    BY <1>3 DEF ApplyReconcile
  <2>2. s = signal /\ signal.status = "ApplyingUpdate"
    BY <1>3, ApplyFinds DEF ApplyReconcile
  <2>3. PICK t \in Stamps :
          Update("node", "applying", [s EXCEPT !.status = "Restart", !.stamp = t])
    BY <1>3 DEF ApplyReconcile
  <2> DEFINE r == [s EXCEPT !.status = "Restart", !.stamp = t]
  <2>4. r.status = "Restart"
    BY <1>0 DEF Signal
  <2>5. Update("node", "applying", r)
    BY <2>3
  <2> HIDE DEF s, r
  <2>6. CASE UNCHANGED <<signal, synced, queue>>
    BY <2>1, <2>2, <2>6 DEF Truthful
  <2>7. CASE signal' = r /\ queue' = [queue EXCEPT !["node"] = @ \ {"applying"}]
    <3>1. queue'["node"] \subseteq queue["node"]
      BY <1>0, <2>7 DEF Coherent, TypeOK
    <3> QED BY <2>1, <2>2, <2>4, <2>7, <3>1 DEF Truthful
  <2> QED BY <1>0, <2>5, <2>6, <2>7, UpdateOutcome DEF s
<1>4. CASE RestartReconcile \/ RestartedReconcile
  <2>1. PICK c \in {"restart", "restarted"} :
          /\ c \in queue["node"]
          /\ \/ Drop("node", c) /\ UNCHANGED <<signal, synced>>
             \/ /\ Update("node", c, WithStatus(s, "UnCordoning"))
                /\ running = s.version \/ ~IsRestartPending(s)
    BY <1>4 DEF RestartReconcile, RestartedReconcile, Takes
  <2>2. UNCHANGED <<seen, running, disk>> /\ proc # "down" /\ proc' # "down"
        /\ s.status \in {"None", "Restart"}
    BY <1>4 DEF RestartReconcile, RestartedReconcile, Takes, Ignored, Awaits
  <2>3. s.status = "Restart"
    BY <2>1, <2>2 DEF Truthful
  <2>4. CASE UNCHANGED signal /\ queue'["node"] \subseteq queue["node"]
    BY <2>2, <2>4 DEF Truthful
  <2>5. CASE /\ s = signal /\ signal' = WithStatus(s, "UnCordoning")
             /\ queue' = [queue EXCEPT !["node"] = @ \ {c}]
             /\ running = s.version \/ ~IsRestartPending(s)
    <3>1. signal'.version = signal.version /\ signal'.status = "UnCordoning"
      BY <1>0, <2>5, WithStatusFields DEF Statuses
    <3>2. queue'["node"] \subseteq queue["node"]
      BY <1>0, <2>5 DEF Coherent, TypeOK
    <3>3. disk = signal.version
      BY <2>3, <2>5 DEF Careful, FilesFit
    <3>4. running = disk
      BY <2>2, <2>3, <2>5, <3>3 DEF Careful, PendingFits, PendingRestartKnown
    <3> HIDE DEF s
    <3> QED BY <2>2, <2>3, <3>1, <3>2, <3>3, <3>4 DEF s, Truthful
  <2>6. CASE Drop("node", c) /\ UNCHANGED <<signal, synced>>
    BY <1>0, <2>4, <2>6 DEF Drop, Coherent, TypeOK
  <2>7. CASE /\ Update("node", c, WithStatus(s, "UnCordoning"))
             /\ running = s.version \/ ~IsRestartPending(s)
    BY <1>0, <2>4, <2>5, <2>7, UpdateOutcome
  <2> QED BY <2>1, <2>6, <2>7
<1> QED BY <1>1, <1>2, <1>3, <1>4 DEF NodeReconcile

LEMMA TruthfulManagers ==
    ASSUME Coherent, Careful, Truthful, ~LostReplies, NEW m \in Managers, ManagerStep(m)
    PROVE  Truthful'
<1> USE DEF files, local, env
<1>0. "node" \in Managers /\ seen[m] \in Signal
  BY DEF Coherent, TypeOK, Managers
<1>1. CASE Observe(m)
  <2>1. UNCHANGED <<signal, proc, running, disk>>
    BY <1>1 DEF Observe
  <2>2. CASE m # "node"
    BY <1>0, <1>1, <2>1, <2>2 DEF Observe, Truthful, Coherent, TypeOK
  <2>3. CASE m = "node"
    <3>1. seen'["node"] = signal
          /\ queue'["node"] = queue["node"] \cup UpdateEvent("node", seen["node"], signal)
      BY <1>0, <1>1, <2>3 DEF Observe, Coherent, TypeOK
    <3>2. UpdateEvent("node", seen["node"], signal) \cap {"restart", "restarted"} # {} =>
            signal.status = "Restart"
      BY DEF UpdateEvent, Awaits
    <3> QED BY <2>1, <3>1, <3>2 DEF Truthful
  <2> QED BY <2>2, <2>3
<1>2. CASE \E c \in Controllers : Ignore(m, c)
  BY <1>0, <1>2 DEF Ignore, Drop, Truthful, Coherent, TypeOK
<1>3. CASE CordonReconcile(m) \/ UncordonReconcile(m)
  <2>1. PICK c \in Cordoners, want \in BOOLEAN, next \in {"ApplyingUpdate", "Completed"} :
          /\ CordonUncordon(m, c, want, next)
          /\ c = "cordoning" => next = "ApplyingUpdate"
          /\ c = "uncordoning" => next = "Completed"
    BY <1>3 DEF CordonReconcile, UncordonReconcile, Cordoners
  <2>2. UNCHANGED <<seen, proc, running, disk>> /\ Takes(m, c)
    BY <2>1 DEF CordonUncordon
  <2>3. CASE UNCHANGED signal /\ queue'["node"] \subseteq queue["node"]
    BY <2>2, <2>3 DEF Truthful
  <2>4. CASE /\ Responsible(m) /\ signal' = WithStatus(seen[m], next)
             /\ queue' = [queue EXCEPT ![m] = @ \ {c}]
    <3>1. seen[m] = signal /\ signal.status = Awaits(c)
      BY <2>2, <2>4 DEF Takes, Careful, RequestsAreCurrent, Sole, Alive
    <3>2. signal'.version = signal.version /\ signal'.status = next
      BY SMTT(30), <1>0, <2>4, <3>1, WithStatusFields DEF Statuses
    <3>3. queue'["node"] \subseteq queue["node"]
      BY <1>0, <2>4 DEF Coherent, TypeOK
    <3>4. next = "Completed" => signal.status = "UnCordoning"
      BY <2>1, <3>1 DEF Awaits, Cordoners
    <3>5. signal.status \notin {"ApplyingUpdate", "Restart"}
      BY <3>1 DEF Awaits, Cordoners
    <3> QED BY <2>2, <3>2, <3>3, <3>4, <3>5 DEF Truthful
  <2>5. CASE Drop(m, c) /\ UNCHANGED signal
    BY <1>0, <2>3, <2>5 DEF Drop, Coherent, TypeOK
  <2>6. CASE Responsible(m) /\ Update(m, c, WithStatus(seen[m], next))
    BY <2>3, <2>4, <2>6, UpdateOutcome
  <2> QED BY <2>1, <2>3, <2>5, <2>6 DEF CordonUncordon
<1> QED BY <1>1, <1>2, <1>3 DEF ManagerStep

LEMMA TruthfulEnvironment ==
    ASSUME Coherent, Careful, Truthful, SignalWhen = "idle", EnvStep
    PROVE  Truthful'
<1> USE DEF files, local, env, api
<1>0. "node" \in Managers /\ "leader" \in Managers
  BY DEF Managers
<1>1. CASE Start \/ Rebuild
  <2>1. /\ UNCHANGED <<signal, disk>>
        /\ running' = disk \/ (running' = running /\ proc # "down")
        /\ seen'["node"] = signal /\ queue'["node"] = CreateEvent("node", signal)
    BY <1>0, <1>1 DEF Start, Rebuild, FreshManager, Coherent, TypeOK
  <2>2. CreateEvent("node", signal) \cap {"restart", "restarted"} # {} =>
          signal.status = "Restart"
    BY DEF CreateEvent, Awaits
  <2> QED BY <2>1, <2>2 DEF Truthful
<1>2. CASE LeaderChange
  <2>1. UNCHANGED <<signal, proc, running, disk>>
        /\ seen'["node"] = seen["node"] /\ queue'["node"] = queue["node"]
    BY <1>0, <1>2 DEF LeaderChange, FreshManager, Coherent, TypeOK
  <2> QED BY <2>1 DEF Truthful
<1>3. CASE Heartbeat \/ Exit \/ Crash
  BY <1>3 DEF Heartbeat, Exit, Crash, Truthful
<1>4. CASE CrashWhileApplying
  <2>1. seen["node"] = signal /\ signal \in Signal /\ signal.status = "ApplyingUpdate"
    BY <1>4, ApplyFinds DEF CrashWhileApplying, Coherent, TypeOK
  <2>2. signal'.status \in {"ApplyingUpdate", "Restart"} /\ proc' = "down"
    BY <1>4, <2>1 DEF CrashWhileApplying, Signal
  <2> QED BY <2>2 DEF Truthful
<1>5. CASE Send
  <2>1. /\ signal.status \in {"Absent", "Completed", "FailedDownload"}
        /\ queue["node"] = {} /\ signal'.status = "None"
        /\ UNCHANGED <<queue, proc, running, disk>>
    BY SMTT(30), <1>0, <1>5 DEF Send, Finished
  <2> QED BY <2>1 DEF Truthful
<1> QED BY <1>1, <1>2, <1>3, <1>4, <1>5 DEF EnvStep

LEMMA CarefulInit == Init => Careful /\ Truthful
<1> SUFFICES ASSUME Init PROVE Careful /\ Truthful
  OBVIOUS
<1>1. RequestsAreCurrent
  BY DEF Init, RequestsAreCurrent
<1>2. signal.id = 0 /\ signal.status = "Absent" /\ seen["node"] = signal
      /\ queue["node"] = {}
  BY DEF Init, Managers
<1>3. sent = 0 /\ record = 0 /\ cordoned = FALSE /\ disk = running
  BY DEF Init
<1> HIDE DEF Init
<1>4. FilesFit /\ CordonFits /\ PendingFits /\ Truthful
  BY SMTT(30), <1>2, <1>3
     DEF FilesFit, CordonFits, CordonedOnlyForUpdate, PendingFits, PendingRestartKnown,
         IsRestartPending, Truthful
<1> QED BY <1>1, <1>4 DEF Careful

LEMMA CarefulStep ==
    ASSUME ~LostReplies, SignalWhen # "any", Coherent, Careful, [Next]_vars
    PROVE  Careful' /\ (Considerate \/ UNCHANGED vars)
<1>1. CASE UNCHANGED vars
  BY <1>1
     DEF vars, Careful, RequestsAreCurrent, Sole, Alive, Responsible, FilesFit, CordonFits,
         CordonedOnlyForUpdate, PendingFits, PendingRestartKnown, IsRestartPending
<1>2. CASE Next
  BY <1>2, CarefulSignal, CarefulDownload, CarefulApply, CarefulRestart, CarefulCordon,
     CarefulEnvironment, CarefulQueue
     DEF Next, NodeReconcile, ManagerStep
<1> QED BY <1>1, <1>2

LEMMA TruthfulStep ==
    ASSUME ~LostReplies, SignalWhen = "idle", Coherent, Careful, Truthful, [Next]_vars
    PROVE  Truthful'
<1>1. CASE UNCHANGED vars
  BY <1>1 DEF vars, Truthful
<1>2. CASE Next
  BY <1>2, TruthfulReconcile, TruthfulManagers, TruthfulEnvironment DEF Next
<1> QED BY <1>1, <1>2

\* What a node says of an update is true, for every kind of node and cordoning,
\* any number of signals, crashes and leader changes: Completed means that the
\* version is installed and runs, a node is cordoned only for an update, and a
\* process that has to restart knows it.  The signals come to idle nodes, and an
\* accepted write is reported as such.
THEOREM NodesTellTheTruth ==
    SignalWhen = "idle" /\ ~LostReplies => (Spec => []NodeTellsTheTruth)
<1> SUFFICES ASSUME SignalWhen = "idle", ~LostReplies
             PROVE  Spec => []NodeTellsTheTruth
  OBVIOUS
<1> DEFINE Inv == Coherent /\ Careful /\ Truthful
<1>1. Init => Inv
  BY CoherentInit, CarefulInit
<1>2. Inv /\ [Next]_vars => Inv'
  BY NextStep, CarefulStep, TruthfulStep
<1>3. Inv => NodeTellsTheTruth
  BY DEF Careful, Truthful, CordonFits, PendingFits, NodeTellsTheTruth,
         CompletedMeansInstalled
<1> QED BY <1>1, <1>2, <1>3, PTL DEF Spec

\* The executable is replaced and k0s is terminated on a cordoned node only, also
\* with requests left over from earlier signals and caches that are behind.
THEOREM CordonedWhenDisturbed ==
    SignalWhen # "any" /\ ~LostReplies => (Spec => DisturbedOnlyWhenCordoned)
<1> SUFFICES ASSUME SignalWhen # "any", ~LostReplies
             PROVE  Spec => DisturbedOnlyWhenCordoned
  OBVIOUS
<1>1. Init => Coherent /\ Careful
  BY CoherentInit, CarefulInit
<1>2. Coherent /\ Careful /\ [Next]_vars => Coherent' /\ Careful'
  BY NextStep, CarefulStep
<1>3. Coherent /\ Careful /\ [Next]_vars => [Disturbs /\ NeedsCordoning => cordoned]_vars
  BY CarefulStep DEF Considerate
<1> QED BY <1>1, <1>2, <1>3, PTL DEF Spec, DisturbedOnlyWhenCordoned

\* The restart reconciler terminates k0s only when the executable is the version
\* of the stored signal.
THEOREM RestartsIntoNewVersion ==
    SignalWhen # "any" /\ ~LostReplies => (Spec => RestartIntoNewVersion)
<1> SUFFICES ASSUME SignalWhen # "any", ~LostReplies
             PROVE  Spec => RestartIntoNewVersion
  OBVIOUS
<1>1. Init => Coherent /\ Careful
  BY CoherentInit, CarefulInit
<1>2. Coherent /\ Careful /\ [Next]_vars => Coherent' /\ Careful'
  BY NextStep, CarefulStep
<1>3. Coherent /\ Careful /\ [Next]_vars =>
        [proc = "up" /\ proc' = "stopping" => disk = signal.version]_vars
  BY CarefulStep DEF Considerate
<1> QED BY <1>1, <1>2, <1>3, PTL DEF Spec, RestartIntoNewVersion
=============================================================================
