----------------------------- MODULE AutoUpdates -----------------------------
(***************************************************************************)
(* Automatic updates (pkg/autopilot/controller/updates): on every          *)
(* controller, leading or not, a reconciler keeps an updater for the       *)
(* UpdateConfig, and the updater asks the update server from time to time  *)
(* whether there is a newer release, and creates or replaces the plan      *)
(* named "autopilot" if there is none or if it is completed.  Of what      *)
(* becomes of the plan (PlanScheduler has all of it) this module keeps     *)
(* that the controllers are signalled one after the other, that a signal   *)
(* belongs to the plan by the plan's ID, and that the plan may end badly.  *)
(***************************************************************************)
EXTENDS Naturals, FiniteSets, FiniteSetsExt

CONSTANTS Hosts,        \* the controllers
          Specs,        \* what a config may ask for: strategy, window, commands
          MaxUpdaters,  \* updaters of a process that are there at a time
          MaxReleases,  \* releases of the channel
          Setups        \* clusters: hosts that take part, whether the config is an old one,
                        \* and bounds: edits of it, misses (failed calls and plans, and
                        \* checks outside of the window)

ASSUME AutoUpdatesAssumption ==
  /\ MaxUpdaters \in Nat /\ MaxReleases \in Nat
  /\ \A setup \in Setups : setup.hosts \subseteq Hosts /\ setup.edits \in Nat /\ setup.misses \in Nat
  /\ \A spec \in Specs : spec.strategy \in {"cron", "periodic"}

VARIABLES auSetup,     \* one of the Setups, fixed
          auConfig,    \* the UpdateConfig: there, deleting, rv, finalizer, spec
          auQueue,     \* the hosts that have the config in their queue
          auRec,       \* their reconcilers: idle, or about to update version rv
          auUpdaters,  \* the updaters a host has created
          auCurrent,   \* the one in its map
          auPlan,      \* the plan: version and commands; status, and its targets:
                       \* sent and lost (signalled under this or an earlier ID), done
          auSignal,    \* the version a host has been told to update to, or 0
          auRelease,   \* the latest release of the channel
          auVersion,   \* the version a host runs
          auEdits, auMisses

auVars == <<auSetup, auConfig, auQueue, auRec, auUpdaters, auCurrent, auPlan, auSignal, auRelease,
            auVersion, auEdits, auMisses>>
auPlans == <<auPlan, auSignal>>

Unused == [state |-> "none", at |-> "wait", rv |-> 0, kind |-> "cron", found |-> 0]
Slots == 1..MaxUpdaters
NoSlot == 0
HoursOfDay == 0..3
DaysOfWeek == 0..1

AuMiss == auMisses < auSetup.misses /\ auMisses' = auMisses + 1
AuFine == UNCHANGED auMisses

(***************************************************************************)
(* The window is open: it is one of its days (all, if none is given), and  *)
(* the time is after the start and before the end counted from this day's  *)
(* start, so that a window does not extend into the next day.              *)
(***************************************************************************)
IsWithinPeriod(window, day, hour) ==
  /\ window.days = {} \/ day \in window.days
  /\ window.start < hour /\ hour < window.start + window.length

(* The plan for a release: a default command if the config has none for updates. *)
ToPlan(spec, version) ==
  [version |-> version,
   commands |-> IF spec.commands = {} THEN {"k0supdate"} ELSE spec.commands]

(***************************************************************************)
(* Stop: the cron updater's context ends with it.  The periodic one only   *)
(* stops its ticker, if its goroutine has made it already; a check that is *)
(* running goes on.                                                        *)
(***************************************************************************)
StopUpdater(updater) ==
  CASE updater.kind = "cron" -> Unused
    [] updater.state = "starting" -> updater
    [] updater.at = "wait" -> Unused
    [] OTHER -> [updater EXCEPT !.state = "stopped"]

StopCurrent(h) ==
  IF auCurrent[h] = NoSlot THEN auUpdaters[h]
  ELSE [auUpdaters[h] EXCEPT ![auCurrent[h]] = StopUpdater(@)]

(* The config is being deleted: the updater of the map is stopped. *)
ReconcileDeletion(h) ==
  /\ h \in auQueue /\ auRec[h].at = "idle"
  /\ auConfig.there /\ auConfig.deleting
  /\ auQueue' = auQueue \ {h}
  /\ auUpdaters' = [auUpdaters EXCEPT ![h] = StopCurrent(h)]
  /\ auCurrent' = [auCurrent EXCEPT ![h] = NoSlot]
  /\ auRec' = [auRec EXCEPT ![h] = [at |-> "unfinalize", rv |-> auConfig.rv]]
  /\ UNCHANGED <<auSetup, auConfig, auPlans, auRelease, auVersion, auEdits, auMisses>>

(***************************************************************************)
(* The config is there: an updater made for another version of it is       *)
(* stopped; a new one is made in any case, and takes its place in the map. *)
(***************************************************************************)
ReconcileConfig(h) ==
  /\ h \in auQueue /\ auRec[h].at = "idle"
  /\ auConfig.there /\ ~auConfig.deleting
  /\ LET outdated == auCurrent[h] # NoSlot
                       /\ auUpdaters[h][auCurrent[h]].rv # auConfig.rv
         left == IF outdated THEN StopCurrent(h) ELSE auUpdaters[h]
         kind == auConfig.spec.strategy
         made == [Unused EXCEPT !.kind = kind, !.rv = auConfig.rv,
                   !.state = IF kind = "cron" THEN "ticking" ELSE "starting"]
         free == {s \in Slots : left[s] = Unused}
     IN  \/ /\ free # {}
            /\ auUpdaters' = [auUpdaters EXCEPT ![h] = [left EXCEPT ![Min(free)] = made]]
            /\ auCurrent' = [auCurrent EXCEPT ![h] = Min(free)]
            /\ auRec' = [auRec EXCEPT ![h] = [at |-> "finalize", rv |-> auConfig.rv]]
            /\ auQueue' = auQueue \ {h}
            /\ AuFine
         \/ /\ AuMiss
            /\ auUpdaters' = [auUpdaters EXCEPT ![h] = left]
            /\ auCurrent' = [auCurrent EXCEPT ![h] = IF outdated THEN NoSlot ELSE @]
            /\ UNCHANGED <<auRec, auQueue>>
  /\ UNCHANGED <<auSetup, auConfig, auPlans, auRelease, auVersion, auEdits>>

(* The update that adds the finalizer; it changes nothing if it is there already. *)
AddFinalizer(h) ==
  /\ auRec[h].at = "finalize"
  /\ auRec' = [auRec EXCEPT ![h] = [at |-> "idle", rv |-> 0]]
  /\ CASE ~auConfig.there \/ auRec[h].rv # auConfig.rv ->
            auQueue' = auQueue \cup {h} /\ UNCHANGED auConfig
       [] auConfig.finalizer -> UNCHANGED <<auQueue, auConfig>>
       [] OTHER -> /\ auConfig' = [auConfig EXCEPT !.finalizer = TRUE, !.rv = @ + 1]
                   /\ auQueue' = auSetup.hosts
  /\ UNCHANGED <<auSetup, auUpdaters, auCurrent, auPlans, auRelease, auVersion, auEdits, auMisses>>

(* The update that removes the finalizer lets the config go. *)
RemoveFinalizer(h) ==
  /\ auRec[h].at = "unfinalize"
  /\ auRec' = [auRec EXCEPT ![h] = [at |-> "idle", rv |-> 0]]
  /\ IF ~auConfig.there \/ auRec[h].rv # auConfig.rv
     THEN auQueue' = auQueue \cup {h} /\ UNCHANGED auConfig
     ELSE auConfig' = [auConfig EXCEPT !.there = FALSE] /\ auQueue' = auSetup.hosts
  /\ UNCHANGED <<auSetup, auUpdaters, auCurrent, auPlans, auRelease, auVersion, auEdits, auMisses>>

SetUpdater(h, s, updater) == auUpdaters' = [auUpdaters EXCEPT ![h][s] = updater]
CheckEnds(updater) ==
  IF updater.state = "stopped" THEN Unused ELSE [updater EXCEPT !.at = "wait", !.found = 0]

(* The goroutine of the periodic updater makes its ticker. *)
TickerStarts(h, s) ==
  /\ auUpdaters[h][s].state = "starting"
  /\ SetUpdater(h, s, [auUpdaters[h][s] EXCEPT !.state = "ticking"])
  /\ UNCHANGED <<auSetup, auConfig, auQueue, auRec, auCurrent, auPlans, auRelease, auVersion,
                 auEdits, auMisses>>

(***************************************************************************)
(* The periodic updater asks for the latest version, compares it with its  *)
(* own and looks at the clock.  Looks without a result leave no trace; the *)
(* failed ones and those at the wrong time are counted.                    *)
(***************************************************************************)
CheckForUpdate(h, s) ==
  LET updater == auUpdaters[h][s]
  IN  /\ updater.kind = "periodic" /\ updater.state = "ticking" /\ updater.at = "wait"
      /\ auRelease > auVersion[h]
      /\ \E day \in DaysOfWeek, hour \in HoursOfDay :
           IF IsWithinPeriod(auConfig.spec.window, day, hour)
           THEN /\ SetUpdater(h, s, [updater EXCEPT !.at = "plan", !.found = auRelease])
                /\ AuFine
           ELSE AuMiss /\ UNCHANGED auUpdaters
      /\ UNCHANGED <<auSetup, auConfig, auQueue, auRec, auCurrent, auPlans, auRelease, auVersion,
                     auEdits>>

(***************************************************************************)
(* The cron updater tells the server its version and gets the release to   *)
(* update to (external: the server only offers newer ones).                *)
(***************************************************************************)
CheckUpdates(h, s) ==
  LET updater == auUpdaters[h][s]
  IN  /\ updater.kind = "cron" /\ updater.state = "ticking" /\ updater.at = "wait"
      /\ auRelease > auVersion[h]
      /\ \/ SetUpdater(h, s, [updater EXCEPT !.at = "plan", !.found = auRelease]) /\ AuFine
         \/ AuMiss /\ UNCHANGED auUpdaters
      /\ UNCHANGED <<auSetup, auConfig, auQueue, auRec, auCurrent, auPlans, auRelease, auVersion,
                     auEdits>>

(* As NeedToUpdate, but as its comment has it: only if there is no plan. *)
NeedToUpdateOnce(plan) == plan.status = "none"

(* A plan is only made if there is none, or if it is completed. *)
NeedToUpdate(plan) == plan.status \in {"none", "Completed"}

(* The updater looks for a plan that is in progress. *)
LookForPlan(h, s) ==
  LET updater == auUpdaters[h][s]
  IN  /\ updater.at = "plan"
      /\ SetUpdater(h, s, IF NeedToUpdate(auPlan) THEN [updater EXCEPT !.at = "patch"]
                          ELSE CheckEnds(updater))
      /\ UNCHANGED <<auSetup, auConfig, auQueue, auRec, auCurrent, auPlans, auRelease, auVersion,
                     auEdits, auMisses>>

(***************************************************************************)
(* The apply patch: it creates the plan, or replaces its spec and leaves   *)
(* its status, a subresource, as it is.  The ID is the time in seconds, so *)
(* that it is a new one unless two updaters are that close.                *)
(***************************************************************************)
PatchPlan(h, s) ==
  LET updater == auUpdaters[h][s]
      plan == ToPlan(auConfig.spec, updater.found)
      status == IF auPlan.status = "none" THEN "" ELSE auPlan.status
      patched == [auPlan EXCEPT !.version = plan.version, !.commands = plan.commands,
                                !.status = status]
  IN  /\ updater.at = "patch"
      /\ SetUpdater(h, s, CheckEnds(updater))
      /\ \/ /\ auPlan' \in {patched, [patched EXCEPT !.lost = @ \cup patched.sent, !.sent = {}]}
            /\ AuFine
         \/ AuMiss /\ UNCHANGED auPlan
      /\ UNCHANGED <<auSetup, auConfig, auQueue, auRec, auCurrent, auSignal, auRelease, auVersion,
                     auEdits>>

auOthers == <<auSetup, auConfig, auQueue, auRec, auUpdaters, auCurrent, auRelease, auVersion, auEdits>>

(* newplan takes up plans that are created without a status.  It may find  *)
(* that they cannot be carried out.                                        *)
PlanStarts ==
  /\ auPlan.status = ""
  /\ \/ auPlan' = [auPlan EXCEPT !.status = "Schedulable"] /\ AuFine
     \/ auPlan' = [auPlan EXCEPT !.status = "Failed"] /\ AuMiss
  /\ UNCHANGED <<auOthers, auSignal>>

(* Controllers are signalled one at a time, with the ID of the plan. *)
PlanSignals(h) ==
  /\ auPlan.status = "Schedulable" /\ h \in auSetup.hosts \ auPlan.done
  /\ auPlan.sent \cup auPlan.lost = {}
  /\ auPlan' = [auPlan EXCEPT !.sent = {h}]
  /\ auSignal' = [auSignal EXCEPT ![h] = auPlan.version]
  /\ UNCHANGED <<auOthers, auMisses>>

(* A signalled host is updated: k0s is restarted, with a new manager. *)
HostUpdates(h) ==
  /\ auSignal[h] # 0
  /\ auSignal' = [auSignal EXCEPT ![h] = 0]
  /\ auVersion' = [auVersion EXCEPT ![h] = auSignal[h]]
  /\ auUpdaters' = [auUpdaters EXCEPT ![h] = [s \in Slots |-> Unused]]
  /\ auCurrent' = [auCurrent EXCEPT ![h] = NoSlot]
  /\ auRec' = [auRec EXCEPT ![h] = [at |-> "idle", rv |-> 0]]
  /\ auQueue' = IF auConfig.there THEN auQueue \cup {h} ELSE auQueue \ {h}
  /\ UNCHANGED <<auSetup, auConfig, auPlan, auRelease, auEdits, auMisses>>

(* The plan looks at the signals with its ID: one has ended, well or badly. *)
PlanNotices(h) ==
  /\ auPlan.status = "Schedulable" /\ h \in auPlan.sent
  /\ \/ /\ auSignal[h] = 0
        /\ auPlan' = [auPlan EXCEPT !.sent = @ \ {h}, !.done = @ \cup {h}]
        /\ AuFine
     \/ auPlan' = [auPlan EXCEPT !.status = "Failed"] /\ AuMiss
  /\ UNCHANGED <<auOthers, auSignal>>

PlanCompletes ==
  /\ auPlan.status = "Schedulable" /\ auPlan.done = auSetup.hosts
  /\ auPlan' = [auPlan EXCEPT !.status = "Completed"]
  /\ UNCHANGED <<auOthers, auSignal, auMisses>>

(* External: the channel gets a release. *)
ReleaseAppears ==
  /\ auRelease < MaxReleases
  /\ auRelease' = auRelease + 1
  /\ UNCHANGED <<auSetup, auConfig, auQueue, auRec, auUpdaters, auCurrent, auPlans, auVersion,
                 auEdits, auMisses>>

(* External: the user changes the config, or deletes it. *)
EditConfig ==
  /\ auConfig.there /\ ~auConfig.deleting /\ auEdits < auSetup.edits
  /\ auEdits' = auEdits + 1
  /\ \/ auConfig' = [auConfig EXCEPT !.rv = @ + 1]
     \/ auConfig' = [auConfig EXCEPT !.rv = @ + 1, !.deleting = TRUE,
                                     !.there = auConfig.finalizer]
  /\ auQueue' = auSetup.hosts
  /\ UNCHANGED <<auSetup, auRec, auUpdaters, auCurrent, auPlans, auRelease, auVersion, auMisses>>

AuInit ==
  /\ auSetup \in Setups
  /\ auConfig \in [there : {TRUE}, deleting : {FALSE}, rv : {1}, finalizer : {auSetup.finalizer},
                   spec : Specs]
  /\ auQueue = auSetup.hosts
  /\ auRec = [h \in Hosts |-> [at |-> "idle", rv |-> 0]]
  /\ auUpdaters = [h \in Hosts |-> [s \in Slots |-> Unused]]
  /\ auCurrent = [h \in Hosts |-> NoSlot]
  /\ auPlan = [version |-> 0, commands |-> {}, status |-> "none", sent |-> {}, lost |-> {},
               done |-> {}]
  /\ auSignal = [h \in Hosts |-> 0]
  /\ auRelease = 0 /\ auVersion = [h \in Hosts |-> 0]
  /\ auEdits = 0 /\ auMisses = 0

\* Every variable has its type.
AuTypeOK ==
  /\ auSetup \in Setups
  /\ auConfig \in [there : BOOLEAN, deleting : BOOLEAN, rv : 1..(auSetup.edits + 2),
                   finalizer : BOOLEAN, spec : Specs]
  /\ auQueue \subseteq Hosts
  /\ auRec \in [Hosts -> [at : {"idle", "finalize", "unfinalize"}, rv : 0..(auSetup.edits + 2)]]
  /\ auUpdaters \in [Hosts -> [Slots -> [state : {"none", "starting", "ticking", "stopped"},
                                       at : {"wait", "plan", "patch"}, rv : 0..(auSetup.edits + 2),
                                       kind : {"cron", "periodic"}, found : 0..MaxReleases]]]
  /\ auCurrent \in [Hosts -> Slots \cup {NoSlot}]
  /\ auPlan \in [version : 0..MaxReleases, commands : SUBSET {"k0supdate", "airgapupdate"},
                 status : {"none", "", "Schedulable", "Completed", "Failed"},
                 sent : SUBSET Hosts, lost : SUBSET Hosts, done : SUBSET Hosts]
  /\ auSignal \in [Hosts -> 0..MaxReleases]
  /\ auRelease \in 0..MaxReleases /\ auVersion \in [Hosts -> 0..MaxReleases]
  /\ auEdits \in 0..auSetup.edits /\ auMisses \in 0..auSetup.misses

AuReconcile(h) ==
  ReconcileDeletion(h) \/ ReconcileConfig(h) \/ AddFinalizer(h) \/ RemoveFinalizer(h)

AuUpdater(h, s) ==
  \/ TickerStarts(h, s) \/ CheckForUpdate(h, s) \/ CheckUpdates(h, s)
  \/ LookForPlan(h, s) \/ PatchPlan(h, s)

AuPlanRuns ==
  PlanStarts \/ PlanCompletes
    \/ \E h \in Hosts : PlanSignals(h) \/ HostUpdates(h) \/ PlanNotices(h)

AuNext ==
  \/ \E h \in Hosts : AuReconcile(h) \/ \E s \in Slots : AuUpdater(h, s)
  \/ AuPlanRuns \/ ReleaseAppears \/ EditConfig

(* Reconcilers and tickers go on; the windows are long enough to be met. *)
AuFairness ==
  /\ WF_auVars(AuPlanRuns)
  /\ \A h \in Hosts : /\ WF_auVars(AuReconcile(h))
                      /\ \A s \in Slots : WF_auVars(AuUpdater(h, s))

AuSpec == AuInit /\ [][AuNext]_auVars /\ AuFairness

(***************************************************************************)
(* As long as the config stays and hosts run something older, the plan     *)
(* ends up asking for the latest release, with commands to carry it out:   *)
(* edits that restart updaters, failed calls, checks at the wrong time,    *)
(* updates from earlier releases and updaters of several hosts that        *)
(* overtake each other delay this, but do not prevent it.  It is prevented *)
(* when a plan ends badly, and when a plan that has signalled a host is    *)
(* replaced: updaters only replace completed plans, on purpose.            *)
(***************************************************************************)
LatestReleaseIsPlanned ==
  <>[](( /\ auConfig.there /\ ~auConfig.deleting
         /\ \E h \in auSetup.hosts : auVersion[h] < auRelease
         /\ auPlan.status # "Failed" /\ auPlan.lost = {} )
       => auPlan.version = auRelease /\ auPlan.commands # {})

(***************************************************************************)
(* Without the exception of plans that ended badly.  Does not hold: no     *)
(* updater replaces them.                                                  *)
(***************************************************************************)
FailedPlansAreReplaced ==
  <>[](( /\ auConfig.there /\ ~auConfig.deleting
         /\ \E h \in auSetup.hosts : auVersion[h] < auRelease /\ auPlan.lost = {} )
       => auPlan.version = auRelease)

(***************************************************************************)
(* A plan that has begun is not replaced.  Does not hold: an updater looks *)
(* at the plan before it applies its own, and that of another host may     *)
(* have created one in between.  The signals that were sent then belong to *)
(* no plan, and the plan waits for them for ever.                          *)
(***************************************************************************)
BegunPlansStay ==
  [][auPlan.status = "Schedulable" => auPlan'.version = auPlan.version /\ auPlan'.lost = {}]_auVars

(***************************************************************************)
(* Automatic updates: as long as the config stays, all hosts end up        *)
(* running the latest release.                                             *)
(***************************************************************************)
LatestReleaseIsInstalled ==
  <>[](auConfig.there /\ ~auConfig.deleting =>
         \A h \in auSetup.hosts : auVersion[h] = auRelease)

(***************************************************************************)
(* Once the config is gone and nobody is reconciling, no updater is left   *)
(* that would create a plan.                                               *)
(***************************************************************************)
DeletionStopsUpdaters ==
  <>[](~auConfig.there =>
         \A h \in Hosts, s \in Slots : auUpdaters[h][s].state # "ticking")
=============================================================================
