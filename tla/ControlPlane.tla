----------------------------- MODULE ControlPlane -----------------------------
(***************************************************************************)
(* The processes a controller supervises apart from etcd, as the           *)
(* components under pkg/component/controller launch and watch them:         *)
(*                                                                         *)
(*   - apiserver.go computes the flags of kube-apiserver from five layers   *)
(*     (k0s itself, the storage, the user's extraArgs, the authentication   *)
(*     file, the defaults) and derives how long stopping may take;          *)
(*   - konnectivity.go restarts konnectivity-server whenever the number of  *)
(*     controllers changes, and retries a start that failed;                *)
(*   - kine.go asks kine whether it is ready by writing a key that expires  *)
(*     and reading it back.                                                 *)
(*                                                                         *)
(* Flags are abstracted to the ones a later layer looks at or overrides.    *)
(* Durations are in seconds.  What the supervisor does with a process is    *)
(* Supervisor's subject: here a process starts or fails to.                 *)
(***************************************************************************)
EXTENDS Integers, FiniteSetsExt, TLC

CONSTANTS ApiSetups,    \* configurations of kube-apiserver (see SetupType)
          ControllerCounts,  \* how many controllers there may be
          MaxCounts,    \* how often that number changes
          MaxHitches    \* failed starts, expired keys

SetupType ==
    [storage      : {"kine", "etcd", "external"},
     konnectivity : BOOLEAN,                \* EnableKonnectivity
     noEndpoints  : BOOLEAN,                \* DisableEndpointReconciler
     authFile     : {"none", "plain", "anonymous", "broken"},
     user         : SUBSET {"anonymous-auth", "endpoint-reconciler-type"},
     request      : Int, grace : Int,       \* extraArgs; -1 when not given
     stopTimeout  : Int]                    \* StopTimeout; 0 when not given

VARIABLES kpSetup,   \* the configuration of this controller
          kpApi,     \* kube-apiserver: its launch config, and whether it runs
          kpKine,    \* kine: the health check under way and its key
          kpKonn,    \* konnectivity: its loop and its server
          kpCount,   \* the published number of controllers, and changes left
          kpHitches  \* hitches left

kpVars == <<kpSetup, kpApi, kpKine, kpKonn, kpCount, kpHitches>>

(* ----- kube-apiserver -------------------------------------------------- *)

\* The flags that connect kube-apiserver to its storage backend.
AddEtcdArgs(s) ==
    CASE s.storage = "kine"     -> "etcd-servers" :> "socket"
      [] s.storage = "etcd"     -> ("etcd-servers" :> "local") @@ ("etcd-cafile" :> "own")
      [] s.storage = "external" -> ("etcd-servers" :> "user") @@ ("etcd-prefix" :> "user")

\* What k0s sets itself, before the user has a say.
NodeFlags(s) ==
    ("secure-port" :> "own")
      @@ ("api-audiences" :> IF s.konnectivity THEN "both" ELSE "cluster")
      @@ (IF s.konnectivity THEN "egress-selector-config-file" :> "own" ELSE <<>>)
      @@ AddEtcdArgs(s)

\* The user's extraArgs override whatever is there.
UserFlags(s) ==
    [f \in s.user |-> "user"]
      @@ (IF s.request # -1 THEN "request-timeout" :> s.request ELSE <<>>)
      @@ (IF s.grace # -1 THEN "shutdown-watch-termination-grace-period" :> s.grace ELSE <<>>)
      @@ (IF s.authFile # "none" THEN "authentication-config" :> s.authFile ELSE <<>>)

\* A file that cannot be read or parsed is reported, and taken not to have the
\* field.
AuthenticationConfigHasAnonymous(s) == s.authFile = "anonymous"

DefaultFlags ==
    ("allow-privileged" :> "default") @@ ("secure-port" :> "default")
      @@ ("anonymous-auth" :> "default")

\* How long kube-apiserver may take to stop: as configured, or guessed from the
\* timeouts it runs with and clamped to what init systems put up with.
StopTimeoutOf(s, flags) ==
    LET request == IF s.request # -1 THEN s.request ELSE 60
        grace == IF s.grace # -1 THEN s.grace ELSE 0
    IN IF s.stopTimeout > 0 THEN s.stopTimeout
       ELSE Max({5, Min({Max({request, grace}) + 2, 20})})

\* The launch config: the defaults fill what is still open, except that
\* anonymous-auth is left to an authentication file that has the field; the
\* endpoint reconciler is switched off whatever the user says; and watches are
\* drained for as long as stopping may take, less two seconds.
BuildConfig(s) ==
    LET given == UserFlags(s) @@ NodeFlags(s)
        defaults == [f \in DOMAIN DefaultFlags \
                       (IF AuthenticationConfigHasAnonymous(s) THEN {"anonymous-auth"} ELSE {})
                     |-> DefaultFlags[f]]
        endpoints == IF s.noEndpoints THEN "endpoint-reconciler-type" :> "none" ELSE <<>>
        flags == endpoints @@ given @@ defaults
        stop == StopTimeoutOf(s, flags)
        drain == IF s.grace = -1 /\ stop > 2
                 THEN "shutdown-watch-termination-grace-period" :> stop - 2
                 ELSE <<>>
    IN [flags |-> flags @@ drain, stopTimeout |-> stop]

\* APIServer.Init: the launch config, and the egress selector's file.
InitAPIServer ==
    /\ kpApi.at = "new"
    /\ kpApi' = [kpApi EXCEPT !.at = "initialized", !.config = BuildConfig(kpSetup),
                              !.egressFile = kpSetup.konnectivity]
    /\ UNCHANGED <<kpSetup, kpKine, kpKonn, kpCount, kpHitches>>

\* kube-apiserver refuses to start when the flag is set and the file has the
\* field as well (external: kube-apiserver).
Refuses(flags, s) == s.authFile = "anonymous" /\ "anonymous-auth" \in DOMAIN flags

\* APIServer.Start: the process starts, or exits over and over.
StartAPIServer ==
    /\ kpApi.at = "initialized"
    /\ kpApi' = [kpApi EXCEPT !.at = IF Refuses(kpApi.config.flags, kpSetup)
                                     THEN "respawning" ELSE "running"]
    /\ UNCHANGED <<kpSetup, kpKine, kpKonn, kpCount, kpHitches>>

\* APIServer.Ready: /readyz answered 200.
ReadyAPIServer ==
    /\ kpApi.at = "running"
    /\ kpApi' = [kpApi EXCEPT !.at = "ready"]
    /\ UNCHANGED <<kpSetup, kpKine, kpKonn, kpCount, kpHitches>>

(* ----- kine ------------------------------------------------------------ *)

\* Kine.Init and Kine.Start: a key of an earlier launch may still be there.
StartKine ==
    /\ kpSetup.storage = "kine" /\ kpKine.at = "new"
    /\ \E old \in BOOLEAN : kpKine' = [at |-> "started", key |-> old]
    /\ UNCHANGED <<kpSetup, kpApi, kpKonn, kpCount, kpHitches>>

\* Kine.Ready first writes the key, which only succeeds when there is none; that
\* it did not is only reported.
WriteHealthKey ==
    /\ kpKine.at = "started"
    /\ kpKine' = [at |-> "written", key |-> TRUE]
    /\ UNCHANGED <<kpSetup, kpApi, kpKonn, kpCount, kpHitches>>

\* Kine.Ready then reads it back, and takes the last of the values it got
\* without asking whether there is one.
ReadHealthKey ==
    /\ kpKine.at = "written"
    /\ kpKine' = [kpKine EXCEPT !.at = IF kpKine.key THEN "ready" ELSE "panicked"]
    /\ UNCHANGED <<kpSetup, kpApi, kpKonn, kpCount, kpHitches>>

\* The lease of the key ends after 64 seconds.
HealthKeyExpires ==
    /\ kpKine.key /\ kpHitches > 0
    /\ kpKine' = [kpKine EXCEPT !.key = FALSE]
    /\ kpHitches' = kpHitches - 1
    /\ UNCHANGED <<kpSetup, kpApi, kpKonn, kpCount>>

(* ----- konnectivity ---------------------------------------------------- *)

\* Konnectivity.runServer: the old server is stopped, the new one starts or not.
\* A supervisor that could not start its process is forgotten.
RunServer(count, ok) == IF ok THEN count ELSE -1

Hitch(ok) == IF ok THEN UNCHANGED kpHitches
             ELSE kpHitches > 0 /\ kpHitches' = kpHitches - 1

\* Konnectivity.Start: the first server takes the number as it is published; a
\* failure fails the component.
StartKonnectivity ==
    /\ kpSetup.konnectivity /\ kpKonn.at = "new"
    /\ \E ok \in BOOLEAN :
         /\ Hitch(ok)
         /\ kpKonn' = [at |-> IF ok THEN "loop" ELSE "failed", count |-> kpCount.now,
                       server |-> RunServer(kpCount.now, ok), changed |-> FALSE, retry |-> FALSE]
    /\ UNCHANGED <<kpSetup, kpApi, kpKine, kpCount>>

\* The loop has decided to run a server with the given count.
LoopRuns(count) ==
    \E ok \in BOOLEAN :
       /\ Hitch(ok)
       /\ kpKonn' = [kpKonn EXCEPT !.count = count, !.changed = FALSE,
                                   !.server = RunServer(count, ok), !.retry = ~ok]

\* A plausible mistake: looking at an unchanged count also calls off the retry.
LoopSeesCountHasty ==
    LET count == Max({1, kpCount.now})
    IN /\ kpKonn.at = "loop" /\ kpKonn.changed
       /\ IF count = kpKonn.count
          THEN /\ kpKonn' = [kpKonn EXCEPT !.changed = FALSE, !.retry = FALSE]
               /\ UNCHANGED kpHitches
          ELSE LoopRuns(count)
       /\ UNCHANGED <<kpSetup, kpApi, kpKine, kpCount>>

\* The loop sees that the number of controllers changed: never below one, and
\* only a different number restarts the server.  A pending retry stays pending
\* when the number turns out to be the same.
LoopSeesCount ==
    LET count == Max({1, kpCount.now})
    IN /\ kpKonn.at = "loop" /\ kpKonn.changed
       /\ IF count = kpKonn.count
          THEN kpKonn' = [kpKonn EXCEPT !.changed = FALSE] /\ UNCHANGED kpHitches
          ELSE LoopRuns(count)
       /\ UNCHANGED <<kpSetup, kpApi, kpKine, kpCount>>

\* Ten seconds after a failed start the loop tries again.
LoopRetriesServer ==
    /\ kpKonn.at = "loop" /\ kpKonn.retry
    /\ \E ok \in BOOLEAN :
         /\ Hitch(ok)
         /\ kpKonn' = [kpKonn EXCEPT !.server = RunServer(kpKonn.count, ok), !.retry = ~ok]
    /\ UNCHANGED <<kpSetup, kpApi, kpKine, kpCount>>

\* Konnectivity.Stop: the loop ends, then the server is stopped if there is one.
StopKonnectivity ==
    /\ kpKonn.at = "loop"
    /\ kpKonn' = [kpKonn EXCEPT !.at = "stopped", !.server = -1, !.retry = FALSE]
    /\ UNCHANGED <<kpSetup, kpApi, kpKine, kpCount, kpHitches>>

\* The lease counter publishes another number of controllers.
CountChanges ==
    /\ kpCount.left > 0
    /\ \E n \in ControllerCounts \ {kpCount.now} :
         kpCount' = [now |-> n, left |-> kpCount.left - 1]
    /\ kpKonn' = [kpKonn EXCEPT !.changed = (kpKonn.at = "loop")]
    /\ UNCHANGED <<kpSetup, kpApi, kpKine, kpHitches>>

KpInit ==
    /\ kpSetup \in ApiSetups
    /\ kpApi = [at |-> "new", config |-> <<>>, egressFile |-> FALSE]
    /\ kpKine = [at |-> "new", key |-> FALSE]
    /\ kpKonn = [at |-> "new", count |-> 0, server |-> -1, changed |-> FALSE, retry |-> FALSE]
    /\ kpCount = [now |-> 0, left |-> MaxCounts]
    /\ kpHitches = MaxHitches

KonnectivityLoop == LoopSeesCount \/ LoopRetriesServer

KpNext ==
    \/ InitAPIServer \/ StartAPIServer \/ ReadyAPIServer
    \/ StartKine \/ WriteHealthKey \/ ReadHealthKey \/ HealthKeyExpires
    \/ StartKonnectivity \/ KonnectivityLoop \/ StopKonnectivity \/ CountChanges

KpSpec == KpInit /\ [][KpNext]_kpVars /\ WF_kpVars(KonnectivityLoop)

\* The setups are of the configurations' type, numbers stay within their bounds.
KpTypeOK ==
    /\ kpSetup \in SetupType
    /\ kpApi.at \in {"new", "initialized", "running", "respawning", "ready"}
    /\ kpKine.at \in {"new", "started", "written", "ready", "panicked"}
    /\ kpKonn.server \in ControllerCounts \cup {-1, 1}
    /\ kpHitches \in 0 .. MaxHitches

(* ----- properties ------------------------------------------------------ *)

\* The layers of kube-apiserver's flags fit together: unless the user insists on
\* --anonymous-auth, kube-apiserver does not refuse to start over a file that has
\* the anonymous field; without such a file anonymous requests are the user's
\* choice and otherwise rejected; a user's flag is only ever overridden to switch
\* off the endpoint reconciler; and when k0s chooses how long watches are drained,
\* the supervisor's patience outlasts it by two seconds (APIServer.buildConfig).
FlagsFit ==
    kpApi.at # "new" =>
      LET flags == kpApi.config.flags
      IN /\ kpApi.at = "respawning" => "anonymous-auth" \in kpSetup.user
         /\ "anonymous-auth" \in DOMAIN flags \/ kpSetup.authFile = "anonymous"
         /\ \A f \in kpSetup.user :
              flags[f] = "user" \/ (f = "endpoint-reconciler-type" /\ kpSetup.noEndpoints)
         /\ kpSetup.grace = -1 /\ "shutdown-watch-termination-grace-period" \in DOMAIN flags
              => flags["shutdown-watch-termination-grace-period"] + 2 = kpApi.config.stopTimeout
         /\ kpSetup.stopTimeout <= 0 => kpApi.config.stopTimeout \in 5 .. 20

\* As long as konnectivity is not stopped, it ends up running a server that was
\* told the number of controllers published last, however the changes and the
\* failed starts interleave; zero counts as one (Konnectivity.Start).
KonnectivityCatchesUp ==
    <>[](kpKonn.at = "loop" => /\ kpKonn.server # -1
                               /\ Max({1, kpKonn.server}) = Max({1, kpCount.now}))
=============================================================================
