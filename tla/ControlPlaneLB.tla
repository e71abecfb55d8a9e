--------------------------- MODULE ControlPlaneLB ----------------------------
(***************************************************************************)
(* Control plane load balancing (pkg/component/controller/cplb): a watch   *)
(* on the API servers' endpoints keeps a health checker goroutine for each *)
(* address; the checkers announce what changes through a channel with room *)
(* for one notice, and a reader goroutine hands the healthy addresses to   *)
(* the user space proxy, or to keepalived for its virtual servers.         *)
(*                                                                         *)
(* External: netlink, iptables and keepalived, by what the code asks of    *)
(* them.                                                                   *)
(***************************************************************************)
EXTENDS Naturals, FiniteSets, FiniteSetsExt

CONSTANTS
    Addresses,    \* of the API servers
    VirtualIPs,   \* the configured addresses of the VRRP instances, with their prefix lengths
    LinkStates,   \* what the dummy link may be like at start: addresses, or {} when there is none
    MaxFlaps,     \* bound: how often endpoints and health change
    MaxHiccups    \* bound: failed template writes and a keepalived that does not come up

VARIABLES
    cpMode,       \* "proxy" or "ipvs" (virtual servers are configured)
    cpEndpoints,  \* the addresses in the endpoints
    cpUp,         \* the addresses that answer the health check
    cpMap,        \* healthCheckers: the addresses in the map
    cpHealthy,    \* the addresses whose checker has them healthy
    cpSending,    \* the addresses whose checker sends a notice: it holds its lock until it could
    cpOrphans,    \* the checkers out of the map that still want to send theirs
    cpNotices,    \* the notices in updateCh
    cpReader,     \* the reader: "off", "waiting", "reading" (it holds the reconciler's lock) or "ended"
    cpToRead,     \* GetIPs: the addresses it has still to look at ...
    cpGot,        \* ... and the healthy ones so far
    cpRoutes,     \* what the proxy, or keepalived, uses; "localhost" before the first update
    cpStale,      \* the virtual servers' file could not be written
    cpLink,       \* the addresses of the dummy link
    cpRedirects,  \* the iptables rules that redirect the virtual addresses to the proxy
    cpStop,       \* Stop: "no", "reconciler", "reader" or "stopped"
    cpFlaps,
    cpHiccups

cpVars == <<cpMode, cpEndpoints, cpUp, cpMap, cpHealthy, cpSending, cpOrphans, cpNotices, cpReader, cpToRead,
            cpGot, cpRoutes, cpStale, cpLink, cpRedirects, cpStop, cpFlaps, cpHiccups>>

cpCheckers == <<cpMap, cpHealthy, cpSending, cpOrphans, cpNotices>>
cpReading == <<cpReader, cpToRead, cpGot, cpRoutes, cpStale>>
cpHost == <<cpMode, cpLink, cpRedirects>>

Localhost == "localhost"

------------------------------------------------------------------------------
(* Start                                                                   *)

(* ensureLinkAddresses: what is on the link and was not asked for goes,    *)
(* what is missing is added, as a host address.                            *)
EnsureLinkAddresses(link) ==
    (link \cap VirtualIPs) \cup {[ip |-> v.ip, bits |-> 32] : v \in VirtualIPs \ link}

(* configureDummy makes the link for virtual servers; startReverseProxy    *)
(* listens and redirects to the proxy.                                     *)
StartKeepalived ==
    /\ cpReader = "off"
    /\ cpStop = "no"
    /\ \/ cpReader' = "waiting" /\ UNCHANGED cpHiccups
       \/ /\ cpMode = "ipvs"
          /\ cpHiccups < MaxHiccups
          /\ cpHiccups' = cpHiccups + 1
          /\ cpReader' = "ended"
    /\ cpLink' = IF cpMode = "ipvs" THEN EnsureLinkAddresses(cpLink) ELSE cpLink
    /\ cpRedirects' = IF cpMode = "proxy" THEN {v.ip : v \in VirtualIPs} ELSE cpRedirects
    /\ cpRoutes' = IF cpMode = "proxy" THEN {Localhost} ELSE {}
    /\ UNCHANGED <<cpMode, cpEndpoints, cpUp, cpCheckers, cpToRead, cpGot, cpStale, cpStop, cpFlaps>>

------------------------------------------------------------------------------
(* The reconciler                                                          *)

(* maybeUpdateIPs, under the reconciler's lock: new addresses get a        *)
(* checker, those that are gone lose theirs (it may be in the middle of a  *)
(* round, and then still sends its notice), and the reader is told unless  *)
(* it has a notice already.                                                *)
MaybeUpdateIPsQuietly ==
    /\ cpReader \notin {"off", "reading"}
    /\ cpStop = "no"
    /\ cpMap # cpEndpoints
    /\ cpMap' = cpEndpoints
    /\ cpHealthy' = cpHealthy \cap cpEndpoints
    /\ cpSending' = cpSending \cap cpEndpoints
    /\ cpOrphans' = cpOrphans + Cardinality(cpSending \ cpEndpoints)
    /\ UNCHANGED <<cpEndpoints, cpUp, cpNotices, cpReading, cpHost, cpStop, cpFlaps, cpHiccups>>

MaybeUpdateIPs ==
    /\ cpReader \notin {"off", "reading"}
    /\ cpStop = "no"
    /\ cpMap # cpEndpoints
    /\ cpMap' = cpEndpoints
    /\ cpHealthy' = cpHealthy \cap cpEndpoints
    /\ cpSending' = cpSending \cap cpEndpoints
    /\ cpOrphans' = cpOrphans + Cardinality(cpSending \ cpEndpoints)
    /\ cpNotices' = IF cpMap \subseteq cpEndpoints THEN cpNotices ELSE 1
    /\ UNCHANGED <<cpEndpoints, cpUp, cpReading, cpHost, cpStop, cpFlaps, cpHiccups>>

(* runHealthCheck: a round of the check.  With its own lock held the       *)
(* checker notes the change, sends the notice and only then unlocks.       *)
RunHealthCheck(a) ==
    /\ a \in cpMap \ cpSending
    /\ cpStop = "no"
    /\ (a \in cpUp) # (a \in cpHealthy)
    /\ cpHealthy' = IF a \in cpUp THEN cpHealthy \cup {a} ELSE cpHealthy \ {a}
    /\ IF cpNotices = 0
         THEN cpNotices' = 1 /\ UNCHANGED cpSending
         ELSE cpSending' = cpSending \cup {a} /\ UNCHANGED cpNotices
    /\ UNCHANGED <<cpEndpoints, cpUp, cpMap, cpOrphans, cpReading, cpHost, cpStop, cpFlaps, cpHiccups>>

(* A pending notice finds room in the channel.                             *)
SendNotice ==
    /\ cpNotices = 0
    /\ cpStop # "stopped"
    /\ \/ \E a \in cpSending : cpSending' = cpSending \ {a} /\ UNCHANGED cpOrphans
       \/ cpOrphans > 0 /\ cpOrphans' = cpOrphans - 1 /\ UNCHANGED cpSending
    /\ cpNotices' = 1
    /\ UNCHANGED <<cpEndpoints, cpUp, cpMap, cpHealthy, cpReading, cpHost, cpStop, cpFlaps, cpHiccups>>

------------------------------------------------------------------------------
(* The reader                                                              *)

(* watchReconcilerUpdates... takes a notice and calls GetIPs, which locks  *)
(* the reconciler ...                                                      *)
ReaderTakes ==
    /\ cpReader = "waiting"
    /\ cpNotices = 1
    /\ cpNotices' = 0
    /\ cpReader' = "reading"
    /\ cpToRead' = cpMap
    /\ cpGot' = {}
    /\ UNCHANGED <<cpEndpoints, cpUp, cpMap, cpHealthy, cpSending, cpOrphans, cpRoutes, cpStale, cpHost, cpStop,
                   cpFlaps, cpHiccups>>

(* ... and each checker in turn.                                           *)
ReaderReads(a) ==
    /\ cpReader = "reading"
    /\ a \in cpToRead \ cpSending
    /\ cpToRead' = cpToRead \ {a}
    /\ cpGot' = IF a \in cpHealthy THEN cpGot \cup {a} ELSE cpGot
    /\ UNCHANGED <<cpEndpoints, cpUp, cpCheckers, cpReader, cpRoutes, cpStale, cpHost, cpStop, cpFlaps, cpHiccups>>

(* With no healthy address every known one is returned.  setProxyRoutes    *)
(* keeps its routes when there is none; keepalived gets a new file and a   *)
(* signal, unless the file could not be written.                           *)
ReaderSets ==
    /\ cpReader = "reading"
    /\ cpToRead = {}
    /\ cpReader' = "waiting"
    /\ LET ips == IF cpGot = {} THEN cpMap ELSE cpGot
       IN \/ /\ cpRoutes' = IF cpMode = "proxy" /\ ips = {} THEN cpRoutes ELSE ips
             /\ cpStale' = FALSE
             /\ UNCHANGED cpHiccups
          \/ /\ cpMode = "ipvs"
             /\ cpHiccups < MaxHiccups
             /\ cpHiccups' = cpHiccups + 1
             /\ cpStale' = TRUE
             /\ UNCHANGED cpRoutes
    /\ UNCHANGED <<cpEndpoints, cpUp, cpCheckers, cpToRead, cpGot, cpHost, cpStop, cpFlaps>>

------------------------------------------------------------------------------
(* Stop: cancels the watch and the checkers and waits for them (one that   *)
(* is sending has to get rid of its notice; the watch may have to wait for *)
(* the reconciler's lock) ...                                              *)

StopKeepalived ==
    /\ cpStop = "no"
    /\ cpReader # "off"
    /\ cpStop' = "reconciler"
    /\ UNCHANGED <<cpEndpoints, cpUp, cpCheckers, cpReading, cpHost, cpFlaps, cpHiccups>>

(* ... closes the channel, which ends the reader's loop once it has taken  *)
(* the last notice ...                                                     *)
ReconcilerEnds ==
    /\ cpStop = "reconciler"
    /\ cpSending = {}
    /\ cpOrphans = 0
    /\ cpStop' = "reader"
    /\ cpHealthy' = {}
    /\ UNCHANGED <<cpEndpoints, cpUp, cpMap, cpSending, cpOrphans, cpNotices, cpReading, cpHost, cpFlaps, cpHiccups>>

ReaderEnds ==
    /\ cpStop = "reader"
    /\ cpReader = "waiting"
    /\ cpNotices = 0
    /\ cpReader' = "ended"
    /\ UNCHANGED <<cpEndpoints, cpUp, cpCheckers, cpToRead, cpGot, cpRoutes, cpStale, cpHost, cpStop, cpFlaps, cpHiccups>>

(* ... and, with keepalived stopped, takes the link or the rules away.     *)
CleanUpVIPs ==
    /\ cpStop = "reader"
    /\ cpReader = "ended"
    /\ cpStop' = "stopped"
    /\ cpLink' = IF cpMode = "ipvs" THEN {} ELSE cpLink
    /\ cpRedirects' = {}
    /\ UNCHANGED <<cpMode, cpEndpoints, cpUp, cpCheckers, cpReading, cpFlaps, cpHiccups>>

------------------------------------------------------------------------------
(* The API servers come, go, and answer or not.                            *)

EndpointsChange(a) ==
    /\ cpFlaps < MaxFlaps
    /\ cpFlaps' = cpFlaps + 1
    /\ cpEndpoints' = IF a \in cpEndpoints THEN cpEndpoints \ {a} ELSE cpEndpoints \cup {a}
    /\ UNCHANGED <<cpUp, cpCheckers, cpReading, cpHost, cpStop, cpHiccups>>

HealthChanges(a) ==
    /\ cpFlaps < MaxFlaps
    /\ cpFlaps' = cpFlaps + 1
    /\ cpUp' = IF a \in cpUp THEN cpUp \ {a} ELSE cpUp \cup {a}
    /\ UNCHANGED <<cpEndpoints, cpCheckers, cpReading, cpHost, cpStop, cpHiccups>>

CpInit ==
    /\ cpMode \in {"proxy", "ipvs"}
    /\ cpEndpoints = Addresses
    /\ cpUp = Addresses
    /\ cpMap = {}
    /\ cpHealthy = {}
    /\ cpSending = {}
    /\ cpOrphans = 0
    /\ cpNotices = 0
    /\ cpReader = "off"
    /\ cpToRead = {}
    /\ cpGot = {}
    /\ cpRoutes = {}
    /\ cpStale = FALSE
    /\ cpLink \in LinkStates
    /\ cpRedirects = {}
    /\ cpStop = "no"
    /\ cpFlaps = 0
    /\ cpHiccups = 0

CpReconciler == MaybeUpdateIPs \/ SendNotice \/ (\E a \in Addresses : RunHealthCheck(a))
CpReader == ReaderTakes \/ ReaderSets \/ ReaderEnds \/ (\E a \in Addresses : ReaderReads(a))
CpStop == ReconcilerEnds \/ CleanUpVIPs

CpNext ==
    \/ StartKeepalived \/ CpReconciler \/ CpReader \/ StopKeepalived \/ CpStop
    \/ \E a \in Addresses : EndpointsChange(a) \/ HealthChanges(a)

CpSpec == CpInit /\ [][CpNext]_cpVars /\ WF_cpVars(CpReconciler) /\ WF_cpVars(CpReader) /\ WF_cpVars(CpStop)

------------------------------------------------------------------------------
CpTypeOK ==
    /\ cpMap \subseteq Addresses /\ cpHealthy \subseteq Addresses /\ cpSending \subseteq cpMap
    /\ cpNotices \in 0..1
    /\ cpReader \in {"off", "waiting", "reading", "ended"}
    /\ cpStop \in {"no", "reconciler", "reader", "stopped"}

NothingUnderWay == cpReader = "waiting" /\ cpStop = "no" /\ cpNotices = 0 /\ cpSending = {} /\ cpOrphans = 0

(* No notice is lost: once nothing is under way, the proxy (or keepalived) *)
(* uses just the addresses that the checkers have healthy, if there is     *)
(* one, although the channel holds a single notice, notices are dropped    *)
(* when it is full and GetIPs does not read all checkers at one time.      *)
RoutesAreFresh == (NothingUnderWay /\ ~cpStale /\ cpHealthy # {}) => cpRoutes = cpHealthy

(* The comment on Stop: it "stops keepalived and cleans up the virtual IPs *)
(* [...] so that if the k0s controller is stopped, it can still reach the  *)
(* other APIservers on the VIP": what is stopped gets that far.            *)
StopCleansUp == cpStop = "reconciler" ~> (cpStop = "stopped" /\ cpRedirects = {})

==============================================================================
