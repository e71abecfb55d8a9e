------------------------------- MODULE TcpProxy -------------------------------
(***************************************************************************)
(* The user space load balancer of control plane load balancing            *)
(* (pkg/component/controller/cplb/tcpproxy/tcpproxy.go): each connection   *)
(* gets a goroutine, which picks a route, dials, and has two goroutines    *)
(* copy what the two ends send.                                            *)
(*                                                                         *)
(* External: the two ends of a connection and TCP between them; what is    *)
(* sent is counted, not told apart.                                        *)
(***************************************************************************)
EXTENDS Naturals, FiniteSets

CONSTANTS
    Conns,      \* connections
    Backends,   \* addresses of API servers
    MaxSent,    \* bound, per connection: what each of its ends sends
    MaxResets   \* bound: failed dials, ends that go away, changed routes

Directions == {"up", "down"}   \* from the client to the API server and back
Opposite == [up |-> "down", down |-> "up"]

VARIABLES
    tpListening,  \* the listener is open
    tpRoutes,     \* how many routes there are: the backends are numbered
    tpNumber,     \* connNumber
    tpConn,       \* per connection: where it is, and the number of its route
    tpSent,       \* what the sender of a direction has sent ...
    tpGot,        \* ... and its receiver has got
    tpFin,        \* the directions whose sender has finished sending
    tpEof,        \* the directions whose receiver has been told so
    tpGone,       \* the directions whose receiver has gone away
    tpCopying,    \* the directions that are being copied
    tpResets

tpVars == <<tpListening, tpRoutes, tpNumber, tpConn, tpSent, tpGot, tpFin, tpEof, tpGone, tpCopying, tpResets>>
tpEnds == <<tpSent, tpFin, tpGone>>
tpProxy == <<tpListening, tpRoutes, tpNumber>>

Reset == tpResets < MaxResets /\ tpResets' = tpResets + 1

-------------------------------------------------------------------------------
(* SetRoutes: never to none.                                               *)
SetRoutes(n) ==
    /\ n > 0 /\ n # tpRoutes
    /\ Reset
    /\ tpRoutes' = n
    /\ UNCHANGED <<tpListening, tpNumber, tpConn, tpEnds, tpGot, tpEof, tpCopying>>

(* Accept: a goroutine for the connection.                                 *)
AcceptConn(c) ==
    /\ tpListening
    /\ tpConn[c].at = "none"
    /\ tpConn' = [tpConn EXCEPT ![c].at = "accepted"]
    /\ UNCHANGED <<tpProxy, tpEnds, tpGot, tpEof, tpCopying, tpResets>>

(* serveConn: the next route in turn.  The counter is incremented under a  *)
(* read lock, so that of several goroutines some may increment in vain.    *)
PickRoute(c) ==
    /\ tpConn[c].at = "accepted"
    /\ tpNumber' \in {tpNumber + 1} \cup
         {n \in {tpNumber} : \E d \in Conns \ {c} : tpConn[d].at \in {"accepted", "dialing"}}
    /\ tpConn' = [tpConn EXCEPT ![c] = [at |-> "dialing", route |-> tpNumber' % tpRoutes]]
    /\ UNCHANGED <<tpListening, tpRoutes, tpEnds, tpGot, tpEof, tpCopying, tpResets>>

(* HandleConn: the API server is dialed; when that fails, or takes too     *)
(* long, the client's connection is closed.                                *)
DialRoute(c) ==
    /\ tpConn[c].at = "dialing"
    /\ \/ /\ tpConn' = [tpConn EXCEPT ![c].at = "copying"]
          /\ tpCopying' = [tpCopying EXCEPT ![c] = Directions]
          /\ UNCHANGED tpResets
       \/ /\ Reset
          /\ tpConn' = [tpConn EXCEPT ![c].at = "refused"]
          /\ UNCHANGED tpCopying
    /\ UNCHANGED <<tpProxy, tpEnds, tpGot, tpEof>>

(* proxyCopy takes over what has been sent ...                             *)
CopyData(c, d) ==
    /\ d \in tpCopying[c]
    /\ d \notin tpGone[c]
    /\ tpGot[c][d] < tpSent[c][d]
    /\ tpGot' = [tpGot EXCEPT ![c][d] = @ + 1]
    /\ UNCHANGED <<tpProxy, tpConn, tpEnds, tpEof, tpCopying, tpResets>>

(* ... until there is no more, or the receiver is gone: it closes its half *)
(* of both connections.                                                    *)
CopyEnds(c, d) ==
    /\ d \in tpCopying[c]
    /\ \/ d \in tpFin[c] /\ tpGot[c][d] = tpSent[c][d]
       \/ d \in tpGone[c] /\ tpGot[c][d] < tpSent[c][d]
    /\ tpCopying' = [tpCopying EXCEPT ![c] = @ \ {d}]
    /\ tpEof' = [tpEof EXCEPT ![c] = @ \cup {d}]
    /\ UNCHANGED <<tpProxy, tpConn, tpEnds, tpGot, tpResets>>

(* HandleConn waits for both copies and closes both connections.           *)
HandleReturns(c) ==
    /\ tpConn[c].at = "copying"
    /\ tpCopying[c] = {}
    /\ tpConn' = [tpConn EXCEPT ![c].at = "closed"]
    /\ UNCHANGED <<tpProxy, tpEnds, tpGot, tpEof, tpCopying, tpResets>>

(* Close: the listener's; connections are left to their ends.              *)
CloseProxy ==
    /\ tpListening
    /\ tpListening' = FALSE
    /\ UNCHANGED <<tpRoutes, tpNumber, tpConn, tpEnds, tpGot, tpEof, tpCopying, tpResets>>

-------------------------------------------------------------------------------
(* External: an end sends, finishes sending, or goes away without reading  *)
(* the rest; one that goes away does not send any more either.             *)
EndSends(c, d) ==
    /\ tpConn[c].at = "copying"
    /\ d \notin tpFin[c]
    /\ tpSent[c][d] < MaxSent[c]
    /\ tpSent' = [tpSent EXCEPT ![c][d] = @ + 1]
    /\ UNCHANGED <<tpProxy, tpConn, tpFin, tpGone, tpGot, tpEof, tpCopying, tpResets>>

EndFinishes(c, d) ==
    /\ tpConn[c].at = "copying"
    /\ d \notin tpFin[c]
    /\ tpFin' = [tpFin EXCEPT ![c] = @ \cup {d}]
    /\ UNCHANGED <<tpProxy, tpConn, tpSent, tpGone, tpGot, tpEof, tpCopying, tpResets>>

EndGoesAway(c, d) ==
    /\ tpConn[c].at = "copying"
    /\ d \notin tpGone[c]
    /\ Reset
    /\ tpGone' = [tpGone EXCEPT ![c] = @ \cup {d}]
    /\ tpFin' = [tpFin EXCEPT ![c] = @ \cup {Opposite[d]}]
    /\ UNCHANGED <<tpProxy, tpConn, tpSent, tpGot, tpEof, tpCopying>>

TpInit ==
    /\ tpListening = TRUE
    /\ tpRoutes = 1
    /\ tpNumber = 0
    /\ tpConn = [c \in Conns |-> [at |-> "none", route |-> 0]]
    /\ tpSent = [c \in Conns |-> [d \in Directions |-> 0]]
    /\ tpGot = [c \in Conns |-> [d \in Directions |-> 0]]
    /\ tpFin = [c \in Conns |-> {}]
    /\ tpEof = [c \in Conns |-> {}]
    /\ tpGone = [c \in Conns |-> {}]
    /\ tpCopying = [c \in Conns |-> {}]
    /\ tpResets = 0

\* Every variable has its type; nothing is received that was not sent.
TpTypeOK ==
    /\ tpListening \in BOOLEAN /\ tpRoutes \in 1..Cardinality(Backends)
    /\ tpNumber \in 0..Cardinality(Conns) /\ tpResets \in 0..MaxResets
    /\ \A c \in Conns :
         /\ tpConn[c].at \in {"none", "accepted", "dialing", "copying", "refused", "closed"}
         /\ tpConn[c].route \in 0..(Cardinality(Backends) - 1)
         /\ \A d \in Directions : tpSent[c][d] \in 0..MaxSent[c] /\ tpGot[c][d] \in 0..tpSent[c][d]
         /\ (tpFin[c] \cup tpEof[c] \cup tpGone[c] \cup tpCopying[c]) \subseteq Directions

TpServes(c) ==
    \/ PickRoute(c) \/ DialRoute(c) \/ HandleReturns(c)
    \/ \E d \in Directions : CopyData(c, d) \/ CopyEnds(c, d)

TpNext ==
    \/ \E n \in 1..Cardinality(Backends) : SetRoutes(n)
    \/ \E c \in Conns :
         \/ AcceptConn(c) \/ TpServes(c)
         \/ \E d \in Directions : EndSends(c, d) \/ EndFinishes(c, d) \/ EndGoesAway(c, d)
    \/ CloseProxy

(* A goroutine whose operation can go on does so.                          *)
TpSpec == TpInit /\ [][TpNext]_tpVars /\ \A c \in Conns : WF_tpVars(TpServes(c))

-------------------------------------------------------------------------------
(* HandleConn closes a connection only when each of its ends has got all   *)
(* that the other one sent, unless it has gone away itself: also if one of *)
(* them had long finished sending, and whatever route it took.             *)
NoneIsCutShort ==
    \A c \in Conns : tpConn[c].at = "closed" =>
       \A d \in Directions : tpGot[c][d] = tpSent[c][d] \/ d \in tpGone[c]

(* When both ends have finished, the connection is given up, also if one   *)
(* of them has gone away with data for it under way, and also if the proxy *)
(* has been closed.                                                        *)
ConnectionsEnd ==
    \A c \in Conns : []<>(tpFin[c] = Directions => tpConn[c].at = "closed")

=============================================================================
