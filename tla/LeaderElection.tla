---------------------------- MODULE LeaderElection ----------------------------
(***************************************************************************)
(* Leader election of the controllers: the lease, the election client that *)
(* runs one round after the other (pkg/leaderelection/client.go), the      *)
(* status it publishes (internal/sync/value), the runner of leader tasks   *)
(* (tasks.go) and the lease pool that starts, yields and stops them        *)
(* (leaderelector/leasepool.go).                                           *)
(*                                                                         *)
(* In a round the elector of client-go acquires the lease, starts a        *)
(* goroutine for OnStartedLeading, and renews until it fails or is         *)
(* cancelled; then it gives the lease up and Run returns, whatever the     *)
(* goroutine has done so far.                                              *)
(***************************************************************************)
EXTENDS Naturals

CONSTANTS
    Clients,
    NoClient,
    MaxEvents,   \* bound: acquisitions
    MaxControls  \* bound: calls of Start, Stop and YieldLease

ASSUME ElectionAssumption ==
    /\ NoClient \notin Clients
    /\ MaxEvents \in Nat
    /\ MaxControls \in Nat

VARIABLES
    holder,    \* the lease
    round,     \* round[c]: where the election round of c is
    called,    \* called[c]: changedCalled of this round
    taken,     \* taken[c]: the goroutine running leadTaken
    status,    \* status[c]: the published status
    expired,   \* expired[c]: the channel the task runner watches is closed
    tasks,     \* tasks[c]: where the task runner is
    pool,      \* pool[c]: where the lease pool is
    acquired, controls

electionVars == <<holder, round, called, taken, status, expired, tasks, pool, acquired, controls>>

Election == <<holder, round, called, taken, status, expired>>

\* off: no client runs.  deciding: the deferred function has swapped the flag
\* and found it set.  pending: changed(StatusPending) is being called.
Rounds == {"off", "acquire", "renew", "ended", "deciding", "pending"}

\* leading: changed(StatusLeading) is being called.
Takens == {"none", "started", "leading", "done"}

\* look: about to Peek.  running: in the tasks function; cancelled: its context
\* is done.  idle: waiting for the status to expire.
TaskStates == {"off", "look", "running", "cancelled", "idle"}

\* waiting: waitForResume.  closing: cancelled, waiting for both goroutines.
Pools == {"stopped", "waiting", "running", "yielding", "stopping"}

-----------------------------------------------------------------------------
(* client-go *)

\* The context of the client is done.
Cancelled(c) == pool[c] \in {"yielding", "stopping"}

Acquire(c) ==
    /\ round[c] = "acquire" /\ ~Cancelled(c)
    /\ holder = NoClient
    /\ acquired < MaxEvents
    /\ acquired' = acquired + 1
    /\ holder' = c
    /\ round' = [round EXCEPT ![c] = "renew"]
    /\ taken' = [taken EXCEPT ![c] = "started"]
    /\ UNCHANGED <<called, status, expired, tasks, pool, controls>>

\* Renewing fails, or the context is done: the lease is given up, which may
\* fail too, and Run returns.
EndRenew(c) ==
    /\ round[c] = "renew"
    /\ round' = [round EXCEPT ![c] = "ended"]
    /\ \/ holder' = IF holder = c THEN NoClient ELSE holder
       \/ UNCHANGED holder
    /\ UNCHANGED <<called, taken, status, expired, tasks, pool, acquired, controls>>

\* The context is done before the lease was acquired.
GiveUp(c) ==
    /\ round[c] = "acquire" /\ Cancelled(c)
    /\ round' = [round EXCEPT ![c] = "ended"]
    /\ UNCHANGED <<holder, called, taken, status, expired, tasks, pool, acquired, controls>>

\* Nobody renews the lease.
Expire ==
    /\ holder # NoClient
    /\ round[holder] # "renew"
    /\ holder' = NoClient
    /\ UNCHANGED <<round, called, taken, status, expired, tasks, pool, acquired, controls>>

-----------------------------------------------------------------------------
(* runLeaderElectionRound *)

\* value.Latest.Set
Publish(c, s) ==
    /\ status' = [status EXCEPT ![c] = s]
    /\ expired' = [expired EXCEPT ![c] = TRUE]

\* leadTaken swaps the flag.  A goroutine whose round is over finds it set and
\* does nothing; it is left out from then on.
LeadTaken(c) ==
    /\ taken[c] = "started"
    /\ taken' = [taken EXCEPT ![c] = IF called[c] THEN "done" ELSE "leading"]
    /\ called' = [called EXCEPT ![c] = TRUE]
    /\ UNCHANGED <<holder, round, status, expired, tasks, pool, acquired, controls>>

ChangedLeading(c) ==
    /\ taken[c] = "leading"
    /\ Publish(c, "Leading")
    /\ taken' = [taken EXCEPT ![c] = "done"]
    /\ UNCHANGED <<holder, round, called, tasks, pool, acquired, controls>>

\* Wrong on purpose: Pending is reported although Leading never was.
RoundEndsAlways(c) ==
    /\ round[c] = "ended"
    /\ called' = [called EXCEPT ![c] = TRUE]
    /\ round' = [round EXCEPT ![c] = IF called[c] THEN "deciding" ELSE "pending"]
    /\ UNCHANGED <<holder, taken, status, expired, tasks, pool, acquired, controls>>

\* The deferred function: swap the flag.
RoundEnds(c) ==
    /\ round[c] = "ended"
    /\ called' = [called EXCEPT ![c] = TRUE]
    /\ round' = [round EXCEPT ![c] = IF called[c] THEN "deciding" ELSE "off"]
    /\ UNCHANGED <<holder, taken, status, expired, tasks, pool, acquired, controls>>

\* Wrong on purpose: the goroutine is not waited for.
AwaitDoneNot(c) ==
    /\ round[c] = "deciding"
    /\ round' = [round EXCEPT ![c] = "pending"]
    /\ UNCHANGED <<holder, called, taken, status, expired, tasks, pool, acquired, controls>>

AwaitDone(c) ==
    /\ round[c] = "deciding"
    /\ taken[c] = "done"
    /\ round' = [round EXCEPT ![c] = "pending"]
    /\ UNCHANGED <<holder, called, taken, status, expired, tasks, pool, acquired, controls>>

ChangedPending(c) ==
    /\ round[c] = "pending"
    /\ Publish(c, "Pending")
    /\ round' = [round EXCEPT ![c] = "off"]
    /\ UNCHANGED <<holder, called, taken, tasks, pool, acquired, controls>>

\* Client.Run: the next round, unless the context is done.
NextRound(c) ==
    /\ round[c] = "off"
    /\ pool[c] = "running"
    /\ round' = [round EXCEPT ![c] = "acquire"]
    /\ called' = [called EXCEPT ![c] = FALSE]
    /\ taken' = [taken EXCEPT ![c] = "none"]
    /\ UNCHANGED <<holder, status, expired, tasks, pool, acquired, controls>>

-----------------------------------------------------------------------------
(* RunLeaderTasks, with the callbacks of the lease pool as its tasks *)

\* Peek returns the status and a fresh expiration channel.
Look(c) ==
    /\ tasks[c] = "look"
    /\ tasks' = [tasks EXCEPT ![c] = IF status[c] = "Leading" THEN "running" ELSE "idle"]
    /\ expired' = [expired EXCEPT ![c] = FALSE]
    /\ UNCHANGED <<holder, round, called, taken, status, pool, acquired, controls>>

\* Wrong on purpose: only the outer context cancels the tasks.
CancelTasksLate(c) ==
    /\ tasks[c] = "running"
    /\ Cancelled(c)
    /\ tasks' = [tasks EXCEPT ![c] = "cancelled"]
    /\ UNCHANGED <<Election, pool, acquired, controls>>

\* The watching goroutine cancels the context of the tasks.
CancelTasks(c) ==
    /\ tasks[c] = "running"
    /\ expired[c] \/ Cancelled(c)
    /\ tasks' = [tasks EXCEPT ![c] = "cancelled"]
    /\ UNCHANGED <<Election, pool, acquired, controls>>

\* The lost-lease callbacks have run; the tasks function returns.
TasksReturn(c) ==
    /\ tasks[c] = "cancelled"
    /\ tasks' = [tasks EXCEPT ![c] = "idle"]
    /\ UNCHANGED <<Election, pool, acquired, controls>>

AfterTasks(c) ==
    /\ tasks[c] = "idle"
    /\ \/ expired[c] /\ tasks' = [tasks EXCEPT ![c] = "look"]
       \/ Cancelled(c) /\ tasks' = [tasks EXCEPT ![c] = "off"]
    /\ UNCHANGED <<Election, pool, acquired, controls>>

-----------------------------------------------------------------------------
(* LeasePool *)

Control == controls < MaxControls /\ controls' = controls + 1

Start(c) ==
    /\ Control
    /\ pool[c] = "stopped"
    /\ pool' = [pool EXCEPT ![c] = "waiting"]
    /\ UNCHANGED <<Election, tasks, acquired>>

\* waitForResume returns: run the client and the callbacks.
Resume(c) ==
    /\ pool[c] = "waiting"
    /\ pool' = [pool EXCEPT ![c] = "running"]
    /\ tasks' = [tasks EXCEPT ![c] = "look"]
    /\ UNCHANGED <<Election, acquired, controls>>

YieldLease(c) ==
    /\ Control
    /\ pool[c] = "running"
    /\ pool' = [pool EXCEPT ![c] = "yielding"]
    /\ UNCHANGED <<Election, tasks, acquired>>

\* Stop
StopPool(c) ==
    /\ Control
    /\ pool[c] \in {"waiting", "running", "yielding"}
    /\ pool' = [pool EXCEPT ![c] = IF pool[c] = "waiting" THEN "stopped" ELSE "stopping"]
    /\ UNCHANGED <<Election, tasks, acquired>>

\* wg.Wait
Closed(c) == round[c] = "off" /\ tasks[c] = "off"

\* runClient returns.
Close(c) ==
    /\ Cancelled(c)
    /\ Closed(c)
    /\ pool' = [pool EXCEPT ![c] = IF pool[c] = "yielding" THEN "waiting" ELSE "stopped"]
    /\ UNCHANGED <<Election, tasks, acquired, controls>>

-----------------------------------------------------------------------------
ElectionInit ==
    /\ holder = NoClient
    /\ round = [c \in Clients |-> "off"]
    /\ called = [c \in Clients |-> FALSE]
    /\ taken = [c \in Clients |-> "none"]
    /\ status = [c \in Clients |-> "Pending"]
    /\ expired = [c \in Clients |-> FALSE]
    /\ tasks = [c \in Clients |-> "off"]
    /\ pool = [c \in Clients |-> "stopped"]
    /\ acquired = 0
    /\ controls = 0

ElectionStep(c) ==
    \/ EndRenew(c) \/ GiveUp(c) \/ LeadTaken(c) \/ ChangedLeading(c)
    \/ RoundEnds(c) \/ AwaitDone(c) \/ ChangedPending(c) \/ NextRound(c)

TaskStep(c) == Look(c) \/ CancelTasks(c) \/ TasksReturn(c) \/ AfterTasks(c)

ControlStep(c) == Start(c) \/ YieldLease(c) \/ StopPool(c)

ElectionNext ==
    \/ \E c \in Clients : \/ Acquire(c) \/ ElectionStep(c) \/ TaskStep(c)
                          \/ Resume(c) \/ Close(c) \/ ControlStep(c)
    \/ Expire

ElectionSpec == ElectionInit /\ [][ElectionNext]_electionVars

\* Goroutines are scheduled, callbacks return, and a cancelled elector stops
\* renewing; the lease need not be available, nor lost.
FairElectionSpec ==
    /\ ElectionSpec
    /\ \A c \in Clients :
          /\ WF_electionVars(LeadTaken(c) \/ ChangedLeading(c))
          /\ WF_electionVars(GiveUp(c) \/ RoundEnds(c) \/ AwaitDone(c) \/ ChangedPending(c))
          /\ WF_electionVars(EndRenew(c) /\ Cancelled(c))
          /\ WF_electionVars(TaskStep(c))
          /\ WF_electionVars(Resume(c) \/ Close(c))

-----------------------------------------------------------------------------
(* Properties *)

\* Every variable has its type.
ElectionTypeOK ==
    /\ holder \in Clients \cup {NoClient}
    /\ round \in [Clients -> Rounds]
    /\ called \in [Clients -> BOOLEAN]
    /\ taken \in [Clients -> Takens]
    /\ status \in [Clients -> {"Pending", "Leading"}]
    /\ expired \in [Clients -> BOOLEAN]
    /\ tasks \in [Clients -> TaskStates]
    /\ pool \in [Clients -> Pools]
    /\ acquired \in 0..MaxEvents
    /\ controls \in 0..MaxControls

\* client.go:142: the changed callback "will be called sequentially": the
\* goroutine that took the lead and the end of the round are never in it at the
\* same time.
CallbacksSequential ==
    \A c \in Clients : ~(taken[c] = "leading" /\ round[c] = "pending")

\* client.go:162-165: it "always observes the correct order of leader election
\* states": no status is published twice in a row, although OnStartedLeading
\* may come after OnStoppedLeading.
StatusAlternates ==
    [][\A c \in Clients :
          ChangedLeading(c) \/ ChangedPending(c) => status'[c] # status[c]]_electionVars

\* A round that is over leaves no Leading behind: while a client competes for
\* the lease, or does not run, its status is Pending.
LeadingOnlyInRound ==
    \A c \in Clients : round[c] \in {"off", "acquire"} => status[c] = "Pending"

\* When Stop has returned, or the pool has yielded, nothing of the pool runs
\* and the status is Pending.
ClosedIsQuiet ==
    \A c \in Clients : pool[c] \in {"stopped", "waiting"} =>
        /\ round[c] = "off"
        /\ tasks[c] = "off"
        /\ taken[c] # "leading"
        /\ status[c] = "Pending"

\* tasks.go:20: the context of the tasks is cancelled "when the lead has been
\* lost", also when the lead is regained at once.
LostLeadStopsTasks ==
    \A c \in Clients : (tasks[c] = "running" /\ status[c] = "Pending") ~> (tasks[c] # "running")

\* A client that leads works, unless it loses the lead or is closed first.
LeaderWorks ==
    \A c \in Clients : []<>(tasks[c] = "running" \/ status[c] = "Pending")

\* Stop and YieldLease end, whenever they are called.
CloseEnds ==
    \A c \in Clients : []<>(~Cancelled(c))

\* The callbacks and tasks of a client keep within its rounds: see the three
\* conjuncts (client.go, tasks.go, leasepool.go).
ElectionDiscipline == CallbacksSequential /\ LeadingOnlyInRound /\ ClosedIsQuiet

\* Leadership comes and goes: its loss stops the tasks, having it makes them run,
\* and closing ends (tasks.go, leasepool.go).
LeadershipIsLive == LostLeadStopsTasks /\ LeaderWorks /\ CloseEnds
=============================================================================
