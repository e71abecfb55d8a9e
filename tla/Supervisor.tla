----------------------------- MODULE Supervisor -----------------------------
(***************************************************************************)
(* The process supervisor of k0s (pkg/supervisor): it keeps one child      *)
(* process running, and records its PID in a file, by which the next run   *)
(* of k0s finds a process that has outlived the previous one (the systemd  *)
(* unit has KillMode=process, so that children survive k0s).               *)
(*                                                                         *)
(* Four activities interleave: the caller of Supervise and Stop (one at a  *)
(* time, by startStopMutex), the loop that starts and restarts the         *)
(* process, the goroutine per process that waits for its end and removes   *)
(* the PID file, and the processes themselves.  k0s may crash anywhere.    *)
(*                                                                         *)
(* The kernel is one with pidfds: signals go to the process that has been  *)
(* opened, whoever has its PID now.                                        *)
(***************************************************************************)
EXTENDS Naturals, FiniteSets

CONSTANTS
    Procs,      \* processes; one that is gone and forgotten may be born again
    Pids,       \* process IDs, which the kernel recycles
    None,
    Garbled,    \* the content of a PID file between its truncation and its writing
    MaxFaults,  \* how often system calls fail
    MaxCrashes  \* how often k0s crashes

ASSUME NoneIsNothing == None \notin Procs /\ None \notin Pids /\ Garbled \notin Pids \cup {None}

VARIABLES
    st,       \* "gone", "running" or "zombie", for each process
    pid,      \* its PID
    ours,     \* whether it runs the supervised binary, marked as managed by k0s
    term,     \* whether it has received SIGTERM from k0s
    waiter,   \* the goroutine in cmd.Wait: "none", "waiting", "reaped", "sent"
    pidFile,  \* what the PID file has: a PID, Garbled, or None if there is no file
    call,     \* what the caller is at
    target,   \* the PID that was read from the file
    handle,   \* the process that was opened by that PID
    started,  \* s.stop # nil
    loop,     \* what the supervising goroutine is at
    cmd,      \* the process it has started last
    first,    \* restarts = 0
    stopping, \* its context is done
    deferred, \* DeferGracefulTerminationUntil is set
    late,     \* processes that the loop has left before their waiter was through
    lost,     \* running processes whose PID was not recorded, or removed from the file
    faults, crashes

kernel == <<st, pid, ours, term>>
caller == <<call, target, handle, started>>
looper == <<loop, cmd, first, stopping, deferred>>
ghosts == <<late, lost>>
vars == <<kernel, waiter, pidFile, caller, looper, ghosts, faults, crashes>>

Trouble ==
    /\ faults < MaxFaults
    /\ faults' = faults + 1

Running(p) == IF p = None THEN FALSE ELSE st[p] = "running"

-----------------------------------------------------------------------------
(* Processes *)

\* Nobody refers to a former process any more.
Forgotten(p) == st[p] = "gone" /\ waiter[p] = "none" /\ p \notin {handle, cmd}

FreePids == Pids \ {pid[p] : p \in {q \in Procs : st[q] # "gone"}}

\* There is room for another process.
Room == FreePids # {} /\ \E p \in Procs : Forgotten(p)

\* A process starts.  Which of the forgotten ones stands for it does not matter.
Born(p, n, managed) ==
    /\ Forgotten(p) /\ p = CHOOSE q \in Procs : Forgotten(q)
    /\ n \in FreePids
    /\ st' = [st EXCEPT ![p] = "running"]
    /\ pid' = [pid EXCEPT ![p] = n]
    /\ ours' = [ours EXCEPT ![p] = managed]
    /\ term' = [term EXCEPT ![p] = FALSE]

\* The kernel forgets a process that has ended.
Vanish(p) ==
    /\ st' = [st EXCEPT ![p] = "gone"]
    /\ pid' = [pid EXCEPT ![p] = None]
    /\ ours' = [ours EXCEPT ![p] = FALSE]
    /\ term' = [term EXCEPT ![p] = FALSE]
    /\ lost' = lost \ {p}

\* Some other process is started, possibly with a PID of before.
OtherStarts(p, n) ==
    /\ \A q \in Procs : st[q] = "gone" \/ ours[q]
    /\ Born(p, n, FALSE)
    /\ UNCHANGED <<waiter, pidFile, caller, looper, ghosts, faults, crashes>>

\* Such a process ends.  (As a zombie, it would look no different to k0s.)
OtherEnds(p) ==
    /\ st[p] = "running" /\ ~ours[p]
    /\ Vanish(p)
    /\ UNCHANGED <<waiter, pidFile, caller, looper, late, faults, crashes>>

\* A process of k0s ends, for whatever reason.
Exit(p) ==
    /\ st[p] = "running" /\ ours[p]
    /\ st' = [st EXCEPT ![p] = "zombie"]
    /\ UNCHANGED <<pid, ours, term, waiter, pidFile, caller, looper, ghosts, faults, crashes>>

\* init reaps a child of a former k0s.
ReapOrphan(p) ==
    /\ st[p] = "zombie" /\ waiter[p] = "none" /\ p # cmd
    /\ Vanish(p)
    /\ UNCHANGED <<waiter, pidFile, caller, looper, late, faults, crashes>>

-----------------------------------------------------------------------------
(* Supervise, up to starting the loop *)

\* Supervise returns an error.
Fail ==
    /\ call' = "idle" /\ target' = None /\ handle' = None
    /\ UNCHANGED <<started, looper>>

\* There is nothing to clean up (any more): the loop is started.
StartLoop ==
    /\ call' = "start" /\ target' = None /\ handle' = None
    /\ loop' = "spawn" /\ first' = TRUE /\ stopping' = FALSE /\ deferred' = FALSE
    /\ UNCHANGED <<started, cmd>>

Unchecked == <<kernel, waiter, pidFile, ghosts, crashes>>

\* maybeCleanupPIDFile reads the PID file.
Supervise ==
    /\ call = "idle" /\ ~started
    /\ CASE pidFile = None -> StartLoop
         [] pidFile = Garbled -> Fail
         [] OTHER -> call' = "open" /\ target' = pidFile /\ UNCHANGED <<handle, started, looper>>
    /\ UNCHANGED <<Unchecked, faults>>

\* openPID
OpenPID ==
    /\ call = "open"
    /\ \/ /\ \A p \in Procs : st[p] # "gone" => pid[p] # target
          /\ StartLoop
          /\ UNCHANGED faults
       \/ /\ \E p \in Procs :
                /\ st[p] # "gone" /\ pid[p] = target
                /\ handle' = p
          /\ call' = "check"
          /\ UNCHANGED <<target, started, looper, faults>>
       \/ Trouble /\ Fail
    /\ UNCHANGED Unchecked

\* Wrong on purpose: any process will do.
IsK0sManagedAny(p) == st[p] = "running"

\* isK0sManaged: a zombie has neither a command line nor an environment.
IsK0sManaged(p) == st[p] = "running" /\ ours[p]

\* cleanupPID, once the process is open
Check ==
    /\ call = "check"
    /\ \/ IF IsK0sManaged(handle)
          THEN call' = "term" /\ UNCHANGED <<target, handle, started, looper, faults>>
          ELSE StartLoop /\ UNCHANGED faults
       \/ Trouble /\ Fail
    /\ UNCHANGED Unchecked

\* SIGTERM to an open process, which may have ended
Signal(p) == term' = IF st[p] = "gone" THEN term ELSE [term EXCEPT ![p] = TRUE]

\* terminateAndWait: request graceful termination
Terminate ==
    /\ call = "term"
    /\ \/ /\ Signal(handle)
          /\ IF st[handle] = "gone"
             THEN StartLoop
             ELSE call' = "await" /\ UNCHANGED <<target, handle, started, looper>>
          /\ UNCHANGED faults
       \/ Trouble /\ Fail /\ UNCHANGED term
    /\ UNCHANGED <<st, pid, ours, waiter, pidFile, ghosts, crashes>>

\* awaitTermination opens a pidfd by PID.  If nobody has the PID any more, this is an
\* error; if somebody else has it by now, or the process is a zombie, it is over.
OpenPidfd ==
    /\ call = "await"
    /\ \/ /\ UNCHANGED faults
          /\ CASE st[handle] = "running" ->
                    call' = "poll" /\ UNCHANGED <<target, handle, started, looper>>
               [] st[handle] = "gone" /\ target \in FreePids -> Fail
               [] OTHER -> StartLoop
       \/ Trouble /\ Fail
    /\ UNCHANGED Unchecked

\* PIDFD.Wait returns when the process has ended, or when the time is over (or ctx done).
Poll ==
    /\ call = "poll"
    /\ IF st[handle] = "running" THEN Fail ELSE StartLoop
    /\ UNCHANGED <<Unchecked, faults>>

-----------------------------------------------------------------------------
(* The loop *)

\* The goroutine returns; Supervise or StopWith, waiting for it, returns as well.
LoopReturns ==
    /\ loop' = "off" /\ cmd' = None /\ stopping' = FALSE /\ deferred' = FALSE /\ first' = TRUE
    /\ call' = "idle" /\ started' = FALSE
    /\ UNCHANGED <<target, handle>>

\* CleanBeforeFn fails, or the process cannot be started.  The first time, this is the
\* error that Supervise returns.
SpawnFails ==
    /\ loop = "spawn"
    /\ IF Room THEN Trouble ELSE UNCHANGED faults
    /\ IF first THEN LoopReturns
       ELSE loop' = "sleep" /\ UNCHANGED <<caller, cmd, first, stopping, deferred>>
    /\ UNCHANGED <<kernel, waiter, pidFile, ghosts, crashes>>

Spawn(p, n) ==
    /\ loop = "spawn"
    /\ Born(p, n, TRUE)
    /\ loop' = "truncate" /\ cmd' = p
    /\ UNCHANGED <<waiter, pidFile, caller, first, stopping, deferred, ghosts, faults, crashes>>

\* The process is supervised now, and Supervise returns.
Wait ==
    /\ loop' = "wait" /\ first' = FALSE
    /\ waiter' = [waiter EXCEPT ![cmd] = "waiting"]
    /\ IF first THEN call' = "idle" /\ started' = TRUE ELSE UNCHANGED <<call, started>>
    /\ UNCHANGED <<target, handle, cmd, stopping, deferred>>

\* os.WriteFile truncates the PID file or creates an empty one, and then writes it.
\* An error is logged.
Truncate ==
    /\ loop = "truncate"
    /\ \/ /\ pidFile' = Garbled
          /\ loop' = "write"
          /\ UNCHANGED <<waiter, caller, cmd, first, stopping, deferred, lost, faults>>
       \/ Trouble /\ Wait /\ lost' = lost \cup {cmd} /\ UNCHANGED pidFile
    /\ UNCHANGED <<kernel, late, crashes>>

Write ==
    /\ loop = "write"
    /\ Wait
    /\ \/ pidFile' = pid[cmd] /\ UNCHANGED <<lost, faults>>
       \/ Trouble /\ lost' = lost \cup {cmd} /\ UNCHANGED pidFile
    /\ UNCHANGED <<kernel, late, crashes>>

\* cmd.Wait returns.
Reap(p) ==
    /\ waiter[p] = "waiting" /\ st[p] = "zombie"
    /\ Vanish(p)
    /\ waiter' = [waiter EXCEPT ![p] = "reaped"]
    /\ UNCHANGED <<pidFile, caller, looper, late, faults, crashes>>

\* Whose PID the file has
Recorded == {p \in Procs : st[p] = "running" /\ ours[p] /\ pid[p] = pidFile}

\* The waiter removes the PID file, whatever it has (an error is logged), and then sends
\* its result.  Nobody receives the one of a process that the loop has left.
RemovePidFile(p) ==
    /\ waiter[p] = "reaped"
    /\ \/ /\ pidFile' = None
          /\ lost' = IF p \in late THEN lost \cup Recorded ELSE lost
          /\ UNCHANGED faults
       \/ Trouble /\ UNCHANGED <<pidFile, lost>>
    /\ waiter' = [waiter EXCEPT ![p] = IF p \in late THEN "none" ELSE "sent"]
    /\ late' = late \ {p}
    /\ UNCHANGED <<kernel, caller, looper, crashes>>

\* processWaitQuit receives the result of the waiter.
Receive(to) ==
    /\ waiter[cmd] = "sent"
    /\ waiter' = [waiter EXCEPT ![cmd] = "none"]
    /\ loop' = to
    /\ UNCHANGED <<kernel, pidFile, caller, cmd, first, stopping, deferred, ghosts, faults, crashes>>

UnexpectedEnd == loop = "wait" /\ Receive("sleep")

\* The context is done.
WaitQuit ==
    /\ loop = "wait" /\ stopping
    /\ loop' = IF deferred THEN "defer" ELSE "term"
    /\ UNCHANGED <<kernel, waiter, pidFile, caller, cmd, first, stopping, deferred, ghosts, faults, crashes>>

\* The loop returns without the result of the waiter, which has something left to do.
Leave ==
    /\ LoopReturns
    /\ late' = IF waiter[cmd] \in {"waiting", "reaped"} THEN late \cup {cmd} ELSE late
    /\ waiter' = [waiter EXCEPT ![cmd] = IF @ = "sent" THEN "none" ELSE @]
    /\ UNCHANGED lost

\* The process was given time to end on its own, and has not used it.
DeferTimeout ==
    /\ loop = "defer"
    /\ loop' = "term"
    /\ UNCHANGED <<kernel, waiter, pidFile, caller, cmd, first, stopping, deferred, ghosts, faults, crashes>>

\* requestGracefulTermination, for the child; os.Process knows if it has been reaped.
RequestTermination ==
    /\ loop = "term"
    /\ \/ /\ Signal(cmd)
          /\ IF st[cmd] = "gone" THEN Leave
             ELSE loop' = "grace" /\ UNCHANGED <<waiter, caller, cmd, first, stopping, deferred, ghosts>>
          /\ UNCHANGED faults
       \/ Trouble /\ Leave /\ UNCHANGED term
    /\ UNCHANGED <<st, pid, ours, pidFile, crashes>>

\* TimeoutStop is over; the process is left alone, and Stop reports no error.
GraceTimeout ==
    /\ loop = "grace"
    /\ Leave
    /\ UNCHANGED <<kernel, pidFile, faults, crashes>>

\* The process has ended while being stopped.
Stopped ==
    /\ loop \in {"defer", "grace"}
    /\ waiter[cmd] = "sent"
    /\ Leave
    /\ UNCHANGED <<kernel, pidFile, faults, crashes>>

\* Wrong on purpose: the process is not started again.
RespawnNever ==
    /\ loop = "sleep" /\ stopping
    /\ LoopReturns
    /\ UNCHANGED <<kernel, waiter, pidFile, ghosts, faults, crashes>>

\* TimeoutRespawn is over, or the context is done.  (When both are, Go chooses; that
\* is the same as the timer coming before the context.)
Respawn ==
    /\ loop = "sleep"
    /\ \/ ~stopping /\ loop' = "spawn" /\ UNCHANGED <<caller, cmd, first, stopping, deferred>>
       \/ stopping /\ LoopReturns
    /\ UNCHANGED <<kernel, waiter, pidFile, ghosts, faults, crashes>>

\* StopWith
StopWith ==
    /\ call = "idle" /\ started
    /\ call' = "stop"
    /\ stopping' = TRUE /\ deferred' \in BOOLEAN
    /\ UNCHANGED <<kernel, waiter, pidFile, target, handle, started, loop, cmd, first, ghosts, faults, crashes>>

\* k0s dies, and starts again; its children live on.
Crash ==
    /\ crashes < MaxCrashes /\ crashes' = crashes + 1
    /\ call' = "idle" /\ target' = None /\ handle' = None /\ started' = FALSE
    /\ loop' = "off" /\ cmd' = None /\ first' = TRUE /\ stopping' = FALSE /\ deferred' = FALSE
    /\ waiter' = [p \in Procs |-> "none"]
    /\ late' = {}
    /\ lost' = IF loop \in {"truncate", "write"} THEN lost \cup {cmd} ELSE lost
    /\ UNCHANGED <<kernel, pidFile, faults>>

-----------------------------------------------------------------------------
Init ==
    /\ st = [p \in Procs |-> "gone"]
    /\ pid = [p \in Procs |-> None]
    /\ ours = [p \in Procs |-> FALSE] /\ term = [p \in Procs |-> FALSE]
    /\ waiter = [p \in Procs |-> "none"]
    /\ pidFile \in Pids \cup {None, Garbled}
    /\ call = "idle" /\ target = None /\ handle = None /\ started = FALSE
    /\ loop = "off" /\ cmd = None /\ first = TRUE /\ stopping = FALSE /\ deferred = FALSE
    /\ late = {} /\ lost = {}
    /\ faults = 0 /\ crashes = 0

Cleanup == OpenPID \/ Check \/ Terminate \/ OpenPidfd \/ Poll
Loop ==
    \/ SpawnFails \/ \E p \in Procs, n \in Pids : Spawn(p, n)
    \/ Truncate \/ Write
    \/ UnexpectedEnd \/ WaitQuit
    \/ DeferTimeout \/ RequestTermination \/ GraceTimeout \/ Stopped
    \/ Respawn
Waiter(p) == Reap(p) \/ RemovePidFile(p)
Environment ==
    \/ \E p \in Procs : Exit(p) \/ ReapOrphan(p) \/ OtherEnds(p)
    \/ \E p \in Procs, n \in Pids : OtherStarts(p, n)
    \/ Crash

Next ==
    \/ Supervise \/ StopWith
    \/ Cleanup
    \/ Loop
    \/ \E p \in Procs : Waiter(p)
    \/ Environment

\* Goroutines get their turn, and timers fire: also the one of the caller of StopWith
\* who defers termination (etcd.Stop).
Fairness ==
    /\ WF_vars(Cleanup)
    /\ WF_vars(Loop)
    /\ \A p \in Procs : WF_vars(Waiter(p))

Spec == Init /\ [][Next]_vars /\ Fairness

-----------------------------------------------------------------------------
(* Properties *)

\* Every variable has its type; moreover PIDs are unique, and the supervising loop
\* runs exactly while the supervisor is started or being started.
TypeOK ==
    /\ st \in [Procs -> {"gone", "running", "zombie"}]
    /\ pid \in [Procs -> Pids \cup {None}]
    /\ waiter \in [Procs -> {"none", "waiting", "reaped", "sent"}]
    /\ \A p, q \in Procs : p # q /\ pid[p] = pid[q] => "gone" \in {st[p], st[q]}
    /\ pidFile \in Pids \cup {None, Garbled}
    /\ call \in {"idle", "open", "check", "term", "await", "poll", "start", "stop"}
    /\ loop \in {"off", "spawn", "truncate", "write", "wait", "defer", "term", "grace", "sleep"}
    /\ call \in {"check", "term", "await", "poll"} => handle \in Procs
    /\ loop \in {"truncate", "write", "wait", "defer", "term", "grace"} => cmd \in Procs
    /\ (loop = "off") = ~(started \/ call = "start")

\* Supervisor.cleanupPID and terminateSupervisedProcess signal the supervised process
\* only, never one that got its PID, or the PID in a stale PID file, later on.
OthersUntouched == \A p \in Procs : term[p] => ours[p]

\* Two processes of the supervisor never run at once, over stops, restarts and crashes,
\* except those that the PID file does not have (lost): k0s crashed before the file was
\* written, it could not be written, or the waiter of a process that Stop gave up on
\* removed it later.
AtMostOne == \A p, q \in Procs : Running(p) /\ Running(q) /\ ours[p] /\ ours[q]
                                 /\ p \notin lost /\ q \notin lost => p = q

\* While a process is supervised, the PID file has its PID (with the same exceptions):
\* the waiter of its predecessor has removed the file before.
PidFileIsCurrent == loop = "wait" /\ Running(cmd) /\ cmd \notin lost => pidFile = pid[cmd]

\* Supervise and Stop return, also when the process does not terminate.
CallsReturn == []<>(call = "idle")

\* A supervised process that is not running is running again some time, unless it is
\* stopped, k0s crashes, or there is no room for it.
KeptRunning ==
    []<>(Running(cmd) \/ ~started \/ call = "stop" \/ ~Room)

\* The supervisor knows its process: it signals no other, runs no two, and the PID
\* file has the one that runs (pkg/supervisor).
ProcessIsKnown == OthersUntouched /\ AtMostOne /\ PidFileIsCurrent

\* Calls return and the process is kept running (pkg/supervisor).
ProcessIsKept == CallsReturn /\ KeptRunning
=============================================================================
