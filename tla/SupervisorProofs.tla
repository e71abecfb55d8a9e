-------------------------- MODULE SupervisorProofs --------------------------
(***************************************************************************)
(* Who is signalled, how many run, and what the PID file has, for any      *)
(* number of processes, PIDs, faults and crashes.                          *)
(***************************************************************************)
EXTENDS Supervisor, TLAPS

\* Zenon is the prover, and SMT that of the leaves that name it.
USE ZenonT(60)

\* The phases of the loop in which cmd is the process it has started last.
Spawning == {"truncate", "write"}
Watching == {"wait", "defer", "term", "grace"}
Cleaning == {"check", "term", "await", "poll"}

\* The processes that a PID file should lead to.
Mine == {p \in Procs : st[p] = "running" /\ ours[p] /\ p \notin lost}

Types ==
    /\ st \in [Procs -> {"gone", "running", "zombie"}]
    /\ pid \in [Procs -> Pids \cup {None}]
    /\ ours \in [Procs -> BOOLEAN]
    /\ term \in [Procs -> BOOLEAN]
    /\ waiter \in [Procs -> {"none", "waiting", "reaped", "sent"}]
    /\ pidFile \in Pids \cup {None, Garbled}
    /\ call \in {"idle", "open", "start", "stop"} \cup Cleaning
    /\ loop \in {"off", "spawn", "sleep"} \cup Spawning \cup Watching
    /\ started \in BOOLEAN
    /\ first \in BOOLEAN
    /\ stopping \in BOOLEAN
    /\ deferred \in BOOLEAN

\* What the phases of the caller and of the loop have to do with each other.
Phases ==
    /\ call = "open" => target \in Pids
    /\ call \in Cleaning => handle \in Procs
    /\ loop \in Spawning \cup Watching => cmd \in Procs
    /\ call \in {"open", "start"} \cup Cleaning => ~started
    /\ call = "stop" => started
    /\ call = "start" => loop # "off" /\ first
    /\ started => loop # "off" /\ ~first
    /\ loop # "off" => started \/ call = "start"

\* A process has a PID, and of two processes with the same PID, one is gone.
Unique ==
    /\ \A p \in Procs : st[p] # "gone" => pid[p] \in Pids
    /\ \A p, q \in Procs : p # q /\ pid[p] = pid[q] => st[p] = "gone" \/ st[q] = "gone"

\* SIGTERM goes to supervised processes, since the one that is about to get it is
\* supervised or gone, and nobody else takes its place.
Signalled ==
    /\ \A p \in Procs : term[p] => ours[p]
    /\ call = "term" => st[handle] = "gone" \/ ours[handle]
    /\ loop \in Spawning \cup Watching => st[cmd] = "gone" \/ ours[cmd]

\* A waiter whose result somebody waits for is the one of cmd.
Waiters ==
    \A p \in Procs : /\ waiter[p] # "none" => p \in late \/ (p = cmd /\ loop \in Watching)
                     /\ waiter[p] \in {"reaped", "sent"} => st[p] = "gone"

\* Where the processes are that are running: known to the loop; or, while there is no
\* loop, in the PID file, or already read from it, or opened.
Known ==
    /\ loop \in {"spawn", "sleep"} => Mine = {}
    /\ loop \in Spawning \cup Watching => Mine \subseteq {cmd}
    /\ loop \in Watching => \A p \in Mine : pid[p] = pidFile
    /\ loop = "off" /\ call = "idle" => \A p \in Mine : pid[p] = pidFile
    /\ call = "open" => \A p \in Mine : pid[p] = pidFile /\ pid[p] = target
    /\ call \in Cleaning => \A p \in Mine : pid[p] = pidFile /\ p = handle

Inv == Types /\ Phases /\ Unique /\ Signalled /\ Waiters /\ Known

\* Nothing runs in the beginning.
LEMMA InvInit == Init => Inv
BY NoneIsNothing
   DEF Init, Inv, Types, Phases, Unique, Signalled, Waiters, Known, Mine, Spawning, Watching, Cleaning

\* A process that starts gets a PID that nobody has.
LEMMA FreshPid ==
    ASSUME Types, Unique, NEW p \in Procs, NEW n \in Pids, NEW managed, Born(p, n, managed)
    PROVE  Unique'
<1>1. \A q \in Procs : st[q] # "gone" => pid[q] # n
  BY DEF Born, FreePids
<1>2. \A q \in Procs \ {p} : pid'[q] = pid[q] /\ st'[q] = st[q]
  BY DEF Born, Types
<1>3. pid'[p] = n
  BY DEF Born, Types
<1>4. QED
  BY <1>1, <1>2, <1>3 DEF Unique

\* Supervise gives up.
LEMMA FailStep ==
    ASSUME Inv, call \in {"idle", "open"} \cup Cleaning, ~started, Fail, UNCHANGED Unchecked
    PROVE  Inv'
BY DEF Inv, Types, Phases, Unique, Signalled, Waiters, Known, Mine, Spawning, Watching, Cleaning,
       Fail, Unchecked, kernel, looper, ghosts

\* The loop starts when no process is left that the PID file leads to.
LEMMA StartLoopStep ==
    ASSUME Inv, call \in {"idle", "open"} \cup Cleaning, ~started, Mine = {},
           StartLoop, UNCHANGED Unchecked
    PROVE  Inv'
BY DEF Inv, Types, Phases, Unique, Signalled, Waiters, Known, Mine, Spawning, Watching, Cleaning,
       StartLoop, Unchecked, kernel, ghosts

\* The loop returns, when its process is recorded or does not run.
LEMMA LoopReturnsStep ==
    ASSUME Inv, loop # "off", \A p \in Mine : pid[p] = pidFile, LoopReturns,
           UNCHANGED <<st, pid, ours, pidFile, lost>>,
           \A p \in Procs : term'[p] => ours[p],
           term' \in [Procs -> BOOLEAN],
           waiter' \in [Procs -> {"none", "waiting", "reaped", "sent"}],
           \A p \in Procs : waiter'[p] # "none" => p \in late' /\ waiter'[p] = waiter[p]
    PROVE  Inv'
<1> USE DEF Inv, LoopReturns, Spawning, Watching, Cleaning
<1>1. Types' /\ Phases'
  BY DEF Types, Phases
<1>2. Unique' /\ Signalled' /\ Waiters'
  BY DEF Types, Unique, Signalled, Waiters
<1>3. Known'
  BY DEF Types, Phases, Known, Mine
<1>4. QED
  BY <1>1, <1>2, <1>3

\* The steps of processes, and the crash of k0s.
LEMMA EnvironmentStep == Inv /\ Environment => Inv'
<1> SUFFICES ASSUME Inv, Environment PROVE Inv'
  OBVIOUS
<1> USE NoneIsNothing
    DEF Inv, Types, Phases, Signalled, Waiters, Known, Mine, Spawning, Watching, Cleaning
<1>1. ASSUME NEW p \in Procs, NEW n \in Pids, OtherStarts(p, n) PROVE Inv'
  <2>1. Unique'
    BY <1>1, FreshPid DEF OtherStarts
  <2>2. Types' /\ Phases'
    BY SMTT(30), <1>1 DEF OtherStarts, Born, Forgotten, caller, looper, ghosts
  <2>3. Signalled' /\ Waiters'
    BY SMTT(30), <1>1 DEF OtherStarts, Born, Forgotten, caller, looper, ghosts
  <2>4. Known'
    BY SMTT(30), <1>1 DEF OtherStarts, Born, Forgotten, caller, looper, ghosts
  <2>5. QED
    BY <2>1, <2>2, <2>3, <2>4
<1>2. ASSUME NEW p \in Procs, OtherEnds(p) PROVE Inv'
  BY SMTT(30), <1>2 DEF OtherEnds, Vanish, caller, looper, Unique
<1>3. ASSUME NEW p \in Procs, Exit(p) PROVE Inv'
  BY SMTT(30), <1>3 DEF Exit, caller, looper, ghosts, Unique
<1>4. ASSUME NEW p \in Procs, ReapOrphan(p) PROVE Inv'
  BY SMTT(30), <1>4 DEF ReapOrphan, Vanish, caller, looper, Unique
<1>5. CASE Crash
  BY <1>5 DEF Crash, kernel, Unique
<1>6. QED
  BY <1>1, <1>2, <1>3, <1>4, <1>5 DEF Environment

\* The steps of Supervise until the loop starts.  Each of those that start it makes
\* sure that the process the PID file leads to is not running.
LEMMA CleanupStep == Inv /\ (Supervise \/ Cleanup) => Inv'
<1> SUFFICES ASSUME Inv, Supervise \/ Cleanup PROVE Inv'
  OBVIOUS
<1> USE NoneIsNothing DEF Inv, Types, Phases, Known, Mine, Spawning, Watching, Cleaning
<1>1. CASE Fail /\ UNCHANGED Unchecked
  BY <1>1, FailStep DEF Supervise, Cleanup, OpenPID, Check, Terminate, OpenPidfd, Poll
<1>2. CASE StartLoop /\ UNCHANGED Unchecked
  <2>1. call \in {"idle", "open"} \cup Cleaning /\ ~started
    BY DEF Supervise, Cleanup, OpenPID, Check, Terminate, OpenPidfd, Poll
  <2>2. Mine = {}
    <3>1. CASE Supervise
      BY SMTT(30), <1>2, <3>1 DEF Supervise, StartLoop, Fail, Unique
    <3>2. CASE OpenPID
      BY <1>2, <3>2 DEF OpenPID, StartLoop, Fail
    <3>3. CASE Check
      BY <1>2, <3>3 DEF Check, IsK0sManaged, StartLoop, Fail
    <3>4. CASE Terminate
      BY <1>2, <3>4 DEF Terminate, StartLoop, Fail
    <3>5. CASE OpenPidfd
      BY <1>2, <3>5 DEF OpenPidfd, StartLoop, Fail
    <3>6. CASE Poll
      BY <1>2, <3>6 DEF Poll, StartLoop, Fail
    <3>7. QED
      BY <3>1, <3>2, <3>3, <3>4, <3>5, <3>6 DEF Cleanup
  <2>3. QED
    BY <1>2, <2>1, <2>2, StartLoopStep
<1>3. CASE ~Fail /\ ~StartLoop
  <2> USE DEF Unique, Signalled, Waiters, Unchecked, kernel, looper, ghosts
  <2>1. CASE Supervise
    BY <1>3, <2>1 DEF Supervise
  <2>2. CASE OpenPID
    BY SMTT(30), <1>3, <2>2 DEF OpenPID
  <2>3. CASE Check
    BY SMTT(30), <1>3, <2>3 DEF Check, IsK0sManaged
  <2>4. CASE Terminate
    <3>1. term' = [term EXCEPT ![handle] = TRUE] /\ ours[handle] /\ call' = "await"
      BY <1>3, <2>4 DEF Terminate, Signal
    <3>2. UNCHANGED <<st, pid, ours, waiter, pidFile, target, handle, started, looper, ghosts>>
      BY <1>3, <2>4 DEF Terminate
    <3>3. call = "term"
      BY <2>4 DEF Terminate
    <3>4. QED
      BY <3>1, <3>2, <3>3
  <2>5. CASE OpenPidfd
    BY <1>3, <2>5 DEF OpenPidfd
  <2>6. CASE Poll
    BY <1>3, <2>6 DEF Poll
  <2>7. QED
    BY <2>1, <2>2, <2>3, <2>4, <2>5, <2>6 DEF Cleanup
<1>4. (Fail \/ StartLoop) => UNCHANGED Unchecked
  BY DEF Supervise, Cleanup, OpenPID, Check, Terminate, OpenPidfd, Poll, Fail, StartLoop, Signal,
         Unchecked, kernel, ghosts
<1>5. QED
  BY <1>1, <1>2, <1>3, <1>4

\* The steps of the waiters: the one that removes the PID file of somebody else is late,
\* and then the other process counts as lost.
LEMMA WaiterStep == ASSUME Inv, NEW p \in Procs, Waiter(p) PROVE Inv'
<1> USE DEF Inv, Types, caller, looper, Spawning, Watching, Cleaning
<1>1. CASE Reap(p)
  <2> USE <1>1 DEF Reap, Vanish
  <2>1. Types' /\ Phases'
    BY SMTT(30), NoneIsNothing DEF Phases
  <2>2. Unique' /\ Signalled'
    BY SMTT(30) DEF Unique, Signalled
  <2>3. Waiters'
    BY DEF Waiters
  <2>4. Known'
    BY DEF Known, Mine
  <2>5. QED
    BY <2>1, <2>2, <2>3, <2>4
<1>2. CASE RemovePidFile(p)
  <2> USE <1>2 DEF RemovePidFile, kernel
  <2>1. Types' /\ Phases'
    BY SMTT(30) DEF Phases
  <2>2. Unique' /\ Signalled'
    BY DEF Unique, Signalled
  <2>3. Waiters'
    BY DEF Waiters
  <2>4. Known'
    BY SMTT(30) DEF Known, Mine, Recorded, Waiters
  <2>5. QED
    BY <2>1, <2>2, <2>3, <2>4
<1>3. QED
  BY <1>1, <1>2 DEF Waiter

\* A process is supervised from now on: it is recorded, or lost.
LEMMA WaitStep ==
    ASSUME Inv, loop \in Spawning, Wait, UNCHANGED <<kernel, late>>,
           \/ pidFile' = pid[cmd] /\ UNCHANGED lost
           \/ lost' = lost \cup {cmd} /\ UNCHANGED pidFile
    PROVE  Inv'
<1> USE DEF Inv, Wait, kernel, Spawning, Watching, Cleaning
<1>1. cmd \in Procs
  BY DEF Phases
<1>2. Types'
  BY <1>1 DEF Types
<1>3. Phases'
  BY <1>1 DEF Types, Phases
<1>4. Unique' /\ Signalled' /\ Waiters'
  BY <1>1 DEF Types, Unique, Signalled, Waiters
<1>5. Known'
  BY <1>1 DEF Types, Phases, Known, Mine
<1>6. QED
  BY <1>2, <1>3, <1>4, <1>5

\* The loop goes on without or with its process, and nothing else happens.
LEMMA LoopMoves ==
    ASSUME Inv,
           \/ loop \in {"spawn", "sleep"} /\ loop' \in {"spawn", "sleep"}
           \/ loop \in Watching /\ loop' \in Watching,
           UNCHANGED <<kernel, waiter, pidFile, caller, cmd, first, stopping, deferred, ghosts>>
    PROVE  Inv'
<1> USE DEF Inv, kernel, caller, ghosts, Spawning, Watching, Cleaning
<1>1. Types'
  BY DEF Types
<1>2. Phases'
  BY DEF Phases
<1>3. Unique'
  BY DEF Unique
<1>4. Signalled'
  BY DEF Signalled
<1>5. Waiters'
  BY DEF Waiters
<1>6. Known'
  BY DEF Phases, Known, Mine
<1>7. QED
  BY <1>1, <1>2, <1>3, <1>4, <1>5, <1>6

\* The steps of the loop.
LEMMA LoopStep == Inv /\ Loop => Inv'
<1> SUFFICES ASSUME Inv, Loop PROVE Inv'
  OBVIOUS
<1> USE DEF Inv, Spawning, Watching, Cleaning
<1>1. CASE SpawnFails
  <2>1. CASE first
    <3>1. LoopReturns /\ UNCHANGED <<kernel, waiter, pidFile, ghosts>> /\ loop = "spawn"
      BY <1>1, <2>1 DEF SpawnFails
    <3>2. Mine = {} /\ \A p \in Procs : waiter[p] # "none" => p \in late
      BY <3>1 DEF Known, Waiters
    <3>3. QED
      BY <3>1, <3>2, LoopReturnsStep DEF kernel, ghosts, Types, Signalled
  <2>2. CASE ~first
    BY <1>1, <2>2, LoopMoves DEF SpawnFails
  <2>3. QED
    BY <2>1, <2>2
<1>2. ASSUME NEW p \in Procs, NEW n \in Pids, Spawn(p, n) PROVE Inv'
  <2>1. Unique'
    BY <1>2, FreshPid DEF Spawn
  <2>2. Types' /\ Phases' /\ Signalled' /\ Waiters'
    BY <1>2 DEF Spawn, Born, Forgotten, caller, ghosts, Types, Phases, Signalled, Waiters
  <2>3. Known'
    BY <1>2 DEF Spawn, Born, caller, ghosts, Types, Phases, Known, Mine
  <2>4. QED
    BY <2>1, <2>2, <2>3
<1>3. CASE Truncate
  <2>1. CASE Wait
    BY <1>3, <2>1, WaitStep DEF Truncate, Wait
  <2>2. CASE ~Wait
    <3>1. /\ loop = "truncate" /\ loop' = "write" /\ pidFile' = Garbled
          /\ UNCHANGED <<kernel, waiter, caller, cmd, first, stopping, deferred, late, lost>>
      BY <1>3, <2>2 DEF Truncate
    <3>2. Types' /\ Phases'
      BY <3>1 DEF kernel, caller, Types, Phases
    <3>3. Unique' /\ Signalled' /\ Waiters'
      BY <3>1 DEF kernel, caller, Unique, Signalled, Waiters
    <3>4. Known'
      BY <3>1 DEF kernel, caller, Phases, Known, Mine
    <3>5. QED
      BY <3>2, <3>3, <3>4
  <2>3. QED
    BY <2>1, <2>2
<1>4. CASE Write
  BY <1>4, WaitStep DEF Write
<1>5. CASE UnexpectedEnd
  <2>1. /\ loop = "wait" /\ loop' = "sleep" /\ cmd \in Procs /\ waiter[cmd] = "sent"
        /\ waiter' = [waiter EXCEPT ![cmd] = "none"]
        /\ UNCHANGED <<kernel, pidFile, caller, cmd, first, stopping, deferred, ghosts>>
    BY <1>5 DEF UnexpectedEnd, Receive, Phases
  <2>2. Types' /\ Phases'
    BY <2>1 DEF kernel, caller, Types, Phases
  <2>3. Unique' /\ Signalled' /\ Waiters'
    BY <2>1 DEF kernel, caller, ghosts, Types, Unique, Signalled, Waiters
  <2>4. Mine = {}
    BY <2>1 DEF Known, Waiters, Mine
  <2>5. Known'
    BY <2>1, <2>4 DEF kernel, caller, ghosts, Phases, Known, Mine
  <2>6. QED
    BY <2>2, <2>3, <2>5
<1>6. CASE WaitQuit \/ DeferTimeout
  BY <1>6, LoopMoves DEF WaitQuit, DeferTimeout
<1>7. ASSUME loop \in Watching, Leave, UNCHANGED <<kernel, pidFile>> PROVE Inv'
  <2>1. \A p \in Mine : pid[p] = pidFile
    BY <1>7 DEF Known
  <2>2. /\ waiter' \in [Procs -> {"none", "waiting", "reaped", "sent"}]
        /\ \A p \in Procs : waiter'[p] # "none" => p \in late' /\ waiter'[p] = waiter[p]
    BY <1>7 DEF Leave, Types, Phases, Waiters
  <2>3. \A p \in Procs : term'[p] => ours[p]
    BY <1>7 DEF kernel, Signalled
  <2>4. term' \in [Procs -> BOOLEAN]
    BY <1>7 DEF kernel, Types
  <2>5. QED
    BY <1>7, <2>1, <2>2, <2>3, <2>4, LoopReturnsStep DEF Leave, kernel
<1>8. CASE RequestTermination
  <2>1. CASE Leave
    BY <1>7, <1>8, <2>1 DEF RequestTermination, Signal, Leave, LoopReturns, kernel
  <2>2. CASE ~Leave
    <3>1. loop = "term" /\ loop' = "grace" /\ cmd \in Procs /\ ours[cmd]
      BY <1>8, <2>2 DEF RequestTermination, Phases, Signalled
    <3>2. term' = [term EXCEPT ![cmd] = TRUE]
      BY <1>8, <2>2 DEF RequestTermination, Signal
    <3>3. /\ UNCHANGED <<st, pid, ours, waiter, pidFile, cmd, first, stopping, deferred>>
          /\ UNCHANGED <<call, target, handle, started, late, lost>>
      BY <1>8, <2>2 DEF RequestTermination, caller, ghosts
    <3>4. QED
      <4>1. Types' /\ Phases'
        BY <3>1, <3>2, <3>3 DEF Types, Phases
      <4>2. Unique' /\ Signalled' /\ Waiters'
        BY <3>1, <3>2, <3>3 DEF Types, Unique, Signalled, Waiters
      <4>3. Known'
        BY <3>1, <3>2, <3>3 DEF Known, Mine
      <4>4. QED
        BY <4>1, <4>2, <4>3
  <2>3. QED
    BY <2>1, <2>2
<1>9. CASE Stopped \/ GraceTimeout
  BY <1>7, <1>9 DEF Stopped, GraceTimeout
<1>10. CASE Respawn
  <2>1. CASE LoopReturns
    <3>1. Mine = {} /\ \A p \in Procs : waiter[p] # "none" => p \in late
      BY <1>10 DEF Respawn, Known, Waiters
    <3>2. UNCHANGED <<kernel, waiter, pidFile, ghosts>>
      BY <1>10 DEF Respawn
    <3>3. QED
      BY <1>10, <2>1, <3>1, <3>2, LoopReturnsStep DEF Respawn, kernel, ghosts, Types, Signalled
  <2>2. CASE ~LoopReturns
    BY <1>10, <2>2, LoopMoves DEF Respawn
  <2>3. QED
    BY <2>1, <2>2
<1>11. QED
  BY <1>1, <1>2, <1>3, <1>4, <1>5, <1>6, <1>8, <1>9, <1>10 DEF Loop

\* Every step keeps the invariant.
LEMMA InvNext == Inv /\ [Next]_vars => Inv'
<1> SUFFICES ASSUME Inv, [Next]_vars PROVE Inv'
  OBVIOUS
<1>1. CASE StopWith
  <2> USE <1>1 DEF StopWith, kernel, ghosts, Inv, Spawning, Watching, Cleaning
  <2>1. Types' /\ Phases'
    BY DEF Types, Phases
  <2>2. Unique' /\ Signalled' /\ Waiters'
    BY DEF Unique, Signalled, Waiters
  <2>3. Known'
    BY DEF Phases, Known, Mine
  <2>4. QED
    BY <2>1, <2>2, <2>3
<1>2. CASE UNCHANGED vars
  <2> USE <1>2 DEF vars, kernel, caller, looper, ghosts, Inv
  <2>1. Types'
    BY DEF Types
  <2>2. Phases'
    BY DEF Phases
  <2>3. Unique' /\ Signalled' /\ Waiters'
    BY DEF Unique, Signalled, Waiters
  <2>4. Known'
    BY DEF Known, Mine
  <2>5. QED
    BY <2>1, <2>2, <2>3, <2>4
<1>3. QED
  BY <1>1, <1>2, EnvironmentStep, CleanupStep, LoopStep, WaiterStep DEF Next

\* The invariant holds of every behaviour.
LEMMA Invariance == Spec => []Inv
BY InvInit, InvNext, PTL DEF Spec

\* The types, and that the loop runs exactly while the supervisor is started or starting.
THEOREM TypeCorrect == Spec => []TypeOK
<1>1. Inv => TypeOK
  BY DEF Inv, Types, Phases, Unique, Spawning, Watching, Cleaning, TypeOK
<1>2. QED
  BY <1>1, Invariance, PTL

\* SIGTERM never reaches a process other than a supervised one, whatever PIDs are recycled
\* and whatever a stale PID file has.
THEOREM OthersAreUntouched == Spec => []OthersUntouched
<1>1. Inv => OthersUntouched
  BY DEF Inv, Signalled, OthersUntouched
<1>2. QED
  BY <1>1, Invariance, PTL

\* There is at most one supervised process, over stops, restarts and crashes, apart from
\* those that the PID file has lost.
THEOREM OneProcess == Spec => []AtMostOne
<1>1. Inv => AtMostOne
  <2> SUFFICES ASSUME Inv, NEW p \in Mine, NEW q \in Mine PROVE p = q
    BY DEF AtMostOne, Running, Mine
  <2>1. CASE loop # "off"
    BY <2>1 DEF Inv, Types, Known, Spawning, Watching
  <2>2. CASE loop = "off"
    <3>1. pid[p] = pid[q] \/ p = q
      BY SMTT(30), <2>2 DEF Inv, Types, Phases, Known, Cleaning
    <3>2. QED
      BY <3>1 DEF Inv, Unique, Mine
  <2>3. QED
    BY <2>1, <2>2
<1>2. QED
  BY <1>1, Invariance, PTL

\* The PID file has the PID of the process that is being supervised, unless lost.
THEOREM PidFileCurrent == Spec => []PidFileIsCurrent
<1>1. Inv => PidFileIsCurrent
  <2> SUFFICES ASSUME Inv, loop = "wait", Running(cmd), cmd \notin lost PROVE pidFile = pid[cmd]
    BY DEF PidFileIsCurrent
  <2>1. cmd \in Procs /\ st[cmd] = "running" /\ ours[cmd]
    BY NoneIsNothing DEF Inv, Phases, Signalled, Running, Spawning, Watching
  <2>2. QED
    BY <2>1 DEF Inv, Known, Mine, Watching
<1>2. QED
  BY <1>1, Invariance, PTL

\* The supervisor signals no other process, runs no two of its own and has the PID of
\* the one that runs in its file (supervisor.go), for any number of processes, PIDs,
\* faults and crashes.
THEOREM TheProcessIsKnown == Spec => []ProcessIsKnown
BY OthersAreUntouched, OneProcess, PidFileCurrent, PTL DEF ProcessIsKnown
=============================================================================
