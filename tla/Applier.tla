------------------------------- MODULE Applier -------------------------------
(***************************************************************************)
(* The manifest deployer: every directory under the manifests directory is *)
(* a stack, whose manifests the leading controller applies to the cluster  *)
(* and whose objects it prunes when they are no longer in the manifests.   *)
(*                                                                         *)
(* Manager.runWatchers is one goroutine that follows the directories; each *)
(* stack has a goroutine of its own that follows its files, applies them,  *)
(* and tries again a few times.  An apply is not atomic: it reads the      *)
(* files, then writes object by object, then looks for objects that carry  *)
(* the name of the stack, then deletes one after the other.                *)
(*                                                                         *)
(* The manifests of a stack are a function from the objects in them to     *)
(* their contents.  The checksum and the last applied configuration are    *)
(* the content.  An object is read and written in one step: when another   *)
(* writer comes in between, the write fails or acts on what is there then. *)
(***************************************************************************)
EXTENDS Integers, Sequences, FiniteSets

CONSTANTS
    None,
    Stacks,
    Objects,
    ClusterScoped, \* the objects that have no namespace
    Needs,         \* the CRD that an object is an instance of, or None
    Manifests,     \* what the manifests of each stack may be
    MaxAttempts,   \* bound: attempts of an apply
    MaxEdits,      \* bound: changes in the manifests directory
    MaxTrouble     \* bound: failures and changes of leadership

Empty == [o \in {} |-> 0]

ASSUME ApplierAssumption ==
    /\ ClusterScoped \subseteq Objects
    /\ Needs \in [Objects -> Objects \cup {None}]
    /\ None \notin Objects /\ None \notin Stacks
    /\ \A s \in Stacks : \A m \in Manifests[s] : DOMAIN m \subseteq Objects
    /\ MaxAttempts \in Nat \ {0} /\ MaxEdits \in Nat /\ MaxTrouble \in Nat

VARIABLES
    disk,     \* the manifests of each stack, or None if it has no directory
    cluster,  \* the objects in the API server: None, or content, stack label, and
              \* whether the object is being deleted
    leading,
    session,  \* runWatchers: "off", "listing" the directories, "on", or "ending"
    events,   \* of the watcher on the manifests directory
    removing, \* the stack that removeStack is busy with, or None
    pc,       \* where the goroutine of each stack is
    w,        \* its watcher and its context
    want, todo, keep, failed, victims, doomed, \* its apply: the manifests as they
              \* were read, the objects still to be applied, those to be kept,
              \* whether something has failed, the objects to be pruned, and those
              \* that were found while they were being deleted, in any attempt
    forgotten, \* stacks whose leftovers nobody is going to look for
    used      \* how much of the bounds is used up

job == <<want, todo, keep, failed, victims, doomed>>
vars == <<disk, cluster, leading, session, events, removing, pc, w, job, forgotten, used>>

Phases == {"off", "start", "idle", "read", "apply", "find", "delete"}

\* A goroutine that is not there.
NoFlags == [watching |-> FALSE, armed |-> FALSE, trigger |-> FALSE,
            cancelled |-> FALSE, deleting |-> FALSE, attempt |-> 0]

\* The goroutine is there no more, or starts over.
Reset(s) ==
    /\ want' = [want EXCEPT ![s] = Empty]
    /\ todo' = [todo EXCEPT ![s] = {}]
    /\ keep' = [keep EXCEPT ![s] = {}]
    /\ failed' = [failed EXCEPT ![s] = FALSE]
    /\ victims' = [victims EXCEPT ![s] = {}]
    /\ doomed' = [doomed EXCEPT ![s] = {}]

Trouble ==
    /\ used.trouble < MaxTrouble
    /\ used' = [used EXCEPT !.trouble = @ + 1]

-----------------------------------------------------------------------------
(* The surroundings *)

\* A change of a file restarts the timer of the stack's watcher.
Notify(s) == w' = [w EXCEPT ![s].armed = @ \/ w[s].watching]

Announce(op, s) ==
    events' = IF session = "off" THEN events ELSE Append(events, [op |-> op, stack |-> s])

\* Object o is being deleted, itself or with its CRD.
Going(o) == \E p \in {o, Needs[o]} \cap Objects : cluster[p] # None /\ cluster[p].going

\* The API server is done with the deletion of o.  The instances of a CRD go with it.
Vanish(o) ==
    /\ cluster[o] # None /\ cluster[o].going
    /\ cluster' = [p \in Objects |-> IF p = o \/ Needs[p] = o THEN None ELSE cluster[p]]
    /\ UNCHANGED <<disk, leading, session, events, removing, pc, w, job, forgotten, used>>

\* Somebody writes manifests, into a new directory if there is none.
WriteManifests(s, m) ==
    /\ used.edits < MaxEdits
    /\ used' = [used EXCEPT !.edits = @ + 1]
    /\ m # disk[s]
    /\ disk' = [disk EXCEPT ![s] = m]
    /\ IF disk[s] = None
       THEN Announce("create", s) /\ UNCHANGED w
       ELSE Notify(s) /\ UNCHANGED events
    /\ UNCHANGED <<cluster, leading, session, removing, pc, job, forgotten>>

\* Somebody removes the directory.  If nobody watches, nobody will know.
RemoveDirectory(s) ==
    /\ used.edits < MaxEdits
    /\ used' = [used EXCEPT !.edits = @ + 1]
    /\ disk[s] # None
    /\ disk' = [disk EXCEPT ![s] = None]
    /\ Announce("remove", s)
    /\ w' = [w EXCEPT ![s].armed = @ \/ w[s].watching, ![s].watching = FALSE]
    /\ forgotten' = IF session = "on" THEN forgotten ELSE forgotten \cup {s}
    /\ UNCHANGED <<cluster, leading, session, removing, pc, job>>

-----------------------------------------------------------------------------
(* Manager.Start and runWatchers *)

\* The context of the watch loop is done: so are those of the stacks.  The events
\* that are left, and a removal that is under way, come to nothing.
EndSession ==
    /\ session' = IF session = "off" THEN "off" ELSE "ending"
    /\ w' = [s \in Stacks |-> [w[s] EXCEPT !.cancelled = pc[s] # "off"]]
    /\ forgotten' = forgotten
          \cup {events[i].stack : i \in {j \in 1..Len(events) : events[j].op = "remove"}}
          \cup ({removing} \ {None})

LeadChanges ==
    /\ Trouble
    /\ leading' = ~leading
    /\ IF leading THEN EndSession ELSE UNCHANGED <<session, w, forgotten>>
    /\ UNCHANGED <<disk, cluster, events, removing, pc, job>>

\* An error of the watcher ends the watch loop, too.
WatcherError ==
    /\ session = "on"
    /\ Trouble
    /\ EndSession
    /\ UNCHANGED <<disk, cluster, leading, events, removing, pc, job>>

\* createStack, unless the stack is there already.
CreateStack(s) ==
    IF pc[s] = "off" THEN "start" ELSE pc[s]

\* The manifests directory is watched first, and listed then.
StartSession ==
    /\ leading
    /\ session = "off"
    /\ session' = "listing"
    /\ UNCHANGED <<disk, cluster, leading, events, removing, pc, w, job, forgotten, used>>

ListDirectories ==
    /\ session = "listing"
    /\ \/ /\ session' = "on"
          /\ pc' = [s \in Stacks |-> IF disk[s] # None THEN CreateStack(s) ELSE pc[s]]
          /\ UNCHANGED <<events, used>>
       \/ /\ Trouble
          /\ session' = "off"
          /\ events' = <<>>
          /\ UNCHANGED pc
    /\ UNCHANGED <<disk, cluster, leading, removing, w, job, forgotten>>

\* The watch loop returns when all stacks have stopped; it runs again a minute
\* later, or as soon as this controller leads again.
FinishSession ==
    /\ session = "ending"
    /\ removing = None
    /\ \A s \in Stacks : pc[s] = "off"
    /\ session' = "off"
    /\ events' = <<>>
    /\ UNCHANGED <<disk, cluster, leading, removing, pc, w, job, forgotten, used>>

HandleEvent ==
    /\ session = "on"
    /\ removing = None
    /\ events # <<>>
    /\ events' = Tail(events)
    /\ LET s == Head(events).stack
       IN  IF Head(events).op = "create"
           THEN /\ pc' = IF disk[s] # None THEN [pc EXCEPT ![s] = CreateStack(s)] ELSE pc
                /\ UNCHANGED <<w, removing>>
           ELSE IF pc[s] = "off"
           THEN UNCHANGED <<pc, w, removing>>
           ELSE /\ removing' = s
                /\ w' = [w EXCEPT ![s].cancelled = TRUE]
                /\ UNCHANGED pc
    /\ UNCHANGED <<disk, cluster, leading, session, job, forgotten, used>>

\* removeStack: once the goroutine has stopped, the stack is applied without any
\* resources.
BeginDelete ==
    /\ removing # None
    /\ pc[removing] = "off"
    /\ IF session = "on"
       THEN /\ pc' = [pc EXCEPT ![removing] = "find"]
            /\ w' = [w EXCEPT ![removing].deleting = TRUE]
            /\ UNCHANGED removing
       ELSE removing' = None /\ UNCHANGED <<pc, w>>
    /\ UNCHANGED <<disk, cluster, leading, session, events, job, forgotten, used>>

-----------------------------------------------------------------------------
(* The goroutine of a stack: StackApplier *)

\* Run: watch the files; the timer starts right away.  While there is no directory
\* this fails, and is tried again a minute later.
Run(s) ==
    /\ pc[s] = "start" /\ ~w[s].cancelled
    /\ disk[s] # None
    /\ pc' = [pc EXCEPT ![s] = "idle"]
    /\ w' = [w EXCEPT ![s].watching = TRUE, ![s].armed = TRUE]
    /\ UNCHANGED <<disk, cluster, leading, session, events, removing, job, forgotten, used>>

\* The timer of runWatcher: one second without changes.
Debounce(s) ==
    /\ w[s].armed
    /\ w' = [w EXCEPT ![s].armed = FALSE, ![s].trigger = TRUE]
    /\ UNCHANGED <<disk, cluster, leading, session, events, removing, pc, job, forgotten, used>>

\* The watcher of the stack fails: Run returns, and is called again.
StackWatcherError(s) ==
    /\ pc[s] = "idle"
    /\ Trouble
    /\ pc' = [pc EXCEPT ![s] = "start"]
    /\ w' = [w EXCEPT ![s] = [NoFlags EXCEPT !.cancelled = w[s].cancelled]]
    /\ Reset(s)
    /\ UNCHANGED <<disk, cluster, leading, session, events, removing, forgotten>>

BeginApply(s) ==
    /\ pc[s] = "idle" /\ ~w[s].cancelled
    /\ w[s].trigger
    /\ pc' = [pc EXCEPT ![s] = "read"]
    /\ w' = [w EXCEPT ![s].trigger = FALSE, ![s].attempt = 1]
    /\ doomed' = [doomed EXCEPT ![s] = {}]
    /\ UNCHANGED <<disk, cluster, leading, session, events, removing>>
    /\ UNCHANGED <<want, todo, keep, failed, victims, forgotten, used>>

\* The goroutine, or the deletion of the stack, is over.
Over(s) ==
    /\ pc' = [pc EXCEPT ![s] = "off"]
    /\ w' = [w EXCEPT ![s] = NoFlags]
    /\ Reset(s)

\* Wrong on purpose: a failed apply is not tried again.
AttemptFailedOnce(s) ==
    IF w[s].deleting
    THEN Over(s) /\ removing' = None /\ forgotten' = forgotten \cup {s}
    ELSE /\ pc' = [pc EXCEPT ![s] = "idle"]
         /\ w' = [w EXCEPT ![s].attempt = 0]
         /\ UNCHANGED <<job, removing, forgotten>>

\* The removed stack is deleted once; what is left of it stays.  An apply is tried
\* again after a while, but not forever.
AttemptFailed(s) ==
    IF w[s].deleting
    THEN Over(s) /\ removing' = None /\ forgotten' = forgotten \cup {s}
    ELSE /\ pc' = [pc EXCEPT ![s] = IF w[s].attempt < MaxAttempts THEN "read" ELSE "idle"]
         /\ w' = [w EXCEPT ![s].attempt = IF @ < MaxAttempts THEN @ + 1 ELSE 0]
         /\ UNCHANGED <<job, removing, forgotten>>

\* Applier.Apply reads and parses the manifests.
Read(s) ==
    /\ pc[s] = "read" /\ ~w[s].cancelled
    /\ IF disk[s] = None
       THEN AttemptFailed(s) /\ UNCHANGED used
       ELSE \/ /\ pc' = [pc EXCEPT ![s] = "apply"]
               /\ want' = [want EXCEPT ![s] = disk[s]]
               /\ todo' = [todo EXCEPT ![s] = DOMAIN disk[s]]
               /\ keep' = [keep EXCEPT ![s] = {}]
               /\ failed' = [failed EXCEPT ![s] = FALSE]
               /\ victims' = [victims EXCEPT ![s] = {}]
               /\ UNCHANGED <<w, removing, doomed, forgotten, used>>
            \/ Trouble /\ AttemptFailed(s)
    /\ UNCHANGED <<disk, cluster, leading, session, events>>

\* Objects without a namespace come first.
First(objects, o) == o \in ClusterScoped \/ objects \cap ClusterScoped = {}

Prepared(s, o) == [content |-> want[s][o], stack |-> s, going |-> Going(o)]

\* An object has no mapping without its CRD, and cannot be created while that is
\* being deleted.
Creatable(o) == Needs[o] # None => cluster[Needs[o]] # None /\ ~Going(Needs[o])

\* Stack.Apply creates or updates an object.  One that is being deleted is taken as
\* it is, or patched, and goes nevertheless.
Put(s, o) ==
    /\ pc[s] = "apply"
    /\ o \in todo[s] /\ First(todo[s], o)
    /\ todo' = [todo EXCEPT ![s] = @ \ {o}]
    /\ doomed' = IF Going(o) THEN [doomed EXCEPT ![s] = @ \cup {o}] ELSE doomed
    /\ IF cluster[o] = None /\ ~Creatable(o)
       THEN /\ failed' = [failed EXCEPT ![s] = TRUE]
            /\ UNCHANGED <<cluster, keep, used>>
       ELSE \/ /\ cluster' = [cluster EXCEPT ![o] = Prepared(s, o)]
               /\ keep' = [keep EXCEPT ![s] = @ \cup {o}]
               /\ UNCHANGED <<failed, used>>
            \/ /\ Trouble
               /\ failed' = [failed EXCEPT ![s] = TRUE]
               /\ UNCHANGED <<cluster, keep>>
    /\ UNCHANGED <<disk, leading, session, events, removing, pc, w, want, victims, forgotten>>

\* Wrong on purpose: pruning goes ahead although objects could not be applied.
EndPutsAnyway(s) ==
    /\ pc[s] = "apply"
    /\ todo[s] = {}
    /\ pc' = [pc EXCEPT ![s] = "find"]
    /\ UNCHANGED <<disk, cluster, leading, session, events, removing, w, job, forgotten, used>>

\* Only when everything has been applied, Stack.prune is called.
EndPuts(s) ==
    /\ pc[s] = "apply"
    /\ todo[s] = {}
    /\ IF failed[s]
       THEN AttemptFailed(s)
       ELSE pc' = [pc EXCEPT ![s] = "find"] /\ UNCHANGED <<w, job, removing, forgotten>>
    /\ UNCHANGED <<disk, cluster, leading, session, events, used>>

\* The objects that carry the name of the stack and are not to be kept.
Pruneable(s) ==
    {o \in Objects : o \notin keep[s] /\ (IF cluster[o] = None THEN FALSE ELSE cluster[o].stack = s)}

Found(s, objects) ==
    /\ pc' = [pc EXCEPT ![s] = "delete"]
    /\ victims' = [victims EXCEPT ![s] = objects]
    /\ UNCHANGED <<w, want, todo, keep, failed, doomed, removing>>

\* findPruneableResources: an error of the discovery is an error, but a list that
\* cannot be had counts as empty.
Find(s) ==
    /\ pc[s] = "find"
    /\ \/ Found(s, Pruneable(s)) /\ UNCHANGED <<forgotten, used>>
       \/ /\ Trouble
          /\ \E missing \in SUBSET Pruneable(s) : missing # {} /\ Found(s, Pruneable(s) \ missing)
          /\ forgotten' = forgotten \cup {s}
       \/ Trouble /\ AttemptFailed(s)
    /\ UNCHANGED <<disk, cluster, leading, session, events>>

\* Objects with a namespace go first.
Last(objects, o) == o \notin ClusterScoped \/ objects \subseteq ClusterScoped

\* deleteResource, by name, with foreground propagation: the object is there until
\* the API server has deleted what belongs to it.
Delete(s, o) ==
    /\ pc[s] = "delete"
    /\ o \in victims[s] /\ Last(victims[s], o)
    /\ \/ /\ cluster' = IF cluster[o] = None THEN cluster ELSE [cluster EXCEPT ![o].going = TRUE]
          /\ victims' = [victims EXCEPT ![s] = @ \ {o}]
          /\ UNCHANGED <<pc, w, want, todo, keep, failed, doomed, removing, forgotten, used>>
       \/ /\ Trouble
          /\ AttemptFailed(s)
          /\ UNCHANGED cluster
    /\ UNCHANGED <<disk, leading, session, events>>

Finish(s) ==
    /\ pc[s] = "delete"
    /\ victims[s] = {}
    /\ IF w[s].deleting
       THEN Over(s) /\ removing' = None
       ELSE /\ pc' = [pc EXCEPT ![s] = "idle"]
            /\ w' = [w EXCEPT ![s].attempt = 0]
            /\ UNCHANGED <<job, removing>>
    /\ UNCHANGED <<disk, cluster, leading, session, events, forgotten, used>>

\* The context of the stack is done, and its goroutine, or its deletion, returns.
Stop(s) ==
    /\ w[s].cancelled
    /\ Over(s)
    /\ removing' = IF w[s].deleting THEN None ELSE removing
    /\ UNCHANGED <<disk, cluster, leading, session, events, forgotten, used>>

-----------------------------------------------------------------------------
Init ==
    /\ disk \in [Stacks -> {None} \cup UNION {Manifests[s] : s \in Stacks}]
    /\ \A s \in Stacks : disk[s] \in Manifests[s] \cup {None}
    /\ cluster = [o \in Objects |-> None]
    /\ leading \in BOOLEAN
    /\ session = "off" /\ events = <<>> /\ removing = None
    /\ pc = [s \in Stacks |-> "off"]
    /\ w = [s \in Stacks |-> NoFlags]
    /\ want = [s \in Stacks |-> Empty]
    /\ todo = [s \in Stacks |-> {}]
    /\ keep = [s \in Stacks |-> {}]
    /\ failed = [s \in Stacks |-> FALSE]
    /\ victims = [s \in Stacks |-> {}]
    /\ doomed = [s \in Stacks |-> {}]
    /\ forgotten = {}
    /\ used = [edits |-> 0, trouble |-> 0]

Environment ==
    \/ \E s \in Stacks : RemoveDirectory(s) \/ \E m \in Manifests[s] : WriteManifests(s, m)
    \/ LeadChanges \/ WatcherError
    \/ \E s \in Stacks : StackWatcherError(s)

Deletion == \E o \in Objects : Vanish(o)

WatchLoop == StartSession \/ ListDirectories \/ FinishSession \/ HandleEvent \/ BeginDelete

Apply(s) ==
    \/ Run(s) \/ BeginApply(s) \/ Read(s) \/ EndPuts(s) \/ Find(s) \/ Finish(s)
    \/ \E o \in Objects : Put(s, o) \/ Delete(s, o)

Next ==
    \/ Environment
    \/ WatchLoop
    \/ Deletion
    \/ \E s \in Stacks : Apply(s) \/ Debounce(s) \/ Stop(s)

Spec == Init /\ [][Next]_vars

\* The goroutines run, timers fire, a cancelled context is noticed, and the API
\* server deletes what it was told to.  Nothing is assumed of files, failures and
\* leadership.
FairSpec ==
    /\ Spec
    /\ WF_vars(WatchLoop) /\ WF_vars(Deletion)
    /\ \A s \in Stacks : WF_vars(Apply(s)) /\ WF_vars(Debounce(s)) /\ WF_vars(Stop(s))

-----------------------------------------------------------------------------
(* Properties *)

\* Every variable has its type; in particular every object that the deployer writes
\* carries the name of its stack, by which it is found again.
TypeOK ==
    /\ DOMAIN disk = Stacks
    /\ \A o \in Objects : cluster[o] # None => cluster[o].stack \in Stacks
    /\ leading \in BOOLEAN
    /\ session \in {"off", "listing", "on", "ending"}
    /\ removing \in Stacks \cup {None}
    /\ \A s \in Stacks :
         /\ pc[s] \in Phases
         /\ keep[s] \subseteq Objects /\ victims[s] \subseteq Objects
         /\ todo[s] \subseteq DOMAIN want[s]
         /\ w[s].attempt \in 0..MaxAttempts
    /\ forgotten \subseteq Stacks

\* Pruning never touches an object that is in the manifests as they were read: not
\* even when some of the objects could not be applied (Stack.Apply, Stack.prune).
PruneSparesManifests ==
    \A s \in Stacks : pc[s] = "delete" => victims[s] \cap DOMAIN want[s] = {}

\* Object o is in the cluster to stay, as it is in the manifests of stack s.
Deployed(s, o) == cluster[o] = [content |-> disk[s][o], stack |-> s, going |-> FALSE]

\* Objects that stack s was applied with last while they, or their CRDs, were still
\* being deleted.
Overtaken(s) == {o \in Objects : {o, Needs[o]} \cap doomed[s] # {}}

\* If this controller leads from some time on, the objects of all manifests get
\* deployed as they are in the files, whatever happened before.  Excepted are those
\* that were applied last when they, or their CRD, were still being deleted.
ManifestsGetDeployed ==
    <>[]leading =>
        <>[](\A s \in Stacks : disk[s] # None => \A o \in DOMAIN disk[s] \ Overtaken(s) : Deployed(s, o))

\* They get deployed also when they are removed and added again before they are
\* gone.  They do not: a terminating object with the same checksum is taken for up
\* to date, is kept by the prune, and disappears.
ReaddedObjectsStay ==
    <>[]leading =>
        <>[](\A s \in Stacks : disk[s] # None => \A o \in DOMAIN disk[s] : Deployed(s, o))

\* Nothing else carries the name of stack s.
Pruned(s) ==
    \A o \in Objects :
        (IF cluster[o] = None THEN FALSE ELSE cluster[o].stack = s)
            => (IF disk[s] = None THEN FALSE ELSE o \in DOMAIN disk[s])

\* Likewise, objects disappear that are in the manifests no more, or whose directory
\* is gone.  Excepted are stacks whose directory was removed while nobody watched,
\* whose deletion failed, or whose objects could not be listed, and, as nothing is
\* pruned before all is applied, stacks with an object that could not be created
\* as long as its CRD was being deleted.
LeftoversGetPruned ==
    <>[]leading =>
        <>[](\A s \in Stacks \ forgotten :
                (disk[s] = None \/ DOMAIN disk[s] \cap Overtaken(s) = {}) => Pruned(s))

\* No object is in the manifests of two stacks.
Disjoint ==
    \A s, t \in Stacks :
        s # t /\ disk[s] # None /\ disk[t] # None => DOMAIN disk[s] \cap DOMAIN disk[t] = {}

\* If no two stacks have an object at the same time, the objects of all manifests
\* exist in the end, also when they are moved from one stack to another.
MovedObjectsExist ==
    (<>[]leading /\ []Disjoint)
        => <>[](\A s \in Stacks : disk[s] # None => \A o \in DOMAIN disk[s] : cluster[o] # None)

\* With a steady leader the cluster converges to the manifests: what they have gets
\* deployed, unless it is added again while it is being deleted, and what they have
\* no more disappears (pkg/applier).
StacksConverge == []TypeOK /\ ManifestsGetDeployed /\ LeftoversGetPruned
=============================================================================
