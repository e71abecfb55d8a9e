--------------------------- MODULE HostOperations ---------------------------
(***************************************************************************)
(* The commands an operator runs on one controller host: k0s install, k0s  *)
(* start and k0s stop (pkg/install, cmd/install, cmd/start, cmd/stop),     *)
(* k0s reset (pkg/uninstall, pkg/cleanup), k0s backup and k0s restore      *)
(* (internal/backup), next to the k0s process that holds the lock of the   *)
(* runtime configuration (pkg/config/runtime.go).                          *)
(*                                                                         *)
(* The data directory is the function hoDisk from its parts to sets of     *)
(* files: a file is a pair of a name and a version, and copying a directory *)
(* onto another merges the two.  A mount is a pair of a path and the       *)
(* volume behind it; hoTable is /proc/mounts, in the order of mounting.    *)
(***************************************************************************)
EXTENDS Naturals, Sequences, FiniteSets, FiniteSetsExt

CONSTANTS
  Tables,       \* the mount tables a reset may meet
  Storages,     \* the kinds of storage: "etcd", "kine"
  MaxWrites,    \* writes of the running cluster
  MaxCommands,  \* commands of the operator
  MaxHitches    \* system calls and programs that fail

ASSUME HostAssumption ==
  /\ MaxWrites \in Nat /\ MaxCommands \in Nat /\ MaxHitches \in Nat
  /\ Storages \subseteq {"etcd", "kine"}
  /\ \A t \in Tables : t \in Seq(Range(t))

VARIABLES
  hoSetup,     \* the storage, and whether the kubelet's root directory lies
               \* outside of the data directory
  hoServices,  \* the roles installed as a service
  hoLocked,    \* TRUE while a k0s process holds the lock
  hoDisk,      \* the files of each part of the data directory
  hoTable,     \* the mount table
  hoVolumes,   \* the volumes whose data is untouched
  hoCmd,       \* the command being run: what it does next and what it knows
  hoArchive,   \* what the last archive holds, and whether it is cut off (span:
               \* history, the files there were while it was made)
  hoSpan,      \* history: the files there were since the backup began
  hoIntruded,  \* history: k0s has once been running during a reset or a restore
  hoBudget     \* what is left of the bounds

hoVars == <<hoSetup, hoServices, hoLocked, hoDisk, hoTable, hoVolumes, hoCmd,
            hoArchive, hoSpan, hoIntruded, hoBudget>>

----------------------------------------------------------------------------
(* The parts of the data directory, in the order of discoverSteps. *)
DiscoverSteps == <<"db", "pki", "manifests", "images", "helm", "config">>

DiskParts == Range(DiscoverSteps)

EmptyDisk == [p \in DiskParts |-> {}]

NoArchive == [made |-> FALSE, disk |-> EmptyDisk, span |-> EmptyDisk,
              storage |-> "etcd", cut |-> FALSE]

(* Of a command: its next step, whether it met an error, the mounts or the *)
(* files it has listed, and whether a service stayed without an error      *)
(* (history).                                                              *)
NoCommand == [op |-> "none", at |-> 0, ok |-> TRUE, list |-> <<>>,
              files |-> EmptyDisk, silent |-> FALSE]

Roles == {"controller", "worker"}

(* What fails here, and what does not. *)
HoHitch ==
  /\ hoBudget.hitches > 0
  /\ hoBudget' = [hoBudget EXCEPT !.hitches = @ - 1]

HoFine == UNCHANGED hoBudget

(* The operator gives the next command. *)
Commands ==
  /\ hoCmd = NoCommand
  /\ hoBudget.commands > 0
  /\ hoBudget' = [hoBudget EXCEPT !.commands = @ - 1]

(* The command goes on with its step n. *)
GoesOn(n) == hoCmd' = [hoCmd EXCEPT !.at = n]

(* The command returns: with an error, or without. *)
Returns(ok) == hoCmd' = [hoCmd EXCEPT !.at = 99, !.ok = @ /\ ok]

----------------------------------------------------------------------------
(* k0s install: the service of the role is registered; one that is there   *)
(* already is an error, and with --force it is uninstalled first.          *)
InstallService ==
  /\ Commands
  /\ \E r \in Roles : hoServices' = hoServices \cup {r}
  /\ UNCHANGED <<hoSetup, hoLocked, hoDisk, hoTable, hoVolumes, hoCmd,
                 hoArchive, hoSpan, hoIntruded>>

(* The process takes the lock before it does anything else (tryLock in     *)
(* NewRuntimeConfig) and creates what is missing in the data directory; a  *)
(* worker's kubelet mounts the volumes of its pods.                        *)
NewRuntimeConfig ==
  /\ ~hoLocked
  /\ hoLocked' = TRUE
  /\ hoDisk' = [p \in DiskParts |->
                  IF p # "images" /\ hoDisk[p] = {} THEN {<<p, 1>>}
                  ELSE hoDisk[p]]
  /\ \E t \in Tables :
       /\ hoTable = <<>> => hoTable' = t
       /\ hoTable # <<>> => hoTable' = hoTable
  /\ hoVolumes' = IF hoTable = <<>> THEN {m[2] : m \in Range(hoTable')}
                  ELSE hoVolumes
  /\ hoIntruded' = (hoIntruded \/ hoCmd.op \in {"reset", "restore"})

(* k0s start, or the init system after a crash: the first of the installed *)
(* services is started (InstalledService); the operator may do so while    *)
(* another command is running.                                             *)
StartInstalledService ==
  /\ hoServices # {}
  /\ hoBudget.commands > 0
  /\ hoBudget' = [hoBudget EXCEPT !.commands = @ - 1]
  /\ NewRuntimeConfig
  /\ UNCHANGED <<hoSetup, hoServices, hoCmd, hoArchive, hoSpan>>

(* k0s stop, or a crash: the operating system releases the lock, the       *)
(* containers and their mounts stay (KillMode=process).                    *)
StopService ==
  /\ hoLocked
  /\ hoLocked' = FALSE
  /\ UNCHANGED <<hoSetup, hoServices, hoDisk, hoTable, hoVolumes, hoCmd,
                 hoArchive, hoSpan, hoIntruded, hoBudget>>

(* The running cluster writes: the database, a manifest, a certificate.    *)
ClusterWrites ==
  /\ hoLocked
  /\ hoBudget.writes > 0
  /\ hoBudget' = [hoBudget EXCEPT !.writes = @ - 1]
  /\ \E p \in {"db", "manifests"} :
       hoDisk' = [hoDisk EXCEPT ![p] = {<<p, MaxWrites + 2 - hoBudget.writes>>}]
  /\ hoSpan' = IF hoCmd.op = "backup"
               THEN [p \in DiskParts |-> hoSpan[p] \cup hoDisk'[p]] ELSE hoSpan
  /\ UNCHANGED <<hoSetup, hoServices, hoLocked, hoTable, hoVolumes, hoCmd,
                 hoArchive, hoIntruded>>

----------------------------------------------------------------------------
(* k0s reset: nothing is done while the lock is held.  The lock is not     *)
(* taken: k0s may be started again at any time.                            *)
RunUninstall ==
  /\ Commands
  /\ ~hoLocked
  /\ hoCmd' = [NoCommand EXCEPT !.op = "reset", !.at = 1]
  /\ UNCHANGED <<hoSetup, hoServices, hoLocked, hoDisk, hoTable, hoVolumes,
                 hoArchive, hoSpan, hoIntruded>>

(* The steps that never fail or whose errors are only logged (containers,  *)
(* users), and the ones behind the directories (CNI files, kube-bridge)    *)
(* whose errors are collected: the next step runs all the same.  What the  *)
(* containers step unmounts and removes are network namespaces, which hold *)
(* no data and lie outside of the directories.                             *)
CleanupContainers ==
  /\ hoCmd.op = "reset" /\ hoCmd.at = 1
  /\ GoesOn(2)
  /\ UNCHANGED <<hoSetup, hoServices, hoLocked, hoDisk, hoTable, hoVolumes,
                 hoArchive, hoSpan, hoIntruded, hoBudget>>

(* The services are uninstalled, the controller's first, until one of them *)
(* could be.  That one is not installed is no error, nor is a program that *)
(* exits with code 1 (hushed), and a success makes up for earlier errors.  *)
CleanupServices ==
  /\ hoCmd.op = "reset" /\ hoCmd.at = 2
  /\ \E failing \in SUBSET hoServices : \E hushed \in SUBSET failing :
       LET able == hoServices \ failing
           ok == able # {} \/ failing = hushed
       IN  /\ IF failing = {} THEN HoFine ELSE HoHitch
           /\ hoServices' = hoServices \ (IF "controller" \in able THEN {"controller"} ELSE able)
           /\ hoCmd' = [hoCmd EXCEPT !.at = 3, !.list = hoTable, !.ok = @ /\ ok,
                                     !.silent = "controller" \in failing /\ ok]
  /\ UNCHANGED <<hoSetup, hoLocked, hoDisk, hoTable, hoVolumes, hoArchive,
                 hoSpan, hoIntruded>>

(* The data directory and a kubelet root directory outside of it are left  *)
(* mounted; anything else under the two is unmounted.                      *)
LeftMounted(path) ==
  path = "data" \/ (path = "kubelet" /\ hoSetup.separate)

(* So is what is mounted below the run directory.                          *)
Skipped(path) == LeftMounted(path) \/ path = "run"

(* The last mount at a path hides the earlier ones; it is the one that an  *)
(* unmount takes off the table.                                            *)
LastAt(table, path) ==
  Max({i \in DOMAIN table : table[i][1] = path})

Visible(table, path) == table[LastAt(table, path)]

Unmounted(table, path) ==
  IF \E m \in Range(table) : m[1] = path
  THEN LET last == LastAt(table, path)
       IN  SubSeq(table, 1, last - 1) \o SubSeq(table, last + 1, Len(table))
  ELSE table

(* What a failed unmount followed by a failed lazy unmount would be if the *)
(* step went on with the next mount.                                       *)
UnmountGoesOn ==
  /\ hoCmd.op = "reset" /\ hoCmd.at = 3
  /\ hoCmd.list # <<>>
  /\ hoCmd' = [hoCmd EXCEPT !.list = SubSeq(@, 1, Len(@) - 1)]
  /\ LET path == hoCmd.list[Len(hoCmd.list)][1]
     IN  \/ /\ Skipped(path)
            /\ HoFine
            /\ UNCHANGED hoTable
         \/ /\ ~Skipped(path)
            /\ HoFine
            /\ hoTable' = Unmounted(hoTable, path)
         \/ /\ ~Skipped(path)
            /\ HoHitch
            /\ UNCHANGED hoTable
  /\ UNCHANGED <<hoSetup, hoServices, hoLocked, hoDisk, hoVolumes, hoArchive,
                 hoSpan, hoIntruded>>

(* The mounts are walked backwards: each is unmounted, lazily if need be;  *)
(* when that fails too the step ends with an error and deletes nothing.    *)
UnmountBackwards ==
  /\ hoCmd.op = "reset" /\ hoCmd.at = 3
  /\ hoCmd.list # <<>>
  /\ LET path == hoCmd.list[Len(hoCmd.list)][1]
     IN  \/ /\ Skipped(path)
            /\ HoFine
            /\ hoCmd' = [hoCmd EXCEPT !.list = SubSeq(@, 1, Len(@) - 1)]
            /\ UNCHANGED hoTable
         \/ /\ ~Skipped(path)
            /\ HoFine
            /\ hoCmd' = [hoCmd EXCEPT !.list = SubSeq(@, 1, Len(@) - 1)]
            /\ hoTable' = Unmounted(hoTable, path)
         \/ /\ ~Skipped(path)
            /\ HoHitch
            /\ hoCmd' = [hoCmd EXCEPT !.at = 5, !.ok = FALSE, !.list = <<>>]
            /\ UNCHANGED hoTable
  /\ UNCHANGED <<hoSetup, hoServices, hoLocked, hoDisk, hoVolumes, hoArchive,
                 hoSpan, hoIntruded>>

(* RemoveAll on the kubelet's root directory, the data directory and the   *)
(* run directory: whatever is mounted below loses its data, and makes it   *)
(* fail.  A directory that is itself a mount point cannot be removed,      *)
(* which is no error.                                                      *)
RemoveDirectories ==
  /\ hoCmd.op = "reset" /\ hoCmd.at = 3
  /\ hoCmd.list = <<>>
  /\ hoVolumes' = hoVolumes \ {Visible(hoTable, m[1])[2] : m \in Range(hoTable)}
  /\ \/ /\ HoFine
        /\ hoDisk' = EmptyDisk
        /\ hoCmd' = [hoCmd EXCEPT !.at = 5, !.ok = @ /\ \A m \in Range(hoTable) : LeftMounted(m[1])]
     \/ /\ HoHitch
        /\ \E keep \in SUBSET {"db", "images"} :
             hoDisk' = [p \in DiskParts |-> IF p \in keep THEN hoDisk[p] ELSE {}]
        /\ hoCmd' = [hoCmd EXCEPT !.at = 5, !.ok = FALSE]
  /\ UNCHANGED <<hoSetup, hoServices, hoLocked, hoTable, hoArchive, hoSpan,
                 hoIntruded>>

(* The last steps; the errors of all the steps are reported together.      *)
CleanupRest ==
  /\ hoCmd.op = "reset" /\ hoCmd.at = 5
  /\ \/ HoFine  /\ Returns(TRUE)
     \/ HoHitch /\ Returns(FALSE)
  /\ UNCHANGED <<hoSetup, hoServices, hoLocked, hoDisk, hoTable, hoVolumes,
                 hoArchive, hoSpan, hoIntruded>>

----------------------------------------------------------------------------
(* k0s backup: k0s must answer on its status socket.                       *)
RunBackup ==
  /\ Commands
  /\ hoLocked
  /\ hoCmd' = [NoCommand EXCEPT !.op = "backup", !.at = 1]
  /\ hoSpan' = hoDisk
  /\ UNCHANGED <<hoSetup, hoServices, hoLocked, hoDisk, hoTable, hoVolumes,
                 hoArchive, hoIntruded>>

(* One step after the other: the database is copied now, of a directory    *)
(* only the names are noted.                                               *)
BackupStep ==
  /\ hoCmd.op = "backup" /\ hoCmd.at \in DOMAIN DiscoverSteps
  /\ LET p == DiscoverSteps[hoCmd.at]
     IN  \/ /\ HoFine
            /\ p = "db" => hoLocked
            /\ hoCmd' = [hoCmd EXCEPT !.at = @ + 1, !.files[p] = hoDisk[p]]
         \/ /\ HoHitch
            /\ Returns(FALSE)
         \/ /\ HoFine
            /\ p = "db" /\ ~hoLocked
            /\ Returns(FALSE)
  /\ UNCHANGED <<hoSetup, hoServices, hoLocked, hoDisk, hoTable, hoVolumes,
                 hoArchive, hoSpan, hoIntruded>>

(* The archive is written from the copy of the database and from the files *)
(* as they are now; a noted file that is gone is an error.  That closing   *)
(* the archive fails is not: it is cut off then.  It is copied into place  *)
(* under a new name; of a failed copy nothing is used.                     *)
CreateArchive ==
  /\ hoCmd.op = "backup" /\ hoCmd.at = Len(DiscoverSteps) + 1
  /\ LET names(fs) == {f[1] : f \in fs}
         missing == \E p \in DiskParts \ {"db"} :
                      ~(names(hoCmd.files[p]) \subseteq names(hoDisk[p]))
         read(p) == IF p = "db" THEN hoCmd.files[p]
                    ELSE {f \in hoDisk[p] : f[1] \in names(hoCmd.files[p])}
     IN  \/ /\ ~missing
            /\ \E cut \in BOOLEAN :
                 /\ IF cut THEN HoHitch ELSE HoFine
                 /\ hoArchive' = [made |-> TRUE, storage |-> hoSetup.storage,
                                  span |-> hoSpan, cut |-> cut,
                                  disk |-> [p \in DiskParts |-> read(p)]]
            /\ Returns(TRUE)
         \/ /\ (missing /\ HoFine) \/ HoHitch
            /\ Returns(FALSE)
            /\ UNCHANGED hoArchive
  /\ UNCHANGED <<hoSetup, hoServices, hoLocked, hoDisk, hoTable, hoVolumes,
                 hoSpan, hoIntruded>>

----------------------------------------------------------------------------
(* k0s restore: k0s must not answer on its status socket, but one that     *)
(* runs and does not answer is not noticed.  The archive is unpacked,      *)
(* which is an error if it is cut off, and its configuration read.         *)
RunRestore ==
  /\ hoCmd = NoCommand
  /\ hoBudget.commands > 0 /\ (hoLocked => hoBudget.hitches > 0)
  /\ hoBudget' = [hoBudget EXCEPT !.commands = @ - 1,
                                  !.hitches = IF hoLocked THEN @ - 1 ELSE @]
  /\ hoIntruded' = (hoIntruded \/ hoLocked)
  /\ hoArchive.made
  /\ hoCmd' = [NoCommand EXCEPT !.op = "restore", !.ok = ~hoArchive.cut,
                                !.at = IF hoArchive.cut THEN 99 ELSE 1]
  /\ UNCHANGED <<hoSetup, hoServices, hoLocked, hoDisk, hoTable, hoVolumes,
                 hoArchive, hoSpan>>

(* The copied directory is laid over the existing one, by name. *)
Overlaid(old, new) ==
  new \cup {f \in old : \A g \in new : g[1] # f[1]}

(* What restoring etcd would be if data that is there already were taken   *)
(* for the restored one.                                                   *)
RestoreDatabaseIfMissing ==
  /\ hoCmd.op = "restore" /\ hoCmd.at = 1
  /\ \/ /\ HoFine
        /\ hoDisk' = IF hoDisk["db"] = {}
                     THEN [hoDisk EXCEPT !["db"] = hoArchive.disk["db"]]
                     ELSE hoDisk
        /\ GoesOn(2)
     \/ /\ HoHitch
        /\ Returns(FALSE)
        /\ UNCHANGED hoDisk
  /\ UNCHANGED <<hoSetup, hoServices, hoLocked, hoTable, hoVolumes, hoArchive,
                 hoSpan, hoIntruded>>

(* The database comes first: etcd refuses to restore over existing data;   *)
(* SQLite's file is replaced, and if that fails the error is only logged.  *)
RestoreDatabase ==
  /\ hoCmd.op = "restore" /\ hoCmd.at = 1
  /\ \/ /\ HoFine
        /\ hoArchive.storage = "kine" \/ hoDisk["db"] = {}
        /\ hoDisk' = [hoDisk EXCEPT !["db"] = hoArchive.disk["db"]]
        /\ GoesOn(2)
     \/ /\ hoArchive.storage = "etcd"
        /\ (hoDisk["db"] # {} /\ HoFine) \/ HoHitch
        /\ Returns(FALSE)
        /\ UNCHANGED hoDisk
     \/ /\ hoArchive.storage = "kine"
        /\ HoHitch
        /\ GoesOn(2)
        /\ UNCHANGED hoDisk
  /\ UNCHANGED <<hoSetup, hoServices, hoLocked, hoTable, hoVolumes, hoArchive,
                 hoSpan, hoIntruded>>

(* The directories and the configuration are copied, one step each. *)
RestoreFiles ==
  /\ hoCmd.op = "restore" /\ hoCmd.at \in 2 .. Len(DiscoverSteps)
  /\ LET p == DiscoverSteps[hoCmd.at]
     IN  \/ /\ HoFine
            /\ hoDisk' = [hoDisk EXCEPT ![p] = Overlaid(@, hoArchive.disk[p])]
            /\ IF hoCmd.at = Len(DiscoverSteps) THEN Returns(TRUE)
               ELSE GoesOn(hoCmd.at + 1)
         \/ /\ HoHitch
            /\ UNCHANGED hoDisk
            /\ Returns(FALSE)
  /\ UNCHANGED <<hoSetup, hoServices, hoLocked, hoTable, hoVolumes, hoArchive,
                 hoSpan, hoIntruded>>

(* The operator has read the result.                                       *)
CommandEnds ==
  /\ hoCmd.at = 99
  /\ hoCmd' = NoCommand
  /\ UNCHANGED <<hoSetup, hoServices, hoLocked, hoDisk, hoTable, hoVolumes,
                 hoArchive, hoSpan, hoIntruded, hoBudget>>

----------------------------------------------------------------------------
HoInit ==
  /\ hoSetup \in [storage : Storages, separate : BOOLEAN]
  /\ hoServices = {"controller"}
  /\ hoLocked = FALSE
  /\ hoDisk = EmptyDisk
  /\ hoTable = <<>>
  /\ hoVolumes = {}
  /\ hoCmd = NoCommand
  /\ hoArchive = NoArchive
  /\ hoSpan = EmptyDisk
  /\ hoIntruded = FALSE
  /\ hoBudget = [writes |-> MaxWrites, commands |-> MaxCommands,
                 hitches |-> MaxHitches]

\* Every variable has its type.
HoTypeOK ==
  LET Files == DiskParts \X (1 .. MaxWrites + 2)
      IsDisk(d) == DOMAIN d = DiskParts /\ \A p \in DiskParts : d[p] \subseteq Files
  IN  /\ hoSetup \in [storage : Storages, separate : BOOLEAN]
      /\ hoServices \subseteq Roles /\ hoLocked \in BOOLEAN
      /\ IsDisk(hoDisk) /\ IsDisk(hoSpan) /\ IsDisk(hoArchive.disk) /\ IsDisk(hoCmd.files)
      /\ \E t \in Tables : Range(hoTable) \subseteq Range(t) /\ hoVolumes \subseteq {m[2] : m \in Range(t)}
      /\ hoCmd.op \in {"none", "reset", "backup", "restore"} /\ hoCmd.at \in (0..7) \cup {99}
      /\ hoIntruded \in BOOLEAN
      /\ hoBudget \in [writes : 0..MaxWrites, commands : 0..MaxCommands, hitches : 0..MaxHitches]

HoCommand ==
  \/ CleanupContainers \/ CleanupServices \/ UnmountBackwards
  \/ RemoveDirectories \/ CleanupRest
  \/ BackupStep \/ CreateArchive
  \/ RestoreDatabase \/ RestoreFiles \/ CommandEnds

HoNext ==
  \/ HoCommand
  \/ InstallService \/ StartInstalledService \/ StopService
  \/ ClusterWrites \/ RunUninstall \/ RunBackup \/ RunRestore

HoSpec == HoInit /\ [][HoNext]_hoVars

----------------------------------------------------------------------------
(* Whatever unmounting fails, a reset never deletes the data of a volume   *)
(* that is mounted under the data directory or the kubelet's root          *)
(* directory (their own volumes are the ones it empties), as long as k0s   *)
(* is not running while it runs.                                           *)
ResetSparesVolumes ==
  (hoCmd.op = "reset" /\ ~hoIntruded) =>
    \A m \in Range(hoTable) : ~Skipped(m[1]) => m[2] \in hoVolumes

(* The same for all the directories it removes.  Does not hold: nothing is *)
(* unmounted below the run directory.                                      *)
ResetSparesAllVolumes ==
  (hoCmd.op = "reset" /\ ~hoIntruded) =>
    \A m \in Range(hoTable) : ~LeftMounted(m[1]) => m[2] \in hoVolumes

(* A reset that reports no error has emptied the data directory and left   *)
(* nothing mounted below the directories, and the controller's service is  *)
(* gone unless its uninstalling failed in a way that the step does not     *)
(* report (services.Run), as long as k0s is not running while it runs.     *)
ResetMeansGone ==
  (hoCmd.op = "reset" /\ hoCmd.at = 99 /\ hoCmd.ok /\ ~hoIntruded) =>
    /\ hoDisk = EmptyDisk
    /\ \A m \in Range(hoTable) : LeftMounted(m[1])
    /\ ~hoCmd.silent => "controller" \notin hoServices

(* Without that exception.  Does not hold: an exit code of 1 is taken for  *)
(* a service that is not there, and the error of the controller's service  *)
(* is lost when the worker's could be uninstalled.                         *)
ResetUninstalls ==
  (hoCmd.op = "reset" /\ hoCmd.at = 99 /\ hoCmd.ok /\ ~hoIntruded) => "controller" \notin hoServices

(* A backup that reports no error has made an archive that can be          *)
(* restored.  Does not hold: the errors of closing it are ignored.         *)
BackupIsUsable ==
  (hoCmd.op = "backup" /\ hoCmd.at = 99 /\ hoCmd.ok) => ~hoArchive.cut

(* A restore that reports no error has brought back what the node had      *)
(* while the archive was made: an etcd database and every archived file,   *)
(* each in a version that was on disk during the backup, whatever was in   *)
(* the data directory before and whatever changed during the backup, as    *)
(* long as k0s is not running while it runs.                               *)
RestoredAsArchived ==
  (hoCmd.op = "restore" /\ hoCmd.at = 99 /\ hoCmd.ok /\ ~hoIntruded) =>
    /\ hoArchive.storage = "etcd" =>
         /\ hoDisk["db"] = hoArchive.disk["db"]
         /\ hoDisk["db"] # {}
    /\ \A p \in DiskParts \ {"db"} :
         /\ hoArchive.disk[p] \subseteq hoDisk[p]
         /\ hoArchive.disk[p] \subseteq hoArchive.span[p]
=============================================================================
