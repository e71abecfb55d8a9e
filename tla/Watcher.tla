------------------------------- MODULE Watcher --------------------------------
(***************************************************************************)
(* The watcher that k0s uses wherever a component follows objects of the   *)
(* API server (pkg/kubernetes/watch/watcher.go): it lists, hands what it   *)
(* got to a condition, and then watches from the resource version of the   *)
(* list on; a watch that the server closes is taken up at the last version *)
(* seen, an expired version makes it list again, and about any other error *)
(* the component's callback is asked.                                      *)
(*                                                                         *)
(* External: the API server, with its log of changes, of which the oldest  *)
(* are forgotten, and connections that fail, or get stuck.                 *)
(***************************************************************************)
EXTENDS Naturals, Sequences, FiniteSetsExt

CONSTANTS
    MaxChanges,   \* bound: changes on the API server
    MaxBreaks     \* bound: errors, closed and stuck connections

VARIABLES
    waLog,        \* the API server's changes: "set" and "delete" of the object, or of "other" ones
    waForgotten,  \* the versions it cannot serve a watch from any more
    waCallback,   \* what the error callback does: "always" retries, "retryable", or there is "none"
    waAt,         \* "list", "open", "watch", "stuck", "retry", or over: "done", "ended"
                  \* (by the condition's error or the context) or "failed"
    waVersion,    \* the resource version to watch from
    waSeen,       \* the version of the object that the condition got last, 0 before it did
    waBreaks

waVars == <<waLog, waForgotten, waCallback, waAt, waVersion, waSeen, waBreaks>>
waServer == <<waLog, waForgotten>>

(* What the object is like after the first v changes: the version at which *)
(* it was set, or 0 if it is not there.                                    *)
LastOf(kinds, v) == Max({0} \cup {i \in 1..v : waLog[i] \in kinds})
ObjectAt(v) == IF LastOf({"set"}, v) > LastOf({"delete"}, v) THEN LastOf({"set"}, v) ELSE 0

Watching == waAt \notin {"done", "ended", "failed"}

Break == waBreaks < MaxBreaks /\ waBreaks' = waBreaks + 1
NoBreak == UNCHANGED waBreaks

-------------------------------------------------------------------------------
(* The condition is told of a version of the object: it goes on watching,  *)
(* or is done with it, or fails, which no callback is asked about.         *)
CallCondition(seen, next) ==
    /\ waSeen' = seen
    /\ \/ waAt' = next /\ NoBreak
       \/ waAt' = "done" /\ Break
       \/ waAt' = "ended" /\ Break

(* retry: an expired version starts over at once; other errors do so after *)
(* a while if the callback says so, and end the watch otherwise.           *)
RetryError(kind) ==
    waAt' = CASE kind = "expired" -> "list"
              [] waCallback = "always" -> "retry"
              [] waCallback = "retryable" /\ kind = "retryable" -> "retry"
              [] OTHER -> "failed"

RetryAfterDelay ==
    /\ waAt = "retry"
    /\ waAt' = "list"
    /\ UNCHANGED <<waServer, waCallback, waVersion, waSeen, waBreaks>>

(* list: the items, and the version to watch from.                         *)
ListItems ==
    /\ waAt = "list"
    /\ \/ /\ waVersion' = Len(waLog)
          /\ IF ObjectAt(Len(waLog)) = 0
               THEN waAt' = "open" /\ UNCHANGED waSeen /\ NoBreak
               ELSE CallCondition(ObjectAt(Len(waLog)), "open")
       \/ /\ Break
          /\ \E kind \in {"retryable", "fatal"} : RetryError(kind)
          /\ UNCHANGED <<waVersion, waSeen>>
    /\ UNCHANGED <<waServer, waCallback>>

(* watch: opened at the version; the server may not know it any more.      *)
OpenWatch ==
    /\ waAt = "open"
    /\ \/ waVersion >= waForgotten /\ waAt' = "watch" /\ NoBreak
       \/ waVersion < waForgotten /\ RetryError("expired") /\ NoBreak
       \/ Break /\ \E kind \in {"retryable", "fatal"} : RetryError(kind)
    /\ UNCHANGED <<waServer, waCallback, waVersion, waSeen>>

(* processWatchEvent: the next event, or a bookmark ("other"); deletions   *)
(* are suppressed, but their version is taken over like any other.         *)
ProcessWatchEvent ==
    /\ waAt = "watch"
    /\ \E v \in waVersion + 1 .. Len(waLog) :
         /\ \A i \in waVersion + 1 .. v - 1 : waLog[i] = "other"
         /\ waVersion' = v
         /\ IF waLog[v] = "set" THEN CallCondition(v, "watch")
            ELSE UNCHANGED <<waAt, waSeen>> /\ NoBreak
    /\ UNCHANGED <<waServer, waCallback>>

(* The server closes the watch, or sends an error.                         *)
WatchEnds ==
    /\ waAt = "watch"
    /\ Break
    /\ \/ waAt' = "open"
       \/ \E kind \in {"retryable", "fatal", "expired"} : RetryError(kind)
    /\ UNCHANGED <<waServer, waCallback, waVersion, waSeen>>

(* A connection that gets stuck is given up when the watch's time is over. *)
WatchSticks ==
    /\ waAt = "watch"
    /\ Break
    /\ waAt' = "stuck"
    /\ UNCHANGED <<waServer, waCallback, waVersion, waSeen>>

WatchTimeout ==
    /\ waAt = "stuck"
    /\ RetryError("retryable")
    /\ UNCHANGED <<waServer, waCallback, waVersion, waSeen, waBreaks>>

(* The context ends.                                                       *)
CancelWatch ==
    /\ Watching
    /\ Break
    /\ waAt' = "ended"
    /\ UNCHANGED <<waServer, waCallback, waVersion, waSeen>>

-------------------------------------------------------------------------------
(* The API server: a change, and the compaction of its log.                *)
StoreChanges ==
    /\ Len(waLog) < MaxChanges
    /\ \E kind \in {"set", "other"}
                     \cup (IF ObjectAt(Len(waLog)) = 0 THEN {} ELSE {"delete"}) :
         waLog' = Append(waLog, kind)
    /\ UNCHANGED <<waForgotten, waCallback, waAt, waVersion, waSeen, waBreaks>>

StoreForgets ==
    /\ waForgotten < Len(waLog)
    /\ waForgotten' = Len(waLog)
    /\ UNCHANGED <<waLog, waCallback, waAt, waVersion, waSeen, waBreaks>>

WaInit ==
    /\ waLog = <<"set">>
    /\ waForgotten = 0
    /\ waCallback \in {"always", "retryable", "none"}
    /\ waAt = "list"
    /\ waVersion = 0
    /\ waSeen = 0
    /\ waBreaks = 0

\* Every variable has its type; what was seen or forgotten has happened.
WaTypeOK ==
    /\ Range(waLog) \subseteq {"set", "delete", "other"} /\ Len(waLog) \in 1..MaxChanges
    /\ waForgotten \in 0..Len(waLog) /\ waVersion \in 0..Len(waLog) /\ waSeen \in 0..waVersion
    /\ waCallback \in {"always", "retryable", "none"}
    /\ waAt \in {"list", "open", "watch", "stuck", "retry", "done", "ended", "failed"}
    /\ waBreaks \in 0..MaxBreaks

WaSteps == RetryAfterDelay \/ ListItems \/ OpenWatch \/ ProcessWatchEvent \/ WatchTimeout

WaNext == WaSteps \/ WatchEnds \/ WatchSticks \/ CancelWatch \/ StoreChanges \/ StoreForgets

(* The watcher goes on while its context lives.                            *)
WaSpec == WaInit /\ [][WaNext]_waVars /\ WF_waVars(WaSteps)

-------------------------------------------------------------------------------
(* At the version it watches from, the condition has got the object as it  *)
(* then was, whatever was closed, expired, retried or suppressed before:   *)
(* no event falls between a list and a watch or between two watches.       *)
NothingIsMissed ==
    (waAt \in {"open", "watch", "stuck"} /\ ObjectAt(waVersion) # 0) => waSeen = ObjectAt(waVersion)

(* A watch whose callback retries every error ends only by its condition   *)
(* or its context, and until then it gets to the newest version.           *)
WatchGoesOn == waCallback = "always" => waAt # "failed"

WatchIsCurrent == Watching /\ ObjectAt(Len(waLog)) # 0 => waSeen = ObjectAt(Len(waLog))

=============================================================================
