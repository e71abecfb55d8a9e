------------------------------ MODULE Debounce ------------------------------
(***************************************************************************)
(* The debouncer (pkg/debounce/debounce.go) between the events of a file   *)
(* watch and a callback.  Events only count as such: there is none, one or *)
(* more are pending, or the callback runs, and may have events pending by  *)
(* the time it returns.  A watch that is "off" loses its events.           *)
(***************************************************************************)

(***************************************************************************)
(* An event: it is pending until the time-out passes without another one.  *)
(* While the callback runs the event waits in the channel.                 *)
(***************************************************************************)
Notify(watch) ==
    CASE watch = "off" -> "off"
      [] watch \in {"idle", "pending"} -> "pending"
      [] watch \in {"callback", "again"} -> "again"

(***************************************************************************)
(* A watch is set up.                                                      *)
(***************************************************************************)
RunDebouncer(watch) == IF watch = "off" THEN "idle" ELSE watch

(***************************************************************************)
(* The callback has returned.  When it takes no time, it was pending.      *)
(***************************************************************************)
Consumed(watch) == IF watch = "again" THEN "pending" ELSE "idle"
=============================================================================
