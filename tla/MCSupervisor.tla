---------------------------- MODULE MCSupervisor ----------------------------
(* Supervisor for TLC: fewer PIDs than processes, so that they get recycled. *)
EXTENDS Supervisor

MCPids == 1..2
=============================================================================
