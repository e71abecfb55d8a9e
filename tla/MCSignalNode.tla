---------------------------- MODULE MCSignalNode ----------------------------
(* Instances of SignalNode for TLC. *)
EXTENDS SignalNode
=============================================================================
