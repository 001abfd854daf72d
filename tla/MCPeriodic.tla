----------------------------- MODULE MCPeriodic -----------------------------
(* A handler with room for two messages of the four a behaviour starts. *)
EXTENDS PeriodicMessages
=============================================================================
