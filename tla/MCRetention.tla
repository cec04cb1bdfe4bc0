----------------------------- MODULE MCRetention -----------------------------
(***************************************************************************)
(* Small instances of Retention for TLC, over the flows of MCFlowTracking. *)
(***************************************************************************)
EXTENDS Retention, MCFlowTracking
=============================================================================
