----------------------------- MODULE MCReconcile ----------------------------
(* Bounds for the run of Rollout. *)
EXTENDS Rollout
=============================================================================
