---------------------------- MODULE MCOutboxLive ----------------------------
(* Liveness and refinement of Outbox; no symmetry, which TLC would not       *)
(* combine soundly with temporal properties.                                 *)
EXTENDS OutboxRefinement
=============================================================================
