---------------------------- MODULE MCLifecycle ----------------------------
(* Model checking of Lifecycle: every event has a subscriber. *)
EXTENDS Lifecycle

Everything == Kinds
=============================================================================
