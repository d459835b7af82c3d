------------------------------ MODULE MCOutbox ------------------------------
(* Model checking of Outbox: symmetric instances, handlers and keys.         *)
EXTENDS Outbox, TLC

Symmetry == Permutations(Instances) \cup Permutations(Enqueuers) \cup Permutations(Keys)
=============================================================================
