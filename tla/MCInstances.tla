---------------------------- MODULE MCInstances ----------------------------
(* Model checking of Instances: the callers of WaitReady are symmetric.      *)
EXTENDS Instances, TLC

Symmetry == Permutations(Callers)
=============================================================================
