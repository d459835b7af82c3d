----------------------------- MODULE MCEmission -----------------------------
(* Model checking of Emission: the contacts are symmetric.                   *)
EXTENDS Emission, TLC

Symmetry == Permutations(JIDs)
=============================================================================
