------------------------------ MODULE MCTenants ------------------------------
(* Model checking of Tenants: tags, readers and requests are symmetric.      *)
EXTENDS Tenants, TLC

Symmetry == Permutations(Tags) \cup Permutations(Readers) \cup Permutations(Admins)
=============================================================================
