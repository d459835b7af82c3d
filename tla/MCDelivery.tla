----------------------------- MODULE MCDelivery -----------------------------
(* Model checking of Delivery: a text, its copy under another id and another *)
(* text, all for the same contact.                                           *)
EXTENDS Delivery, TLC

CONSTANTS i1, m1, m2, m3, hello, bye

OneInstance == [m \in Messages |-> i1]
SameText == [m \in Messages |-> hello]
Echo == (m1 :> hello) @@ (m2 :> bye) @@ (m3 :> hello)

\* The history variables that no action reads and OneTextPerContact does not
\* mention are left out of the state: replies, given, excused and those of the
\* outbox.
WithoutHistory ==
  <<table, connected, key, counted, drainer, expirer, faults, carries, at, work, seen,
    guard, flag, bounds, wire>>

Symmetry == Permutations(Enqueuers)
=============================================================================
