-------------------------- MODULE OutboxRefinement --------------------------
(* The outbox as an implementation of OutboxPromise.                         *)
EXTENDS Outbox

StateOf(r) ==
  CASE status[r] = "absent"  -> "none"
    [] status[r] = "pending" -> "open"
    [] OTHER                 -> "closed"

Promise == INSTANCE OutboxPromise WITH
  Messages <- Rows,
  state <- [r \in Rows |-> StateOf(r)],
  copies <- oks,
  told <- {r \in Rows : notices[r] > 0},
  faults <- faults

\* Every behaviour of the table, the drainer and the expirer is one the
\* promise allows: a message is closed once, copies are paid for by faults,
\* a notice follows the close (Enqueue, DrainOnce, ExpireOnce).
KeepsPromise == Promise!Spec

\* With both loops ticking, every accepted message is also closed in the end.
KeepsFairPromise == Promise!FairSpec
=============================================================================
