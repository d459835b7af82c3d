---------------------------- MODULE OutboxPromise ----------------------------
(***************************************************************************)
(* What the outbox promises for each message it has accepted, said without *)
(* table, goroutines or passes: the message stays open until it is closed, *)
(* it is closed once and for good, it is handed over at most once more     *)
(* than there were faults, and its expiry is told at most once, after it   *)
(* was closed.  A hand-over may still come after the close: that is the    *)
(* price of a drainer and an expirer that do not exclude each other.       *)
(***************************************************************************)
EXTENDS Integers

CONSTANT Messages
VARIABLES state, copies, told, faults

vars == <<state, copies, told, faults>>

Init ==
  /\ state = [m \in Messages |-> "none"]
  /\ copies = [m \in Messages |-> 0]
  /\ told = {}
  /\ faults = 0

Accept(m) ==
  /\ state[m] = "none"
  /\ state' = [state EXCEPT ![m] = "open"]
  /\ UNCHANGED <<copies, told, faults>>

HandOver(m) ==
  /\ state[m] # "none"
  /\ copies[m] <= faults
  /\ copies' = [copies EXCEPT ![m] = @ + 1]
  /\ UNCHANGED <<state, told, faults>>

Close(m) ==
  /\ state[m] = "open"
  /\ state' = [state EXCEPT ![m] = "closed"]
  /\ UNCHANGED <<copies, told, faults>>

Tell(m) ==
  /\ state[m] = "closed"
  /\ m \notin told
  /\ told' = told \cup {m}
  /\ UNCHANGED <<state, copies, faults>>

\* A crash, or a lost answer: perhaps the answer to a close.
Fault ==
  /\ faults' = faults + 1
  /\ \/ UNCHANGED state
     \/ \E m \in Messages :
          state[m] = "open" /\ state' = [state EXCEPT ![m] = "closed"]
  /\ UNCHANGED <<copies, told>>

Next ==
  \/ \E m \in Messages : Accept(m) \/ HandOver(m) \/ Close(m) \/ Tell(m)
  \/ Fault

Spec == Init /\ [][Next]_vars

\* The queue owes every accepted message an ending; it owes no delivery.
FairSpec == Spec /\ \A m \in Messages : WF_vars(Close(m))
=============================================================================
