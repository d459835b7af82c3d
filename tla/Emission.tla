------------------------------ MODULE Emission -------------------------------
(***************************************************************************)
(* From a send to a notified operator, for one instance and one life of    *)
(* the process: the ban watcher (internal/banwatch/banwatch.go) evaluates  *)
(* the sends every thirty seconds and raises alerts, the manager posts     *)
(* them to the webhook of the instance in goroutines of their own and      *)
(* tries critical events again (internal/manager/manager.go), and the      *)
(* usage tracker (internal/usage/usage.go) counts sends and events and     *)
(* flushes the counts of the instance and day to the database each minute; *)
(* the buckets do not touch each other, so one is enough.                  *)
(*                                                                         *)
(* SIGTERM cancels the context all loops share: main.go then announces the *)
(* restart, waits, and exits, whatever is still on its way.  The receiver  *)
(* of the webhook and the database are external: a call can fail, and it   *)
(* can succeed without its answer coming back.                             *)
(***************************************************************************)
EXTENDS Integers, Sequences, FiniteSets, SequencesExt, FiniteSetsExt

CONSTANTS
  JIDs,               \* contacts
  VelocityThreshold,  \* messages within one minute
  DiversityThreshold, \* contacts within five minutes
  DeliveryMinSamples, \* sends within ten minutes, for the ratio to count
  Retries,            \* len(retryBackoffs)
  MaxSends,           \* bound: sends
  MaxEvents,          \* bound: events emitted
  MaxFailures         \* bound: failed calls

ASSUME EmissionAssumption ==
  {VelocityThreshold, DiversityThreshold, DeliveryMinSamples, Retries, MaxSends,
   MaxEvents, MaxFailures} \subseteq Nat

VARIABLES
  phase,     \* up, stopping (context done), notifying, grace, exited
  window,    \* events of the bucket: number, contact, success, and the window it is in
  active,    \* activeAlerts
  events,    \* the events emitted: what, where its goroutine is, attempts
  received,  \* received[i]: copies the receiver got
  addressed, \* the instance has an events_webhook_url
  owed,      \* events whose count is still to come
  memory,    \* count in the bucket
  flushing,  \* count that Flush took out
  table,     \* row of bridge_usage_daily
  loop,      \* of the usage tracker: tick, flush, last, ended
  sent, failures,
  counted,   \* history: everything that was counted
  doubled,   \* history: counts of a flush whose answer was lost
  tardy,     \* history: counts that came after the last flush began
  lost,      \* history: lost[i]: posts received without an answer
  downs,     \* history: downs[a]: evaluations that found the alert down
  hurried    \* history: the broadcast gave up waiting

banwatch == <<window, active, downs, sent>>
webhook == <<events, received, addressed, owed, lost>>
usage == <<memory, flushing, table, loop, counted, doubled, tardy>>
vars == <<phase, banwatch, webhook, usage, failures, hurried>>

Alerts == {"high_velocity", "burst_outreach", "low_delivery"}

Init ==
  /\ phase = "up"
  /\ window = {} /\ active = {} /\ downs = [a \in Alerts |-> 0] /\ sent = 0
  /\ events = <<>> /\ received = <<>> /\ addressed \in BOOLEAN /\ owed = {} /\ lost = <<>>
  /\ memory = 0 /\ flushing = 0 /\ table = 0 /\ loop = "tick"
  /\ counted = 0 /\ doubled = 0 /\ tardy = 0
  /\ failures = 0 /\ hurried = FALSE

Alive == phase # "exited"
Fails == failures < MaxFailures /\ failures' = failures + 1

-----------------------------------------------------------------------------
(* Counters *)

\* bucketLocked: the bucket in whatever map Flush has left.
Count ==
  /\ memory' = memory + 1
  /\ counted' = counted + 1
  /\ tardy' = IF loop \in {"last", "ended"} THEN tardy + 1 ELSE tardy
  /\ UNCHANGED <<flushing, table, loop, doubled>>

\* The ticker, or the context: then once more, and no more after that.
NextFlushNever == IF phase = "up" THEN "flush" ELSE "ended"
NextFlush == IF phase = "up" THEN "flush" ELSE "last"

FlushBegins ==
  /\ Alive /\ loop = "tick" /\ (phase = "up" => memory > 0)
  /\ loop' = NextFlush
  /\ flushing' = memory /\ memory' = 0
  /\ UNCHANGED <<phase, banwatch, webhook, table, counted, doubled, tardy, failures, hurried>>

\* The bucket that could not be written goes back to what came meanwhile.
RebufferedAlone == flushing
Rebuffered == memory + flushing

Upsert ==
  /\ Alive /\ loop \in {"flush", "last"} /\ flushing > 0
  /\ flushing' = 0
  /\ \/ /\ table' = table + flushing
        /\ UNCHANGED <<memory, doubled, failures>>
     \/ /\ Fails \/ (loop = "flush" /\ phase # "up" /\ UNCHANGED failures)
        /\ memory' = Rebuffered
        /\ UNCHANGED <<table, doubled>>
     \/ /\ Fails
        /\ memory' = Rebuffered
        /\ table' = table + flushing
        /\ doubled' = doubled + flushing
  /\ UNCHANGED <<phase, banwatch, webhook, loop, counted, tardy, hurried>>

FlushEnds ==
  /\ Alive /\ loop \in {"flush", "last"} /\ flushing = 0
  /\ loop' = IF loop = "flush" THEN "tick" ELSE "ended"
  /\ UNCHANGED <<phase, banwatch, webhook, memory, flushing, table, counted, doubled, tardy,
                 failures, hurried>>

-----------------------------------------------------------------------------
(* The ban watcher *)

\* Windows: 0 within a minute, 1 within five, 2 within ten (the largest).
Within(w) == {e \in window : e.age <= w}
Compacted(sends) == {e \in sends : e.age <= 2}

\* Outgoing tells the outcome of each send to the watcher, and counts it.
Send(jid, ok) ==
  /\ Alive /\ sent < MaxSends /\ sent' = sent + 1
  /\ window' = Compacted(window \cup {[n |-> sent', jid |-> jid, ok |-> ok, age |-> 0]})
  /\ IF ok THEN Count ELSE UNCHANGED usage
  /\ UNCHANGED <<phase, active, downs, webhook, failures, hurried>>

TimePasses ==
  /\ Alive /\ \E e \in window : e.age <= 2
  /\ window' = {[e EXCEPT !.age = IF @ > 2 THEN @ ELSE @ + 1] : e \in window}
  /\ UNCHANGED <<phase, active, downs, sent, webhook, usage, failures, hurried>>

Delivered == Cardinality({e \in Within(2) : e.ok})

\* snapshotLocked: the ratio of deliveries counts from a minimum of samples on.
Current ==
  {a \in Alerts :
     CASE a = "high_velocity"  -> VelocityThreshold > 0 /\ Cardinality(Within(0)) > VelocityThreshold
       [] a = "burst_outreach" -> DiversityThreshold > 0 /\
            Cardinality({e.jid : e \in Within(1)}) > DiversityThreshold
       [] a = "low_delivery"   -> Within(2) # {} /\ Cardinality(Within(2)) >= DeliveryMinSamples
            /\ 10 * Delivered < 7 * Cardinality(Within(2))}

EventOf(kind) == [kind |-> kind, at |-> "url", tries |-> 0]

Emit(kinds) ==
  /\ Len(events) + Len(kinds) <= MaxEvents
  /\ events' = events \o [i \in DOMAIN kinds |-> EventOf(kinds[i])]
  /\ received' = received \o [i \in DOMAIN kinds |-> 0]
  /\ lost' = lost \o [i \in DOMAIN kinds |-> 0]
  /\ UNCHANGED <<addressed, owed>>

\* An alert is emitted when it comes up, not while it stays.
NewAlertsAll == Current
NewAlerts == Current \ active

Evaluate ==
  /\ phase = "up"
  /\ window' = Compacted(window)
  /\ active' = Current
  /\ downs' = [a \in Alerts |-> IF a \in active \ Current THEN downs[a] + 1 ELSE downs[a]]
  /\ Emit(SetToSeq(NewAlerts))
  /\ UNCHANGED <<phase, sent, usage, failures, hurried>>

-----------------------------------------------------------------------------
(* Events *)

CriticalWithoutRisk == {"backend_restarting"}
Critical == Alerts \cup {"backend_restarting"}

At(i, place) == Alive /\ i \in DOMAIN events /\ events[i].at = place
Moved(i, place, tries) == [events EXCEPT ![i] = [@ EXCEPT !.at = place, !.tries = tries]]

\* emitCustomWebhook reads the address: without one, and if it cannot be read,
\* nothing is said or counted.  Subscribers are not asked.
FindURL(i) ==
  /\ At(i, "url")
  /\ \/ addressed /\ events' = Moved(i, "post", 0) /\ UNCHANGED failures
     \/ ~addressed /\ events' = Moved(i, "silent", 0) /\ UNCHANGED failures
     \/ events' = Moved(i, "unread", 0) /\ Fails
  /\ UNCHANGED <<phase, banwatch, received, addressed, owed, lost, usage, hurried>>

\* A failed attempt: a critical event sleeps until its next one, if it has one.
AfterFailure(i) ==
  IF events[i].kind \in Critical /\ events[i].tries < Retries THEN "sleep" ELSE "dropped"
AfterSuccess(i) == "done"

Answered(i, got) ==
  /\ received' = [received EXCEPT ![i] = @ + (IF got THEN 1 ELSE 0)]
  /\ owed' = IF events[i].tries = 0 THEN owed \cup {i} ELSE owed

\* The first attempt, and the ones after a back-off.
Post(i) ==
  /\ At(i, "post") \/ At(i, "sleep")
  /\ LET tries == events[i].tries + 1 IN
     \/ /\ Answered(i, TRUE) /\ events' = Moved(i, AfterSuccess(i), tries)
        /\ UNCHANGED <<lost, failures>>
     \/ /\ Fails /\ Answered(i, FALSE) /\ events' = Moved(i, AfterFailure(i), tries)
        /\ UNCHANGED lost
     \/ /\ Fails /\ Answered(i, TRUE) /\ events' = Moved(i, AfterFailure(i), tries)
        /\ lost' = [lost EXCEPT ![i] = @ + 1]
  /\ UNCHANGED <<phase, banwatch, addressed, usage, hurried>>

\* Counted after the first attempt, delivered or not.
CountEvent(i) ==
  /\ Alive /\ i \in owed /\ owed' = owed \ {i}
  /\ Count
  /\ UNCHANGED <<phase, banwatch, events, received, addressed, lost, failures, hurried>>

-----------------------------------------------------------------------------
(* Start and stop: main.go *)

Of(kind) == {i \in DOMAIN events : events[i].kind = kind}

\* Once the HTTP server listens, and the instance is ready or too slow: up to
\* twenty seconds later, when the process may be on its way out.
BroadcastBackendStarted ==
  /\ Alive /\ Of("backend_started") = {}
  /\ Emit(<<"backend_started">>)
  /\ UNCHANGED <<phase, banwatch, usage, failures, hurried>>

Stop ==
  /\ phase = "up" /\ phase' = "stopping"
  /\ UNCHANGED <<banwatch, webhook, usage, failures, hurried>>

BroadcastBackendRestarting ==
  /\ phase = "stopping" /\ phase' = "notifying"
  /\ Emit(<<"backend_restarting">>)
  /\ UNCHANGED <<banwatch, usage, failures, hurried>>

\* The emit has come back: its first attempt is over and counted.
ReturnedAlways(i) == TRUE
Returned(i) == events[i].at \notin {"url", "post"} /\ i \notin owed

BroadcastReturns ==
  /\ phase = "notifying" /\ phase' = "grace"
  /\ \/ (\A i \in Of("backend_restarting") : Returned(i)) /\ UNCHANGED hurried
     \/ hurried' = TRUE
  /\ UNCHANGED <<banwatch, webhook, usage, failures>>

Exit ==
  /\ phase = "grace" /\ phase' = "exited"
  /\ UNCHANGED <<banwatch, webhook, usage, failures, hurried>>

-----------------------------------------------------------------------------
Flush == FlushBegins \/ Upsert \/ FlushEnds
Goroutine(i) == FindURL(i) \/ Post(i) \/ CountEvent(i)
Shutdown == BroadcastBackendRestarting \/ BroadcastReturns \/ Exit

Next ==
  \/ \E jid \in JIDs, ok \in BOOLEAN : Send(jid, ok)
  \/ TimePasses \/ Evaluate
  \/ Flush
  \/ \E i \in 1 .. MaxEvents : Goroutine(i)
  \/ BroadcastBackendStarted \/ Stop \/ Shutdown

Spec == Init /\ [][Next]_vars

-----------------------------------------------------------------------------
(* Properties *)

\* Every variable keeps its type; the bucket holds sends that were made, each
\* of them once.
EmissionTypeOK ==
  /\ sent \in 0 .. MaxSends
  /\ window \subseteq [n : 1 .. sent, jid : JIDs, ok : BOOLEAN, age : 0 .. 3]
  /\ \A e, f \in window : e.n = f.n => e = f
  /\ phase \in {"up", "stopping", "notifying", "grace", "exited"} /\ hurried \in BOOLEAN
  /\ active \subseteq Alerts /\ downs \in [Alerts -> Nat]
  /\ events \in Seq([kind : Alerts \cup {"backend_started", "backend_restarting"},
                     at : {"url", "silent", "unread", "post", "sleep", "done", "dropped"}, tries : Nat])
  /\ received \in Seq(Nat) /\ lost \in Seq(Nat) /\ owed \subseteq DOMAIN events
  /\ addressed \in BOOLEAN
  /\ loop \in {"tick", "flush", "last", "ended"}
  /\ {memory, flushing, table, counted, doubled, tardy, failures} \subseteq Nat

\* What was counted is in the table, being written, or in memory,
\* once; only a write whose answer was lost counts twice (Flush).
CountsConserved ==
  table + flushing + memory = counted + doubled

\* When the loop has ended, only what came after its last flush began is
\* still in memory, unless the flush failed (Tracker.loop): that, and what the
\* process takes with it when it exits before, is lost.
LastFlushTakesAll ==
  loop = "ended" /\ failures = 0 => memory + flushing <= tardy

\* An alert that stays up is emitted once: again only after an evaluation
\* found it down (evaluate).
AlertOncePerRise ==
  \A a \in Alerts : Cardinality(Of(a)) = downs[a] + (IF a \in active THEN 1 ELSE 0)

\* A goroutine still has the event; when the process exits it is cut off, and
\* nothing tries the event again.
InHand(i) == events[i].at \in {"url", "post", "sleep"}
OnItsWay(i) == Alive /\ InHand(i)
CutOff(i) == ~Alive /\ InHand(i)

\* The instance has no webhook, or its address could not be read.
Untold(i) ==
  \/ events[i].at = "silent" /\ ~addressed
  \/ events[i].at = "unread" /\ failures > 0

\* As many calls have failed as the event had attempts.
Tried(i) == events[i].tries > 0 /\ failures >= events[i].tries

\* An alert, and the announcement of the restart, is received, or on its way,
\* or it was cut off by the exit of the process, or its instance has no webhook
\* or one whose address could not be read, or every one of its attempts failed;
\* and a second copy comes only of an answer that was lost (emitCustomWebhook,
\* postWebhookWithRetry).
CriticalIsDelivered ==
  \A i \in DOMAIN events :
    /\ events[i].kind \in Alerts \cup {"backend_restarting"} =>
         \/ received[i] > 0 \/ OnItsWay(i) \/ CutOff(i) \/ Untold(i)
         \/ events[i].tries = Retries + 1 /\ Tried(i)
    /\ received[i] <= 1 + lost[i]

\* The process that did not tire of waiting for the receiver, which it does after
\* five seconds, does not exit before the restart was announced, or tried and
\* refused, if its instance has a webhook and its address could be read
\* (BroadcastBackendRestarting).
RestartIsAnnounced ==
  phase = "exited" /\ ~hurried =>
    \E i \in Of("backend_restarting") : received[i] > 0 \/ Untold(i) \/ Tried(i)

=============================================================================
