------------------------------ MODULE Lifecycle ------------------------------
(***************************************************************************)
(* What the orchestrator is told about the connection of one instance      *)
(* (internal/manager/manager.go: onLifecycle, emitUnreachableAfterGrace,   *)
(* emitReconnectedAfterStabilize, emitLifecycleWebhook).                   *)
(*                                                                         *)
(* whatsmeow reports Connected, Disconnected, LoggedOut ... to onLifecycle, *)
(* which keeps four flags per instance name and starts goroutines; these   *)
(* sleep, look at the flags and at the connection again, and POST.  Time   *)
(* is counted down in each sleeping goroutine; a goroutine may wake late.  *)
(* onLifecycle takes the locks of the flags one after the other; it is one *)
(* step here, which is enough because each goroutine touches one flag      *)
(* under one lock.                                                         *)
(***************************************************************************)
EXTENDS Integers, Sequences, FiniteSets

CONSTANTS
  Grace,        \* unreachableGraceSeconds
  LongGrace,    \* the two minutes of emitLifecycleWebhook
  Stabilize,    \* reconnectedStabilizeSeconds
  Subscribed,   \* events some subscriber of the instance matches
  MaxEvents,    \* bound: changes of the connection and API calls
  MaxDbErrors   \* bound: failures of PostgreSQL

ASSUME LifecycleAssumption ==
  /\ Stabilize \in Nat /\ Grace \in Nat /\ LongGrace \in Nat
  /\ 0 < Stabilize /\ Stabilize < Grace /\ Grace < LongGrace
  /\ MaxEvents \in Nat /\ MaxDbErrors \in Nat

Flags == {"pendingUnreachable", "disconnectNotified", "pendingReconnected",
          "connectedEmitted"}
Kinds == {"paired", "connected", "reconnected", "unreachable", "disconnected", "logged_out"}
Reports == {"paired", "connected", "disconnected", "logged_out", "strike"}

VARIABLES
  present,   \* the instance is in Manager.instances and in bridge_instance
  paired,    \* its device is linked to an account
  up,        \* Conn.IsConnected
  boot,      \* inBootstrapWindow
  queue,     \* events whatsmeow has yet to hand to onLifecycle
  flags,     \* the flags that are set for the name
  running,   \* goroutines: [kind, n: the event that started it, at, left]
  n, events, dberrs,
  \* history: the last event handled, a Connected was handled in this session,
  \* the last pill says "unreachable", one was sent since the last Disconnected
  \* was handled, and how many more times it was sent than "reconnected"
  last, settled, alarm, told, owed

connection == <<present, paired, up>>
history == <<last, settled, alarm, told, owed>>
vars == <<connection, boot, queue, flags, running, n, events, dberrs, history>>

Goroutine == [kind : Kinds, n : Nat, at : {"sleep", "claim", "check", "read", "grace", "post"},
              left : Nat]

Init ==
  /\ present = TRUE /\ paired \in BOOLEAN
  /\ up = FALSE
  /\ boot = TRUE
  /\ queue = <<>> /\ flags = {} /\ running = {}
  /\ n = 0 /\ events = 0 /\ dberrs = 0
  /\ last = "none" /\ settled = FALSE
  /\ alarm = FALSE /\ told = FALSE /\ owed = 0

-----------------------------------------------------------------------------
(* Slips a maintainer could make, each caught by a property below.         *)

\* The blip path forgets that the session counts as announced.
HandleBlipUnmarked ==
  /\ ~boot /\ "pendingUnreachable" \in flags
  /\ flags' = flags \ {"pendingUnreachable"}
  /\ UNCHANGED running

\* One timer is thought to be enough while the flag is set.
HandleDisconnectedOneTimer ==
  /\ flags' = (flags \cup {"pendingUnreachable"})
                \ {"pendingReconnected", "connectedEmitted"}
  /\ running' = running \cup
       (IF "pendingUnreachable" \in flags THEN {}
        ELSE {[kind |-> "unreachable", n |-> n + 1, at |-> "sleep", left |-> Grace]})
       \cup {[kind |-> "disconnected", n |-> n + 1, at |-> "read", left |-> 0]}

\* disconnectNotified survives the recovery it announced.
HandleRecoveryKeepsFlag ==
  /\ ~boot /\ "pendingUnreachable" \notin flags /\ "disconnectNotified" \in flags
  /\ flags' = flags \cup {"pendingReconnected", "connectedEmitted"}
  /\ running' = running \cup
       {[kind |-> "reconnected", n |-> n + 1, at |-> "sleep", left |-> Stabilize]}

-----------------------------------------------------------------------------
(* whatsmeow and the API, seen from the manager *)

Event == events < MaxEvents /\ events' = events + 1
Report(r) == queue' = Append(queue, r)

\* The socket drops; the server ends the session; it comes back.
Drop ==
  /\ Event /\ up
  /\ up' = FALSE
  /\ Report("disconnected")
  /\ UNCHANGED <<present, paired, boot, flags, running, n, dberrs, history>>

ServerLogout ==
  /\ Event /\ up
  /\ up' = FALSE /\ paired' = FALSE
  /\ Report("logged_out")
  /\ UNCHANGED <<present, boot, flags, running, n, dberrs, history>>

\* Connected also fires when a session that is up renews its handshake.
Handshake ==
  /\ Event /\ present /\ paired
  /\ up' = TRUE
  /\ Report("connected")
  /\ UNCHANGED <<present, paired, boot, flags, running, n, dberrs, history>>

Pair ==
  /\ Event /\ present /\ ~paired
  /\ paired' = TRUE
  /\ Report("paired")
  /\ UNCHANGED <<present, up, boot, flags, running, n, dberrs, history>>

\* TemporaryBan, or ConnectFailure 401, 403, 405.
Strike ==
  /\ Event /\ present
  /\ Report("strike")
  /\ UNCHANGED <<connection, boot, flags, running, n, dberrs, history>>

\* Restart, Logout, Delete and Create replace or remove the Conn; its own
\* Disconnect reports nothing, and none of them touches the flags.
Replace(stays, linked) ==
  /\ Event
  /\ present' = stays /\ paired' = linked
  /\ up' = FALSE
  /\ last' = "none" /\ settled' = FALSE
  /\ UNCHANGED <<boot, queue, flags, running, n, dberrs, alarm, told, owed>>

ApiRestart == present /\ Replace(TRUE, paired)
ApiLogout == present /\ Replace(TRUE, FALSE)
ApiDelete == present /\ Replace(FALSE, FALSE)
ApiCreate == ~present /\ Replace(TRUE, FALSE)

BootstrapEnds ==
  /\ boot /\ boot' = FALSE
  /\ UNCHANGED <<connection, queue, flags, running, n, events, dberrs, history>>

Tick ==
  /\ \E g \in running : g.left > 0
  /\ running' = {[g EXCEPT !.left = IF @ = 0 THEN 0 ELSE @ - 1] : g \in running}
  /\ UNCHANGED <<connection, boot, queue, flags, n, events, dberrs, history>>

-----------------------------------------------------------------------------
(* onLifecycle *)

Starts(kind, at, left) ==
  running \cup {[kind |-> kind, n |-> n + 1, at |-> at, left |-> left]}

HandleDisconnected ==
  /\ flags' = (flags \cup {"pendingUnreachable"})
                \ {"pendingReconnected", "connectedEmitted"}
  /\ running' = Starts("unreachable", "sleep", Grace) \cup Starts("disconnected", "read", 0)

\* Connected, in the order of its early returns: silent while starting up...
HandleBoot ==
  /\ boot
  /\ flags' = flags \cup {"connectedEmitted"}
  /\ UNCHANGED running

\* ... silent when nobody has been told of the outage yet ...
HandleBlip ==
  /\ ~boot /\ "pendingUnreachable" \in flags
  /\ flags' = (flags \ {"pendingUnreachable"}) \cup {"connectedEmitted"}
  /\ UNCHANGED running

\* ... reconnected, once it is stable, when somebody has ...
HandleRecovery ==
  /\ ~boot /\ "pendingUnreachable" \notin flags /\ "disconnectNotified" \in flags
  /\ flags' = (flags \ {"disconnectNotified"})
                \cup {"pendingReconnected", "connectedEmitted"}
  /\ running' = Starts("reconnected", "sleep", Stabilize)

\* ... and connected, once per session, otherwise.
HandleFirst ==
  /\ ~boot /\ flags \cap {"pendingUnreachable", "disconnectNotified"} = {}
  /\ flags' = flags \cup {"connectedEmitted"}
  /\ running' = IF "connectedEmitted" \in flags THEN running ELSE Starts("connected", "read", 0)

HandleConnected == HandleBoot \/ HandleBlip \/ HandleRecovery \/ HandleFirst

HandleLoggedOut ==
  /\ flags' = flags \ {"connectedEmitted"}
  /\ running' = Starts("logged_out", "read", 0)

HandlePaired == running' = Starts("paired", "read", 0) /\ UNCHANGED flags

\* The switch has no case for EventStrike: default, return.
HandleStrike == UNCHANGED <<flags, running>>

\* History of a handled event.
Remember(r) ==
  /\ last' = IF r = "strike" THEN last ELSE r
  /\ settled' = CASE r = "connected" -> TRUE
                  [] r \in {"disconnected", "logged_out"} -> FALSE
                  [] OTHER -> settled

Handle ==
  /\ queue # <<>>
  /\ queue' = Tail(queue)
  /\ n' = n + 1
  /\ \/ Head(queue) = "disconnected" /\ HandleDisconnected
     \/ Head(queue) = "connected" /\ HandleConnected
     \/ Head(queue) = "logged_out" /\ HandleLoggedOut
     \/ Head(queue) = "paired" /\ HandlePaired
     \/ Head(queue) = "strike" /\ HandleStrike
  /\ Remember(Head(queue))
  /\ told' = (told /\ Head(queue) # "disconnected")
  /\ alarm' = (alarm /\ ~\E g \in running' \ running : g.kind = "connected")
  /\ UNCHANGED <<connection, boot, events, dberrs, owed>>

\* The UPDATE of bridge_instance fails: onLifecycle logs it and returns.
HandleFails ==
  /\ queue # <<>> /\ Head(queue) # "strike"
  /\ dberrs < MaxDbErrors /\ dberrs' = dberrs + 1
  /\ queue' = Tail(queue)
  /\ n' = n + 1
  /\ UNCHANGED <<connection, boot, flags, running, events, history>>

-----------------------------------------------------------------------------
(* The goroutines *)

Ends(g) == running' = running \ {g}
Goes(g, at, left) == running' = (running \ {g}) \cup {[g EXCEPT !.at = at, !.left = left]}

quiet == <<connection, boot, queue, n, events>>

\* emitUnreachableAfterGrace: it looks at the connection ...
UnreachableWakes(g) ==
  /\ g.kind = "unreachable" /\ g.at = "sleep" /\ g.left = 0
  /\ IF ~present THEN flags' = flags \ {"pendingUnreachable"} ELSE UNCHANGED flags
  /\ IF ~present \/ up THEN Ends(g) ELSE Goes(g, "claim", 0)
  /\ UNCHANGED <<quiet, dberrs, history>>

\* ... and then claims the flag, if there still is one.
UnreachableClaims(g) ==
  /\ g.kind = "unreachable" /\ g.at = "claim"
  /\ flags' = flags \ {"pendingUnreachable"}
  /\ IF "pendingUnreachable" \in flags THEN Goes(g, "read", 0) ELSE Ends(g)
  /\ UNCHANGED <<quiet, dberrs, history>>

\* emitReconnectedAfterStabilize: the flag first, then the connection.
ReconnectedWakes(g) ==
  /\ g.kind = "reconnected" /\ g.at = "sleep" /\ g.left = 0
  /\ flags' = flags \ {"pendingReconnected"}
  /\ IF present /\ "pendingReconnected" \in flags THEN Goes(g, "check", 0) ELSE Ends(g)
  /\ UNCHANGED <<quiet, dberrs, history>>

ReconnectedChecks(g) ==
  /\ g.kind = "reconnected" /\ g.at = "check"
  /\ IF up THEN Goes(g, "read", 0) ELSE Ends(g)
  /\ UNCHANGED <<quiet, flags, dberrs, history>>

Heard(g) == present /\ g.kind \in Subscribed

\* emitLifecycleWebhook reads the subscribers.  Nobody is told of an event that
\* none of them matches, or of an instance that is gone ...
NobodyListens(g) ==
  /\ g.at = "read" /\ ~Heard(g)
  /\ Ends(g)
  /\ UNCHANGED <<quiet, flags, dberrs, history>>

\* ... disconnected sleeps before it goes out ...
DisconnectedSleeps(g) ==
  /\ g.at = "read" /\ Heard(g) /\ g.kind = "disconnected"
  /\ Goes(g, "grace", LongGrace)
  /\ UNCHANGED <<quiet, flags, dberrs, history>>

\* ... and only now is an outage marked as notified.
Decides(g) ==
  /\ g.at = "read" /\ Heard(g) /\ g.kind # "disconnected"
  /\ Goes(g, "post", 0)
  /\ \/ /\ g.kind = "unreachable"
        /\ flags' = flags \cup {"disconnectNotified"}
        /\ alarm' = TRUE /\ told' = TRUE /\ owed' = owed + 1
     \/ /\ g.kind = "reconnected"
        /\ alarm' = FALSE /\ owed' = owed - 1
        /\ UNCHANGED <<flags, told>>
     \/ /\ g.kind \notin {"unreachable", "reconnected"}
        /\ UNCHANGED <<flags, alarm, told, owed>>
  /\ UNCHANGED <<quiet, dberrs, last, settled>>

ReadFails(g) ==
  /\ g.at = "read"
  /\ dberrs < MaxDbErrors /\ dberrs' = dberrs + 1
  /\ Ends(g)
  /\ UNCHANGED <<quiet, flags, history>>

\* disconnected: only if the instance is there and down two minutes later.
DisconnectedWakes(g) ==
  /\ g.at = "grace" /\ g.left = 0
  /\ IF present /\ ~up THEN Goes(g, "post", 0) ELSE Ends(g)
  /\ UNCHANGED <<quiet, flags, dberrs, history>>

Posts(g) ==
  /\ g.at = "post"
  /\ Ends(g)
  /\ UNCHANGED <<quiet, flags, dberrs, history>>

Emit(g) ==
  \/ UnreachableWakes(g) \/ UnreachableClaims(g)
  \/ ReconnectedWakes(g) \/ ReconnectedChecks(g)
  \/ NobodyListens(g) \/ DisconnectedSleeps(g) \/ Decides(g)
  \/ ReadFails(g) \/ DisconnectedWakes(g) \/ Posts(g)

Emissions == \E g \in running : Emit(g)

Surroundings ==
  \/ Drop \/ ServerLogout \/ Handshake \/ Pair \/ Strike
  \/ ApiRestart \/ ApiLogout \/ ApiDelete \/ ApiCreate

OnLifecycle == Handle \/ HandleFails

Next == Surroundings \/ BootstrapEnds \/ Tick \/ OnLifecycle \/ Emissions

Spec == Init /\ [][Next]_vars

\* Time passes, events are handed over and goroutines run; nothing makes the
\* network or a caller act.
FairSpec ==
  Spec /\ WF_vars(Tick) /\ WF_vars(BootstrapEnds) /\ WF_vars(OnLifecycle) /\ WF_vars(Emissions)

-----------------------------------------------------------------------------
(* Properties *)

\* Every variable keeps its type.
TypeOK ==
  /\ present \in BOOLEAN /\ paired \in BOOLEAN /\ up \in BOOLEAN /\ boot \in BOOLEAN
  /\ queue \in Seq(Reports) /\ flags \subseteq Flags /\ running \subseteq Goroutine
  /\ n \in Nat /\ events \in 0 .. MaxEvents /\ dberrs \in 0 .. MaxDbErrors
  /\ last \in Reports \cup {"none"}
  /\ settled \in BOOLEAN /\ alarm \in BOOLEAN /\ told \in BOOLEAN /\ owed \in Int

New(kind) == \E g \in running' : g.kind = kind /\ g.n > n

\* connected is announced once per session: not again when whatsmeow renews
\* its handshake, nor after a start or a blip that was passed over in silence
\* (connectedEmitted).
NoSpuriousConnected == [][New("connected") => ~settled]_vars

\* reconnected never outnumbers unreachable: every recovery that is announced
\* answers an outage that was (disconnectNotified and pendingReconnected).
RecoveryAnswersAlarm == owed >= 0

\* The database never fails, the connection goes down for good and onLifecycle
\* heard of it.
Outage == ~up /\ present /\ last = "disconnected" /\ dberrs = 0

\* An outage that lasts ends with the orchestrator told, whatever flaps, late
\* goroutines and stale flags came before (emitUnreachableAfterGrace).
OutageIsAnnounced == <>[]Outage => <>[]told

\* A goroutine is going to tell: the flag is there for it to claim, or it has.
Warning ==
  \E g \in running :
    /\ g.kind = "unreachable"
    /\ g.at = "read" \/ (g.at \in {"sleep", "claim"} /\ "pendingUnreachable" \in flags)

\* A report that the connection ended still waits for onLifecycle.
EndQueued == \E i \in DOMAIN queue : queue[i] \in {"disconnected", "logged_out"}

\* At no moment is an outage forgotten: the orchestrator has been told, or a
\* goroutine is going to, or the report of this outage is still queued.  So a
\* timer that ends because the connection is back leaves the next outage to a
\* timer of its own (emitUnreachableAfterGrace).
OutageIsNoticed == Outage /\ "unreachable" \in Subscribed => told \/ Warning \/ EndQueued

\* docs/architecture/lifecycle-events.md:23: a connection that is back after
\* unreachable is announced as reconnected once it is stable.  So when it is up
\* for good and no longer marked as notified down, the pill is not "unreachable".
RecoveryIsAnnounced ==
  <>[](up /\ present /\ "disconnectNotified" \notin flags) => []<>~alarm

-----------------------------------------------------------------------------
(* The inductive invariant behind NoSpuriousConnected and                  *)
(* RecoveryAnswersAlarm                                                    *)

\* Goroutines are told apart by the event that started them.
NumberedInv == IsFiniteSet(running) /\ \A g \in running : g.n <= n

\* Each Connected that was handled left its mark for the session.
SettledInv == settled => "connectedEmitted" \in flags

Recovering == {g \in running : g.kind = "reconnected" /\ g.at # "post"}
Notified == IF "disconnectNotified" \in flags THEN 1 ELSE 0

\* An alarm is spent on the flag, or on the one recovery that took the flag.
OwedInv == Cardinality(Recovering) + Notified <= owed

LifecycleInv == TypeOK /\ NumberedInv /\ SettledInv /\ OwedInv
=============================================================================
