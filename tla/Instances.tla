------------------------------ MODULE Instances ------------------------------
(***************************************************************************)
(* The life of one instance in the manager (internal/manager/manager.go):  *)
(* its Conn in Manager.instances, its row in bridge_instance, and the      *)
(* callers of WaitReady.                                                   *)
(*                                                                         *)
(* The API calls run under Manager.mu and touch the row once, so each is   *)
(* one step with its possible failures.  onLifecycle does not take that    *)
(* lock: it updates the row by name, when whatsmeow gets round to it, also *)
(* for a Conn that has been replaced meanwhile.  WaitReady looks at the    *)
(* map, the row and the list of waiters in separate steps.                 *)
(***************************************************************************)
EXTENDS Integers, Sequences, FiniteSets

CONSTANTS
  Callers,      \* goroutines inside WaitReady, one call each
  MaxConns,     \* bound: Conns started in a behaviour
  MaxPairings,  \* bound: devices linked in a behaviour
  MaxEvents,    \* bound: changes of the connection
  MaxFailures   \* bound: failed statements, connects and server logouts

ASSUME InstancesAssumption ==
  /\ MaxConns \in Nat \ {0} /\ MaxPairings \in Nat
  /\ MaxEvents \in Nat /\ MaxFailures \in Nat

Conns == 1 .. MaxConns
Jids == 1 .. MaxPairings  \* the JID of a linked device, in order of linking
NoConn == 0
NoJid == 0
NoRow == [exists |-> FALSE, jid |-> NoJid, paired |-> FALSE, ready |-> FALSE]

VARIABLES
  conns,    \* [alive, socket, jid, qr] of each Conn: not Disconnect()ed yet,
            \* its WebSocket, Store.ID, lastQRPNG
  current,  \* the Conn in Manager.instances
  started,  \* Conns started so far
  row,      \* the row of the instance: jid, and whether paired_at, ready_at are set
  linked,   \* devices that are in the container and that WhatsApp accepts
  pairings, \* devices linked so far
  pending,  \* pending[g]: events of Conn g on their way to onLifecycle
  pc, seen, \* what each caller of WaitReady is about to do, the Conn it found
  waiters,  \* Manager.waiters
  reply,    \* the answer each caller got: a state, "404" or "408"
  events, failures,
  missed,   \* history: callers that a Connected found between Status and waiters
  late      \* history: an event was handled after its Conn had been replaced

sessions == <<conns, current, started, linked, pairings>>
waiting == <<pc, seen, waiters, reply>>
history == <<missed, late>>
vars == <<sessions, row, pending, waiting, events, failures, history>>

Idle == [alive |-> FALSE, socket |-> "closed", jid |-> NoJid, qr |-> FALSE]

Init ==
  /\ conns = [g \in Conns |-> Idle] /\ current = NoConn /\ started = 0
  /\ row = NoRow
  /\ linked = {} /\ pairings = 0
  /\ pending = [g \in Conns |-> <<>>]
  /\ pc = [w \in Callers |-> "idle"] /\ seen = [w \in Callers |-> NoConn]
  /\ waiters = {} /\ reply = [w \in Callers |-> "none"]
  /\ events = 0 /\ failures = 0 /\ missed = {} /\ late = FALSE

Connected(g) == g # NoConn /\ conns[g].socket = "up"
JidOf(g) == IF g = NoConn THEN NoJid ELSE conns[g].jid

\* The state Status derives for a row and the Conn it found in the map: the
\* first case that holds.
State(g) ==
  IF g = NoConn THEN "disconnected"
  ELSE IF row.ready /\ Connected(g) THEN "ready"
  ELSE IF row.paired THEN "paired"
  ELSE IF conns[g].qr THEN "qr_pending" ELSE "provisioning"

Fails == failures < MaxFailures /\ failures' = failures + 1
Works == UNCHANGED failures

-----------------------------------------------------------------------------
(* Starting and stopping a Conn, under Manager.mu *)

\* A slip: the Conn is dropped from the map but not disconnected.
ClosedNot == conns

\* Conn.Disconnect: events already on their way stay on their way.
Closed == IF current = NoConn THEN conns
          ELSE [conns EXCEPT ![current].alive = FALSE, ![current].socket = "closed"]

\* startLocked: the device of the row if the container still has it, else a
\* new one that will show a QR.
Start(table, jid) ==
  /\ started < MaxConns
  /\ started' = started + 1
  /\ current' = started'
  /\ conns' = [table EXCEPT ![started'] =
       [Idle EXCEPT !.alive = TRUE, !.socket = "open", !.jid = IF jid \in linked THEN jid ELSE NoJid]]

\* It fails to acquire the device or to connect: the map goes without.
Stop(table) ==
  /\ current' = NoConn
  /\ conns' = table
  /\ UNCHANGED started

\* Disconnect, delete from the map, read the jid and start again.  A failure
\* to read the jid is ignored, and goes on as an instance without one.
Restarted ==
  /\ \/ Works /\ Start(Closed, row.jid)
     \/ Fails /\ Start(Closed, NoJid)
     \/ Fails /\ Stop(Closed)
  /\ UNCHANGED <<row, linked, pairings, pending, waiting, events, history>>

-----------------------------------------------------------------------------
(* Slips a maintainer could make, each caught by a property below.         *)

\* The row is written with an upsert.
WriteUpsert(value) == row' = [value EXCEPT !.exists = TRUE]

\* The waiters are told only of the first Connected, when ready_at is set.
NotifyReadyFirst ==
  IF row.ready THEN UNCHANGED <<pc, waiters>>
  ELSE /\ pc' = [w \in Callers |-> IF w \in waiters THEN "woken" ELSE pc[w]]
       /\ waiters' = {}

\* The JID is left to the first Connected.
PairedRowStamp(jid) == [row EXCEPT !.paired = TRUE]

-----------------------------------------------------------------------------
(* The API *)

\* CreateWithOpts, with the row already there or written by the first INSERT.
\* A Conn that can no longer show a QR is replaced, any other is kept.
Kept ==
  /\ current # NoConn
  /\ conns[current].socket # "closed" \/ conns[current].jid # NoJid

Create ==
  LET written == [row EXCEPT !.exists = TRUE] IN
  /\ ~Kept
  /\ row' = written
  /\ \/ Works /\ Start(Closed, row.jid)
     \/ Fails /\ Stop(Closed)
  /\ UNCHANGED <<linked, pairings, pending, waiting, events, history>>

RefreshQR ==
  /\ current # NoConn
  /\ ~(conns[current].jid # NoJid /\ Connected(current))
  /\ Restarted

Restart == current # NoConn /\ Restarted

\* Conn.Logout: WhatsApp unlinks the device and the container forgets it.  It
\* cannot be asked without a connection and may not answer; the error is
\* ignored.
Unlink ==
  \/ linked' = linked \ {JidOf(current)} /\ (JidOf(current) = NoJid \/ Connected(current))
  \/ linked' = linked /\ JidOf(current) # NoJid

Logout ==
  /\ current # NoConn
  /\ Unlink
  /\ \/ /\ row' = [row EXCEPT !.jid = NoJid]
        /\ \/ Works /\ Start(Closed, NoJid)
           \/ Fails /\ Stop(Closed)
     \/ Fails /\ Stop(Closed) /\ UNCHANGED row
  /\ UNCHANGED <<pairings, pending, waiting, events, history>>

Delete ==
  /\ row.exists \/ current # NoConn
  /\ IF current = NoConn THEN UNCHANGED linked ELSE Unlink
  /\ Stop(Closed)
  /\ \/ Works /\ row' = NoRow
     \/ Fails /\ UNCHANGED row
  /\ UNCHANGED <<pairings, pending, waiting, events, history>>

\* The process dies with everything it holds in memory; Bootstrap starts the
\* instance of the row again, and goes on without it if that fails.
Reboot ==
  /\ Fails
  /\ IF row.exists THEN Start(Closed, row.jid) \/ Stop(Closed) ELSE Stop(Closed)
  /\ pending' = [g \in Conns |-> <<>>]
  /\ pc' = [w \in Callers |-> IF pc[w] = "idle" THEN "idle" ELSE "done"]
  /\ waiters' = {}
  /\ UNCHANGED <<row, linked, pairings, seen, reply, events, history>>

-----------------------------------------------------------------------------
(* whatsmeow *)

Event == events < MaxEvents /\ events' = events + 1
Emit(g, kind, jid) == pending' = [pending EXCEPT ![g] = Append(@, [kind |-> kind, jid |-> jid])]

ShowQR(g) ==
  /\ Event
  /\ conns[g].alive /\ conns[g].socket = "open" /\ conns[g].jid = NoJid
  /\ conns' = [conns EXCEPT ![g].qr = TRUE]
  /\ UNCHANGED <<current, started, linked, pairings, row, pending, waiting, failures, history>>

\* Nobody scans it: whatsmeow closes the connection, the last PNG stays.
QRTimesOut(g) ==
  /\ Event
  /\ conns[g].alive /\ conns[g].socket = "open" /\ conns[g].jid = NoJid
  /\ conns' = [conns EXCEPT ![g].socket = "closed"]
  /\ UNCHANGED <<current, started, linked, pairings, row, pending, waiting, failures, history>>

PairSuccess(g) ==
  /\ Event
  /\ conns[g].alive /\ conns[g].socket = "open" /\ conns[g].jid = NoJid /\ conns[g].qr
  /\ pairings < MaxPairings
  /\ pairings' = pairings + 1
  /\ linked' = linked \cup {pairings'}
  /\ conns' = [conns EXCEPT ![g].jid = pairings']
  /\ Emit(g, "paired", pairings')
  /\ UNCHANGED <<current, started, row, waiting, failures, history>>

Connects(g) ==
  /\ Event
  /\ conns[g].alive /\ conns[g].jid \in linked
  /\ conns' = [conns EXCEPT ![g].socket = "up", ![g].qr = FALSE]
  /\ Emit(g, "connected", conns[g].jid)
  /\ UNCHANGED <<current, started, linked, pairings, row, waiting, failures, history>>

Drops(g) ==
  /\ Event
  /\ Connected(g)
  /\ conns' = [conns EXCEPT ![g].socket = "closed"]
  /\ Emit(g, "disconnected", NoJid)
  /\ UNCHANGED <<current, started, linked, pairings, row, waiting, failures, history>>

\* The phone unlinks the device; whatsmeow deletes it from the container.
LoggedOut(g) ==
  /\ Event
  /\ conns[g].alive /\ conns[g].jid # NoJid
  /\ linked' = linked \ {conns[g].jid}
  /\ conns' = [conns EXCEPT ![g].socket = "closed", ![g].jid = NoJid]
  /\ Emit(g, "logged_out", NoJid)
  /\ UNCHANGED <<current, started, pairings, row, waiting, failures, history>>

-----------------------------------------------------------------------------
(* onLifecycle *)

PairedRow(jid) == [row EXCEPT !.jid = jid, !.paired = TRUE]
ConnectedRow(jid) == [row EXCEPT !.jid = IF @ = NoJid THEN jid ELSE @, !.ready = TRUE]
LoggedOutRow == [row EXCEPT !.jid = NoJid, !.paired = FALSE, !.ready = FALSE]

\* UPDATE ... WHERE name: nothing happens to a row that is not there.
Write(value) == row' = IF row.exists THEN value ELSE row

NotifyReady ==
  /\ pc' = [w \in Callers |-> IF w \in waiters THEN "woken" ELSE pc[w]]
  /\ waiters' = {}

\* notifyReady is deferred, so it runs even when the UPDATE fails.
OnLifecycle(g) ==
  /\ pending[g] # <<>>
  /\ pending' = [pending EXCEPT ![g] = Tail(@)]
  /\ LET e == Head(pending[g]) IN
     /\ \/ /\ Works
           /\ \/ e.kind = "paired" /\ Write(PairedRow(e.jid))
              \/ e.kind = "connected" /\ Write(ConnectedRow(e.jid))
              \/ e.kind = "logged_out" /\ Write(LoggedOutRow)
              \/ e.kind = "disconnected" /\ UNCHANGED row
        \/ Fails /\ UNCHANGED row
     /\ IF e.kind = "connected"
        THEN /\ NotifyReady
             /\ missed' = missed \cup {w \in Callers : pc[w] \in {"status", "register"}}
        ELSE UNCHANGED <<pc, waiters, missed>>
  /\ late' = (late \/ g # current)
  /\ UNCHANGED <<sessions, seen, reply, events>>

-----------------------------------------------------------------------------
(* WaitReady *)

Goes(w, place) == pc' = [pc EXCEPT ![w] = place]
Answers(w, what) == Goes(w, "done") /\ reply' = [reply EXCEPT ![w] = what]

\* Status, first the map ...
Look(w) ==
  /\ \/ pc[w] = "idle" /\ Goes(w, "status")
     \/ pc[w] = "woken" /\ Goes(w, "fresh")
  /\ seen' = [seen EXCEPT ![w] = current]
  /\ UNCHANGED <<sessions, row, pending, waiters, reply, events, failures, history>>

\* ... then the row, and the connection of the Conn that was there.
Query(w) ==
  LET found == State(seen[w]) IN
  /\ pc[w] \in {"status", "fresh"}
  /\ \/ /\ ~row.exists /\ seen[w] = NoConn
        /\ Answers(w, "404")
     \/ /\ row.exists \/ seen[w] # NoConn
        /\ pc[w] = "fresh" \/ found = "ready"
        /\ Answers(w, found)
     \/ /\ row.exists \/ seen[w] # NoConn
        /\ pc[w] = "status" /\ found # "ready"
        /\ Goes(w, "register") /\ UNCHANGED reply
  /\ UNCHANGED <<sessions, row, pending, seen, waiters, events, failures, history>>

Register(w) ==
  /\ pc[w] = "register"
  /\ waiters' = waiters \cup {w}
  /\ Goes(w, "wait")
  /\ UNCHANGED <<sessions, row, pending, seen, reply, events, failures, history>>

\* select may take the deadline even when the channel is closed as well.
Timeout(w) ==
  /\ pc[w] \in {"wait", "woken"}
  /\ waiters' = waiters \ {w}
  /\ Answers(w, "408")
  /\ UNCHANGED <<sessions, row, pending, seen, events, failures, history>>

-----------------------------------------------------------------------------
Api == Create \/ RefreshQR \/ Restart \/ Logout \/ Delete

Whatsmeow ==
  \E g \in Conns :
    ShowQR(g) \/ QRTimesOut(g) \/ PairSuccess(g) \/ Connects(g) \/ Drops(g) \/ LoggedOut(g)

WaitReady(w) == Look(w) \/ Query(w) \/ Register(w)

Next ==
  \/ Api \/ Reboot \/ Whatsmeow
  \/ \E g \in Conns : OnLifecycle(g)
  \/ \E w \in Callers : WaitReady(w) \/ Timeout(w)

Spec == Init /\ [][Next]_vars

-----------------------------------------------------------------------------
(* Properties *)

Kinds == {"paired", "connected", "disconnected", "logged_out"}
States == {"ready", "paired", "qr_pending", "provisioning", "disconnected"}

\* Every variable keeps its type.
TypeOK ==
  /\ conns \in [Conns -> [alive : BOOLEAN, socket : {"closed", "open", "up"},
                          jid : Jids \cup {NoJid}, qr : BOOLEAN]]
  /\ started \in 0 .. MaxConns /\ current \in 0 .. started
  /\ row \in [exists : BOOLEAN, jid : Jids \cup {NoJid}, paired : BOOLEAN, ready : BOOLEAN]
  /\ linked \subseteq 1 .. pairings /\ pairings \in 0 .. MaxPairings
  /\ pending \in [Conns -> Seq([kind : Kinds, jid : Jids \cup {NoJid}])]
  /\ pc \in [Callers -> {"idle", "status", "register", "wait", "woken", "fresh", "done"}]
  /\ seen \in [Callers -> 0 .. started]
  /\ waiters \subseteq Callers /\ missed \subseteq Callers /\ late \in BOOLEAN
  /\ reply \in [Callers -> States \cup {"none", "404", "408"}]
  /\ events \in 0 .. MaxEvents /\ failures \in 0 .. MaxFailures

\* Nothing is on its way to onLifecycle.
Quiet == \A g \in Conns : pending[g] = <<>>

\* Only the Conn in the map holds a connection: two of them would answer for
\* the same device and throw each other out (Create, RefreshQR, Restart,
\* Logout, Delete, Bootstrap).
AtMostOneSession == \A g \in Conns : conns[g].alive => g = current

\* Manager.waiters holds the callers that wait, no more and no less: nobody
\* waits without being reachable, no channel outlives its caller.
WaitersAreWaiting == waiters = {w \in Callers : pc[w] = "wait"}

\* The row can bring the session back after a restart of the process: without
\* failures, and once every event is handled, it knows the linked device.  An
\* event handled after its Conn was replaced may put an old JID there.
SessionRemembered ==
  Quiet /\ failures = 0 /\ ~late /\ JidOf(current) \in linked => row.jid = JidOf(current)

\* A deleted instance is not brought back by an event that was on its way, and
\* only Create writes the row (onLifecycle).
StaysDeleted == [][~row.exists /\ row'.exists => pending' = pending]_vars

\* A caller that waits although the instance is ready was overtaken by the
\* Connected that made it so: no other way to miss it (WaitReady, notifyReady).
ServedUnlessMissed == Quiet /\ State(current) = "ready" => waiters \subseteq missed

=============================================================================
