-------------------------- MODULE InstancesProofs --------------------------
(***************************************************************************)
(* Proofs about the life of an instance, for every number of Conns,        *)
(* devices, events, failures and callers of WaitReady: one session at a    *)
(* time, no waiter lost or left behind but by the race of WaitReady, no    *)
(* deleted row brought back, and a row that remembers its session.         *)
(*                                                                         *)
(* SessionsInv is inductive with the types of the variables, ServedInv and *)
(* RememberInv with SessionsInv.                                           *)
(***************************************************************************)
EXTENDS Instances, TLAPS

SessionsInv == TypeOK /\ AtMostOneSession /\ WaitersAreWaiting

\* Nothing runs at first.
LEMMA InitInv == Init => SessionsInv
<1> SUFFICES ASSUME Init PROVE SessionsInv
  OBVIOUS
<1>1. conns \in [Conns -> [alive : BOOLEAN, socket : {"closed", "open", "up"},
                         jid : Jids \cup {NoJid}, qr : BOOLEAN]]
  BY DEF Init, Idle, NoJid
<1>2. row \in [exists : BOOLEAN, jid : Jids \cup {NoJid}, paired : BOOLEAN, ready : BOOLEAN]
  BY DEF Init, NoRow, NoJid
<1>3. pending \in [Conns -> Seq([kind : Kinds, jid : Jids \cup {NoJid}])]
  BY DEF Init
<1>4. current \in 0 .. started /\ seen \in [Callers -> 0 .. started]
  BY DEF Init, NoConn
<1>5. started \in 0 .. MaxConns /\ pairings \in 0 .. MaxPairings /\ events \in 0 .. MaxEvents
      /\ failures \in 0 .. MaxFailures
  BY InstancesAssumption DEF Init
<1>6. TypeOK
  BY <1>1, <1>2, <1>3, <1>4, <1>5 DEF Init, TypeOK
<1>7. AtMostOneSession /\ WaitersAreWaiting
  BY DEF Init, AtMostOneSession, WaitersAreWaiting, Idle
<1> QED BY <1>6, <1>7 DEF SessionsInv

-----------------------------------------------------------------------------
(* Types of a Conn, a row and an event *)

ConnType == [alive : BOOLEAN, socket : {"closed", "open", "up"}, jid : Jids \cup {NoJid},
             qr : BOOLEAN]
RowType == [exists : BOOLEAN, jid : Jids \cup {NoJid}, paired : BOOLEAN, ready : BOOLEAN]
EventType == [kind : Kinds, jid : Jids \cup {NoJid}]

\* The changes the code makes to a row keep its type.
LEMMA RowChanges ==
  ASSUME NEW r \in RowType, NEW jid \in Jids \cup {NoJid}
  PROVE  /\ [r EXCEPT !.exists = TRUE] \in RowType
         /\ [r EXCEPT !.jid = jid] \in RowType
         /\ [r EXCEPT !.jid = jid, !.paired = TRUE] \in RowType
         /\ [r EXCEPT !.jid = jid, !.ready = TRUE] \in RowType
         /\ [r EXCEPT !.jid = jid, !.paired = FALSE, !.ready = FALSE] \in RowType
BY DEF RowType

SameLife(c) == {d \in ConnType : d.alive = c.alive}

\* The changes whatsmeow makes to a Conn keep its type, and whether it lives.
LEMMA ConnChanges ==
  ASSUME NEW c \in ConnType, NEW jid \in Jids \cup {NoJid}
  PROVE  /\ [c EXCEPT !.qr = TRUE] \in SameLife(c)
         /\ [c EXCEPT !.socket = "closed"] \in SameLife(c)
         /\ [c EXCEPT !.jid = jid] \in SameLife(c)
         /\ [c EXCEPT !.socket = "up", !.qr = FALSE] \in SameLife(c)
         /\ [c EXCEPT !.socket = "closed", !.jid = jid] \in SameLife(c)
BY DEF ConnType, SameLife

\* What is left of a queue, and what is added to it, keep its type.
LEMMA Queues ==
  ASSUME NEW S, NEW s \in Seq(S)
  PROVE  /\ s # <<>> => Head(s) \in S /\ Tail(s) \in Seq(S)
         /\ \A e \in S : Append(s, e) \in Seq(S)
OBVIOUS

-----------------------------------------------------------------------------
(* Starting and stopping a Conn *)

\* The sessions part of the type invariant, and what the map holds.
ConnsInv ==
  /\ conns \in [Conns -> ConnType]
  /\ started \in 0 .. MaxConns /\ current \in 0 .. started
  /\ AtMostOneSession

\* Once the Conn of the map is closed, no Conn is alive.
LEMMA ClosedIsClosed ==
  ASSUME ConnsInv
  PROVE  Closed \in [Conns -> ConnType] /\ \A g \in Conns : ~Closed[g].alive
<1>1. CASE current = NoConn
  BY <1>1 DEF Closed, ConnsInv, AtMostOneSession, Conns, NoConn
<1>2. CASE current # NoConn
  <2>1. current \in Conns
    BY <1>2, InstancesAssumption DEF ConnsInv, Conns, NoConn
  <2>2. Closed \in [Conns -> ConnType]
    BY <1>2, <2>1 DEF Closed, ConnsInv, ConnType
  <2>3. \A g \in Conns : ~Closed[g].alive
    BY <1>2, <2>1 DEF Closed, ConnsInv, ConnType, AtMostOneSession
  <2> QED BY <2>2, <2>3
<1> QED BY <1>1, <1>2

\* The Conn that starts is the one of the map, and the only one alive.
LEMMA StartInv ==
  ASSUME ConnsInv, NEW jid \in Jids \cup {NoJid}, Start(Closed, jid)
  PROVE  ConnsInv' /\ started <= started'
<1>0. Closed \in [Conns -> ConnType] /\ \A g \in Conns : ~Closed[g].alive
  BY ClosedIsClosed
<1>1. /\ started' = started + 1 /\ current' = started'
      /\ started' \in Conns /\ started' \in 0 .. MaxConns /\ current' \in 0 .. started'
  BY InstancesAssumption DEF Start, ConnsInv, Conns
<1>2. PICK new \in ConnType : conns' = [Closed EXCEPT ![started'] = new]
  <2>1. \A j \in Jids \cup {NoJid} :
          [Idle EXCEPT !.alive = TRUE, !.socket = "open", !.jid = j] \in ConnType
    BY DEF Idle, ConnType, NoJid
  <2> QED BY <2>1 DEF Start
<1> HIDE DEF Closed
<1>3. conns' \in [Conns -> ConnType]
  BY <1>0, <1>1, <1>2
<1>4. AtMostOneSession'
  BY <1>0, <1>1, <1>2 DEF AtMostOneSession
<1>5. started <= started'
  BY <1>1 DEF ConnsInv
<1> QED BY <1>1, <1>3, <1>4, <1>5 DEF ConnsInv

\* Without a new Conn nothing is alive at all.
LEMMA StopInv ==
  ASSUME ConnsInv, Stop(Closed)
  PROVE  ConnsInv' /\ started <= started'
<1>1. Closed \in [Conns -> ConnType] /\ \A g \in Conns : ~Closed[g].alive
  BY ClosedIsClosed
<1> HIDE DEF Closed
<1> QED BY <1>1, InstancesAssumption DEF Stop, ConnsInv, AtMostOneSession, NoConn

\* A restart, in any of its outcomes, is one of the two.
LEMMA RestartedInv ==
  ASSUME ConnsInv, row.jid \in Jids \cup {NoJid}, Restarted
  PROVE  ConnsInv' /\ started <= started'
<1>1. Start(Closed, row.jid) \/ Start(Closed, NoJid) \/ Stop(Closed)
  BY DEF Restarted
<1> QED BY <1>1, StartInv, StopInv

-----------------------------------------------------------------------------
(* The invariant, action by action *)

\* The row, the events and the callers keep their types while the calls of the
\* API change the Conns.
LEMMA ApiInv ==
  ASSUME SessionsInv, Api
  PROVE  SessionsInv'
<1>0. ConnsInv /\ row.jid \in Jids \cup {NoJid}
  BY DEF SessionsInv, TypeOK, ConnsInv, ConnType
<1>1. UNCHANGED <<pairings, pending, waiting, events, history>> /\ linked' \subseteq linked
  BY DEF Api, Create, RefreshQR, Restart, Restarted, Logout, Delete, Unlink
<1>2. ConnsInv' /\ started <= started'
  <2>1. CASE Create
    BY <1>0, <2>1, StartInv, StopInv DEF Create
  <2>2. CASE RefreshQR \/ Restart
    BY <1>0, <2>2, RestartedInv DEF RefreshQR, Restart
  <2>3. CASE Logout
    BY <1>0, <2>3, StartInv, StopInv DEF Logout
  <2>4. CASE Delete
    BY <1>0, <2>4, StopInv DEF Delete
  <2> QED BY <2>1, <2>2, <2>3, <2>4 DEF Api
<1>3. row' \in RowType
  <2>1. row \in RowType /\ NoJid \in Jids \cup {NoJid} /\ NoRow \in RowType
    BY DEF SessionsInv, TypeOK, RowType, NoRow
  <2>2. \/ row' \in {row, NoRow}
        \/ row' = [row EXCEPT !.exists = TRUE]
        \/ row' = [row EXCEPT !.jid = NoJid]
    BY Zenon DEF Api, Create, RefreshQR, Restart, Restarted, Logout, Delete
  <2> QED BY <2>1, <2>2, RowChanges
<1>4. failures' \in 0 .. MaxFailures
  BY InstancesAssumption
     DEF Api, Create, RefreshQR, Restart, Restarted, Logout, Delete, Fails, Works, SessionsInv, TypeOK
<1>5. TypeOK'
  <2>1. seen' \in [Callers -> 0 .. started']
    BY <1>1, <1>2 DEF SessionsInv, TypeOK, ConnsInv, waiting
  <2>2. linked' \subseteq 1 .. pairings'
    BY <1>1 DEF SessionsInv, TypeOK
  <2>3. conns' \in [Conns -> ConnType] /\ started' \in 0 .. MaxConns /\ current' \in 0 .. started'
    BY <1>2 DEF ConnsInv
  <2> QED BY <1>1, <1>3, <1>4, <2>1, <2>2, <2>3
          DEF SessionsInv, TypeOK, ConnType, RowType, waiting, history
<1>6. WaitersAreWaiting'
  BY <1>1 DEF SessionsInv, WaitersAreWaiting, waiting
<1> QED BY <1>2, <1>5, <1>6 DEF SessionsInv, ConnsInv

\* The events of whatsmeow change one Conn, and never bring it to life.
LEMMA WhatsmeowInv ==
  ASSUME SessionsInv, NEW g \in Conns,
         ShowQR(g) \/ QRTimesOut(g) \/ PairSuccess(g) \/ Connects(g) \/ Drops(g) \/ LoggedOut(g)
  PROVE  SessionsInv'
<1>0. TypeOK /\ AtMostOneSession
  BY DEF SessionsInv
<1>1. UNCHANGED <<current, started, row, waiting, failures, history>>
  BY DEF ShowQR, QRTimesOut, PairSuccess, Connects, Drops, LoggedOut
<1>2. events' \in 0 .. MaxEvents
  BY <1>0, InstancesAssumption
     DEF TypeOK, Event, ShowQR, QRTimesOut, PairSuccess, Connects, Drops, LoggedOut
<1>3. /\ pairings' \in 0 .. MaxPairings /\ linked' \subseteq 1 .. pairings'
      /\ pairings' # pairings => pairings' \in Jids
  BY <1>0, InstancesAssumption
     DEF TypeOK, Jids, ShowQR, QRTimesOut, PairSuccess, Connects, Drops, LoggedOut
<1>4. conns' \in [Conns -> ConnType] /\ \A h \in Conns : conns'[h].alive = conns[h].alive
  <2>1. conns \in [Conns -> ConnType] /\ conns[g] \in ConnType
    BY <1>0 DEF TypeOK, ConnType
  <2>2. PICK jid \in Jids \cup {NoJid} :
          LET c == conns[g] IN
          \/ conns' = [conns EXCEPT ![g] = [c EXCEPT !.qr = TRUE]]
          \/ conns' = [conns EXCEPT ![g] = [c EXCEPT !.socket = "closed"]]
          \/ conns' = [conns EXCEPT ![g] = [c EXCEPT !.jid = jid]]
          \/ conns' = [conns EXCEPT ![g] = [c EXCEPT !.socket = "up", !.qr = FALSE]]
          \/ conns' = [conns EXCEPT ![g] = [c EXCEPT !.socket = "closed", !.jid = jid]]
    <3>0. NoJid \in Jids \cup {NoJid}
      OBVIOUS
    <3>1. CASE PairSuccess(g)
      <4>1. pairings' \in Jids
        BY <1>0, <1>3, <3>1 DEF PairSuccess, TypeOK
      <4> QED BY <3>1, <4>1, Zenon DEF PairSuccess
    <3>2. CASE ~PairSuccess(g)
      BY <3>0, <3>2, Zenon DEF ShowQR, QRTimesOut, Connects, Drops, LoggedOut
    <3> QED BY <3>1, <3>2
  <2>3. PICK new \in SameLife(conns[g]) : conns' = [conns EXCEPT ![g] = new]
    BY <2>1, <2>2, ConnChanges
  <2> QED BY <2>1, <2>3 DEF SameLife
<1>5. pending' \in [Conns -> Seq(EventType)]
  <2>1. pending \in [Conns -> Seq(EventType)]
    BY <1>0 DEF TypeOK, EventType
  <2>2. pending' = pending \/ \E e \in EventType : pending' = [pending EXCEPT ![g] = Append(@, e)]
    <3>1. CASE PairSuccess(g)
      <4>1. [kind |-> "paired", jid |-> pairings'] \in EventType
        BY <1>0, <1>3, <3>1 DEF PairSuccess, TypeOK, EventType, Kinds
      <4> QED BY <3>1, <4>1 DEF PairSuccess, Emit
    <3>2. CASE Connects(g)
      <4>1. [kind |-> "connected", jid |-> conns[g].jid] \in EventType
        BY <1>0 DEF TypeOK, EventType, Kinds
      <4> QED BY <3>2, <4>1 DEF Connects, Emit
    <3>3. CASE Drops(g) \/ LoggedOut(g)
      <4>1. \A kind \in {"disconnected", "logged_out"} : [kind |-> kind, jid |-> NoJid] \in EventType
        BY DEF EventType, Kinds
      <4> QED BY <3>3, <4>1 DEF Drops, LoggedOut, Emit
    <3>4. CASE ShowQR(g) \/ QRTimesOut(g)
      BY <3>4 DEF ShowQR, QRTimesOut
    <3> QED BY <3>1, <3>2, <3>3, <3>4
  <2> QED BY <2>1, <2>2, Queues
<1>6. TypeOK'
  BY <1>0, <1>1, <1>2, <1>3, <1>4, <1>5 DEF TypeOK, ConnType, EventType, waiting, history
<1>7. AtMostOneSession' /\ WaitersAreWaiting'
  BY <1>0, <1>1, <1>4 DEF SessionsInv, AtMostOneSession, WaitersAreWaiting, waiting
<1> QED BY <1>6, <1>7 DEF SessionsInv

\* An event wakes all the waiters or none.
LEMMA OnLifecycleInv ==
  ASSUME SessionsInv, NEW g \in Conns, OnLifecycle(g)
  PROVE  SessionsInv'
<1>0. TypeOK /\ AtMostOneSession /\ WaitersAreWaiting
  BY DEF SessionsInv
<1>1. UNCHANGED <<sessions, seen, reply, events>> /\ pending[g] # <<>>
  BY DEF OnLifecycle
<1>2. pending \in [Conns -> Seq(EventType)] /\ row \in RowType
  BY <1>0 DEF TypeOK, EventType, RowType
<1>3. Head(pending[g]) \in EventType /\ Tail(pending[g]) \in Seq(EventType)
  BY <1>1, <1>2, Queues
<1>4. pending' \in [Conns -> Seq(EventType)]
  BY <1>1, <1>2, <1>3 DEF OnLifecycle
<1>5. row' \in RowType
  <2>1. PICK jid \in Jids \cup {NoJid} :
          \/ row' = row
          \/ row' = [row EXCEPT !.jid = jid, !.paired = TRUE]
          \/ row' = [row EXCEPT !.jid = jid, !.ready = TRUE]
          \/ row' = [row EXCEPT !.jid = jid, !.paired = FALSE, !.ready = FALSE]
    <3>1. /\ Head(pending[g]).jid \in Jids \cup {NoJid} /\ row.jid \in Jids \cup {NoJid}
          /\ NoJid \in Jids \cup {NoJid}
      BY <1>2, <1>3 DEF EventType, RowType
    <3>2. \E jid \in Jids \cup {NoJid} :
            ConnectedRow(Head(pending[g]).jid) = [row EXCEPT !.jid = jid, !.ready = TRUE]
      BY <3>1, Zenon DEF ConnectedRow
    <3> QED BY <3>1, <3>2, Zenon DEF OnLifecycle, Write, PairedRow, LoggedOutRow
  <2> QED BY <1>2, <2>1, RowChanges
<1>6. failures' \in 0 .. MaxFailures /\ missed' \subseteq Callers /\ late' \in BOOLEAN
  <2>1. failures' \in 0 .. MaxFailures
    BY <1>0, InstancesAssumption DEF OnLifecycle, TypeOK, Works, Fails
  <2>2. missed' \subseteq Callers
    BY <1>0 DEF OnLifecycle, TypeOK
  <2>3. late' \in BOOLEAN
    BY <1>0 DEF OnLifecycle, TypeOK
  <2> QED BY <2>1, <2>2, <2>3
<1>7. UNCHANGED <<pc, waiters>> \/ NotifyReady
  BY DEF OnLifecycle
<1>8. /\ pc' \in [Callers -> {"idle", "status", "register", "wait", "woken", "fresh", "done"}]
      /\ waiters' \subseteq Callers /\ WaitersAreWaiting'
  BY <1>0, <1>7 DEF TypeOK, NotifyReady, WaitersAreWaiting
<1>9. TypeOK'
  BY <1>0, <1>1, <1>4, <1>5, <1>6, <1>8 DEF TypeOK, EventType, RowType, sessions
<1>10. AtMostOneSession'
  BY <1>0, <1>1 DEF AtMostOneSession, sessions
<1> QED BY <1>8, <1>9, <1>10 DEF SessionsInv

\* A caller enters the list as it starts to wait, and leaves it as it stops.
LEMMA WaitReadyInv ==
  ASSUME SessionsInv, NEW w \in Callers, WaitReady(w) \/ Timeout(w)
  PROVE  SessionsInv'
<1>0. TypeOK /\ AtMostOneSession /\ WaitersAreWaiting
  BY DEF SessionsInv
<1>1. UNCHANGED <<sessions, row, pending, events, failures, history>>
  BY DEF WaitReady, Look, Query, Register, Timeout
<1>2. seen' \in [Callers -> 0 .. started]
  BY <1>0 DEF TypeOK, WaitReady, Look, Query, Register, Timeout
<1>3. State(seen[w]) \in States
  BY DEF State, States
<1>4. reply' \in [Callers -> States \cup {"none", "404", "408"}]
  BY <1>0, <1>3 DEF TypeOK, WaitReady, Look, Query, Register, Timeout, Answers
<1>5. PICK place \in {"status", "register", "wait", "fresh", "done"} :
        /\ pc' = [pc EXCEPT ![w] = place]
        /\ waiters' = IF place = "wait" THEN waiters \cup {w} ELSE waiters \ {w}
  BY <1>0 DEF WaitersAreWaiting, WaitReady, Look, Query, Register, Timeout, Goes, Answers
<1>6. /\ pc' \in [Callers -> {"idle", "status", "register", "wait", "woken", "fresh", "done"}]
      /\ waiters' \subseteq Callers /\ WaitersAreWaiting'
  BY <1>0, <1>5 DEF TypeOK, WaitersAreWaiting
<1>7. TypeOK'
  BY <1>0, <1>1, <1>2, <1>4, <1>6 DEF TypeOK, sessions, history
<1>8. AtMostOneSession'
  BY <1>0, <1>1 DEF AtMostOneSession, sessions
<1> QED BY <1>6, <1>7, <1>8 DEF SessionsInv

\* A new process has one Conn at most, and no waiters.
LEMMA RebootInv ==
  ASSUME SessionsInv, Reboot
  PROVE  SessionsInv'
<1>0. ConnsInv /\ row.jid \in Jids \cup {NoJid}
  BY DEF SessionsInv, TypeOK, ConnsInv, ConnType
<1>1. /\ UNCHANGED <<row, linked, pairings, seen, reply, events, history>>
      /\ pending' = [g \in Conns |-> <<>>] /\ waiters' = {}
      /\ pc' = [w \in Callers |-> IF pc[w] = "idle" THEN "idle" ELSE "done"]
  BY DEF Reboot
<1>2. ConnsInv' /\ started <= started'
  <2>1. Start(Closed, row.jid) \/ Stop(Closed)
    BY DEF Reboot
  <2> QED BY <1>0, <2>1, StartInv, StopInv
<1>3. failures' \in 0 .. MaxFailures
  BY InstancesAssumption DEF Reboot, Fails, SessionsInv, TypeOK
<1>4. seen' \in [Callers -> 0 .. started']
  BY <1>1, <1>2 DEF SessionsInv, TypeOK, ConnsInv
<1>5. pending' \in [Conns -> Seq([kind : Kinds, jid : Jids \cup {NoJid}])]
  BY <1>1
<1>6. conns' \in [Conns -> ConnType] /\ started' \in 0 .. MaxConns /\ current' \in 0 .. started'
  BY <1>2 DEF ConnsInv
<1>7. pc' \in [Callers -> {"idle", "status", "register", "wait", "woken", "fresh", "done"}]
  BY <1>1
<1>8. TypeOK'
  BY <1>1, <1>3, <1>4, <1>5, <1>6, <1>7 DEF SessionsInv, TypeOK, ConnType, history
<1>9. WaitersAreWaiting'
  BY <1>1 DEF WaitersAreWaiting
<1> QED BY <1>2, <1>8, <1>9 DEF SessionsInv, ConnsInv

\* No action breaks the invariant.
LEMMA NextInv == SessionsInv /\ [Next]_vars => SessionsInv'
<1> SUFFICES ASSUME SessionsInv, [Next]_vars PROVE SessionsInv'
  OBVIOUS
<1>1. CASE UNCHANGED vars
  BY <1>1 DEF SessionsInv, TypeOK, AtMostOneSession, WaitersAreWaiting, vars, sessions, waiting,
              history
<1>2. CASE Api
  BY <1>2, ApiInv
<1>3. CASE Reboot
  BY <1>3, RebootInv
<1>4. CASE Whatsmeow
  BY <1>4, WhatsmeowInv DEF Whatsmeow
<1>5. CASE \E g \in Conns : OnLifecycle(g)
  BY <1>5, OnLifecycleInv
<1>6. CASE \E w \in Callers : WaitReady(w) \/ Timeout(w)
  BY <1>6, WaitReadyInv
<1> QED BY <1>1, <1>2, <1>3, <1>4, <1>5, <1>6 DEF Next

-----------------------------------------------------------------------------
(* Serving the callers *)

NoneConnected(g) == \A k \in DOMAIN pending[g] : pending[g][k].kind # "connected"

\* Once the last Connected of a ready instance is handled, a caller that was
\* not overtaken has not got past a look at the Conn it will find ready.
ServedInv ==
  Connected(current) /\ row.ready /\ NoneConnected(current) =>
    \A w \in Callers \ missed :
      pc[w] \notin {"register", "wait"} /\ (pc[w] = "status" => seen[w] = current)

\* A call of the API or a restart of the process leaves no Conn, or a new one
\* with the device of the row or none.
LEMMA Replaced ==
  ASSUME SessionsInv, Api \/ Reboot
  PROVE  /\ started <= started'
         /\ \/ current' = NoConn
            \/ /\ current' = started + 1 /\ current' = started' /\ current' \in Conns
               /\ conns'[current'].socket = "open"
               /\ conns'[current'].jid \in {NoJid, row'.jid}
               /\ row'.exists = row.exists \/ row'.exists
<1>0. ConnsInv /\ row \in RowType /\ row.jid \in Jids \cup {NoJid}
  BY DEF SessionsInv, TypeOK, ConnsInv, ConnType, RowType
<1>1. Closed \in [Conns -> ConnType]
  BY <1>0, ClosedIsClosed
<1>2. ASSUME NEW jid, Start(Closed, jid)
      PROVE  /\ started <= started' /\ current' = started + 1 /\ current' = started'
             /\ current' \in Conns
             /\ conns'[current'].socket = "open" /\ conns'[current'].jid \in {NoJid, jid}
  <2>1. /\ started' = started + 1 /\ current' = started' /\ started' \in Conns
        /\ started <= started'
    BY <1>0, <1>2, InstancesAssumption DEF Start, ConnsInv, Conns
  <2> HIDE DEF Closed
  <2>2. conns'[started'] = [Idle EXCEPT !.alive = TRUE, !.socket = "open",
                              !.jid = IF jid \in linked THEN jid ELSE NoJid]
    BY <1>1, <1>2, <2>1 DEF Start
  <2> QED BY <2>1, <2>2 DEF Idle
<1>3. CASE Stop(Closed)
  BY <1>0, <1>3 DEF Stop, ConnsInv
<1>4. CASE ~Stop(Closed)
  <2>1. CASE Create
    <3>1. row'.jid = row.jid /\ row'.exists
      BY <1>0, <2>1 DEF Create, RowType
    <3>2. Start(Closed, row.jid)
      BY <1>4, <2>1 DEF Create
    <3> QED BY <1>2, <3>1, <3>2
  <2>2. CASE RefreshQR \/ Restart \/ Reboot
    <3>1. row' = row /\ (Start(Closed, row.jid) \/ Start(Closed, NoJid))
      BY <1>4, <2>2 DEF RefreshQR, Restart, Restarted, Reboot
    <3> QED BY <1>2, <3>1
  <2>3. CASE Logout
    <3>1. Start(Closed, NoJid) /\ row' = [row EXCEPT !.jid = NoJid]
      BY <1>4, <2>3 DEF Logout
    <3>2. row'.exists = row.exists
      BY <1>0, <3>1 DEF RowType
    <3> QED BY <1>2, <3>1, <3>2
  <2>4. CASE Delete
    BY <1>4, <2>4 DEF Delete
  <2> QED BY <2>1, <2>2, <2>3, <2>4 DEF Api
<1> QED BY <1>3, <1>4

\* The first state has no Conn.
LEMMA ServedInit == Init => ServedInv
BY DEF Init, ServedInv, Connected

\* A Conn that starts is not connected yet.
LEMMA ServedReplaced ==
  ASSUME SessionsInv, Api \/ Reboot
  PROVE  ServedInv'
BY Replaced DEF ServedInv, Connected

\* What is appended to a queue and taken from it.
LEMMA QueueMembers ==
  ASSUME NEW S, NEW s \in Seq(S)
  PROVE  /\ \A e \in S : /\ DOMAIN Append(s, e) = 1 .. Len(s) + 1
                         /\ Append(s, e)[Len(s) + 1] = e
                         /\ \A k \in DOMAIN s : k \in 1 .. Len(s) + 1 /\ Append(s, e)[k] = s[k]
                         /\ DOMAIN s = 1 .. Len(s) /\ Len(s) \in Nat
         /\ s # <<>> =>
              /\ 1 \in DOMAIN s /\ s[1] = Head(s)
              /\ \A k \in DOMAIN Tail(s) : k + 1 \in DOMAIN s /\ Tail(s)[k] = s[k + 1]
              /\ \A k \in DOMAIN s : k = 1 \/ (k - 1 \in DOMAIN Tail(s) /\ Tail(s)[k - 1] = s[k])
<1>1. ASSUME NEW e \in S
      PROVE  /\ DOMAIN Append(s, e) = 1 .. Len(s) + 1
             /\ Append(s, e)[Len(s) + 1] = e
             /\ \A k \in DOMAIN s : k \in 1 .. Len(s) + 1 /\ Append(s, e)[k] = s[k]
             /\ DOMAIN s = 1 .. Len(s) /\ Len(s) \in Nat
  OBVIOUS
<1>2. ASSUME s # <<>>
      PROVE  /\ 1 \in DOMAIN s /\ s[1] = Head(s)
             /\ \A k \in DOMAIN Tail(s) : k + 1 \in DOMAIN s /\ Tail(s)[k] = s[k + 1]
             /\ \A k \in DOMAIN s : k = 1 \/ (k - 1 \in DOMAIN Tail(s) /\ Tail(s)[k - 1] = s[k])
  <2>1. Len(s) \in Nat /\ Len(s) # 0 /\ DOMAIN s = 1 .. Len(s)
    BY <1>2
  <2>2. Len(Tail(s)) = Len(s) - 1 /\ DOMAIN Tail(s) = 1 .. Len(s) - 1
    BY <1>2, <2>1
  <2>3. \A k \in 1 .. Len(s) - 1 : Tail(s)[k] = s[k + 1]
    BY <1>2, <2>1
  <2> QED BY <1>2, <2>1, <2>2, <2>3
<1> QED BY <1>1, <1>2

\* A Connected on its way leaves the callers alone, every other change of the
\* connection of the Conn in the map closes it.
LEMMA ServedWhatsmeow ==
  ASSUME SessionsInv, ServedInv, NEW g \in Conns,
         ShowQR(g) \/ QRTimesOut(g) \/ PairSuccess(g) \/ Connects(g) \/ Drops(g) \/ LoggedOut(g)
  PROVE  ServedInv'
<1>0. /\ conns \in [Conns -> ConnType] /\ pending \in [Conns -> Seq(EventType)]
      /\ current \in 0 .. MaxConns
  <2>1. current \in 0 .. MaxConns
    BY InstancesAssumption DEF SessionsInv, TypeOK
  <2> QED BY <2>1 DEF SessionsInv, TypeOK, ConnType, EventType
<1>1. UNCHANGED <<current, row, pc, seen, missed>>
  BY DEF ShowQR, QRTimesOut, PairSuccess, Connects, Drops, LoggedOut, waiting, history
<1> SUFFICES ASSUME Connected(current)', NoneConnected(current)'
             PROVE  Connected(current) /\ NoneConnected(current)
  BY <1>1 DEF ServedInv
<1>2. current \in Conns /\ current # NoConn
  BY <1>0, <1>1 DEF Connected, Conns, NoConn
<1>3. CASE g # current
  <2>1. conns'[current] = conns[current] /\ pending'[current] = pending[current]
    BY <1>0, <1>2, <1>3 DEF ShowQR, QRTimesOut, PairSuccess, Connects, Drops, LoggedOut, Emit
  <2> QED BY <1>1, <2>1 DEF Connected, NoneConnected
<1>4. CASE g = current
  <2>1. CASE Connects(g)
    <3>1. [kind |-> "connected", jid |-> conns[g].jid] \in EventType
      BY <1>0 DEF ConnType, EventType, Kinds
    <3>2. pending'[g] = Append(pending[g], [kind |-> "connected", jid |-> conns[g].jid])
      BY <1>0, <2>1 DEF Connects, Emit
    <3>3. Len(pending[g]) + 1 \in DOMAIN pending'[g]
          /\ pending'[g][Len(pending[g]) + 1].kind = "connected"
      BY <1>0, <3>1, <3>2, QueueMembers
    <3> QED BY <1>1, <1>4, <3>3 DEF NoneConnected
  <2>2. CASE ShowQR(g)
    BY <1>0, <1>1, <1>2, <1>4, <2>2 DEF ShowQR, Connected, ConnType, NoneConnected
  <2>3. CASE PairSuccess(g)
    BY <1>0, <1>1, <1>2, <1>4, <2>3 DEF PairSuccess, Connected, ConnType
  <2>4. CASE QRTimesOut(g) \/ Drops(g) \/ LoggedOut(g)
    BY <1>0, <1>1, <1>2, <1>4, <2>4 DEF QRTimesOut, Drops, LoggedOut, Connected, ConnType
  <2> QED BY <2>1, <2>2, <2>3, <2>4
<1> QED BY <1>3, <1>4

\* A Connected wakes the callers that wait and overtakes those that are about
\* to; no other event makes the row ready.
LEMMA ServedOnLifecycle ==
  ASSUME SessionsInv, ServedInv, NEW g \in Conns, OnLifecycle(g)
  PROVE  ServedInv'
<1>0. /\ conns \in [Conns -> ConnType] /\ pending \in [Conns -> Seq(EventType)]
      /\ row \in RowType /\ WaitersAreWaiting
      /\ pc \in [Callers -> {"idle", "status", "register", "wait", "woken", "fresh", "done"}]
      /\ current \in 0 .. MaxConns
  <2>1. current \in 0 .. MaxConns
    BY InstancesAssumption DEF SessionsInv, TypeOK
  <2> QED BY <2>1 DEF SessionsInv, TypeOK, ConnType, EventType, RowType
<1> DEFINE e == Head(pending[g])
<1>1. UNCHANGED <<conns, current, seen>>
  BY DEF OnLifecycle, sessions
<1>2. CASE e.kind = "connected"
  <2>1. NotifyReady /\ missed' = missed \cup {w \in Callers : pc[w] \in {"status", "register"}}
    BY <1>2 DEF OnLifecycle
  <2>2. \A w \in Callers \ missed' : pc'[w] \notin {"status", "register", "wait"}
    BY <1>0, <2>1 DEF NotifyReady, WaitersAreWaiting
  <2> QED BY <2>2 DEF ServedInv
<1>3. CASE e.kind # "connected"
  <2>1. UNCHANGED <<pc, missed>>
    BY <1>3 DEF OnLifecycle
  <2>2. row'.ready => row.ready
    <3>1. row' = row \/ row' = PairedRow(e.jid) \/ row' = LoggedOutRow
      BY <1>3, Zenon DEF OnLifecycle, Write
    <3> QED BY <1>0, <3>1 DEF PairedRow, LoggedOutRow, RowType
  <2>3. Connected(current) /\ NoneConnected(current)' => NoneConnected(current)
    <3> SUFFICES ASSUME Connected(current), NoneConnected(current)'
                 PROVE  NoneConnected(current)
      OBVIOUS
    <3>0. current \in Conns
      BY <1>0 DEF Connected, Conns, NoConn
    <3>1. pending[g] # <<>> /\ pending' = [pending EXCEPT ![g] = Tail(@)]
      BY DEF OnLifecycle
    <3>2. CASE g # current
      BY <1>0, <1>1, <3>0, <3>1, <3>2 DEF NoneConnected
    <3>3. CASE g = current
      <4>1. pending'[current] = Tail(pending[current])
        BY <1>0, <3>0, <3>1, <3>3
      <4>2. \A k \in DOMAIN Tail(pending[current]) : Tail(pending[current])[k].kind # "connected"
        BY <1>1, <4>1 DEF NoneConnected
      <4>3. \A k \in DOMAIN pending[current] : k = 1 \/
              (k - 1 \in DOMAIN Tail(pending[current])
               /\ Tail(pending[current])[k - 1] = pending[current][k])
        BY <1>0, <3>0, <3>1, <3>3, QueueMembers
      <4>4. pending[current][1].kind # "connected"
        BY <1>0, <1>3, <3>0, <3>1, <3>3, QueueMembers
      <4> QED BY <4>2, <4>3, <4>4 DEF NoneConnected
    <3> QED BY <3>2, <3>3
  <2> QED BY <1>1, <2>1, <2>2, <2>3 DEF ServedInv, Connected
<1> QED BY <1>2, <1>3

\* A caller that looks at a ready instance is answered, and does not register.
LEMMA ServedWaitReady ==
  ASSUME SessionsInv, ServedInv, NEW w \in Callers, WaitReady(w) \/ Timeout(w)
  PROVE  ServedInv'
<1>0. /\ pc \in [Callers -> {"idle", "status", "register", "wait", "woken", "fresh", "done"}]
      /\ seen \in [Callers -> 0 .. started]
  BY DEF SessionsInv, TypeOK
<1>1. UNCHANGED <<conns, current, row, pending, missed>>
  BY DEF WaitReady, Look, Query, Register, Timeout, sessions, history
<1> SUFFICES ASSUME Connected(current), row.ready, NoneConnected(current)
             PROVE  \A v \in Callers \ missed :
                      /\ pc'[v] \notin {"register", "wait"}
                      /\ pc'[v] = "status" => seen'[v] = current
  BY <1>1 DEF ServedInv, Connected, NoneConnected
<1>2. \A v \in Callers \ missed :
        pc[v] \notin {"register", "wait"} /\ (pc[v] = "status" => seen[v] = current)
  BY DEF ServedInv
<1>3. \A v \in Callers \ {w} : pc'[v] = pc[v] /\ seen'[v] = seen[v]
  BY <1>0 DEF WaitReady, Look, Query, Register, Timeout, Goes, Answers
<1>4. ASSUME w \notin missed
      PROVE  pc'[w] \notin {"register", "wait"} /\ (pc'[w] = "status" => seen'[w] = current)
  <2>1. CASE Look(w)
    BY <1>0, <2>1 DEF Look, Goes
  <2>2. CASE Query(w)
    <3>0. State(current) = "ready"
      BY DEF State, Connected
    <3>1. pc[w] = "status" => State(seen[w]) = "ready"
      <4>1. pc[w] = "status" => seen[w] = current
        BY <1>2, <1>4
      <4> QED BY <3>0, <4>1
    <3>2. pc'[w] = "done"
      BY <1>0, <2>2, <3>1 DEF Query, Goes, Answers
    <3> QED BY <3>2
  <2>3. CASE Register(w)
    BY <1>2, <1>4, <2>3 DEF Register
  <2>4. CASE Timeout(w)
    BY <1>0, <2>4 DEF Timeout, Goes, Answers
  <2> QED BY <2>1, <2>2, <2>3, <2>4 DEF WaitReady
<1> QED BY <1>2, <1>3, <1>4

\* No action breaks the invariant.
LEMMA ServedNext == SessionsInv /\ ServedInv /\ [Next]_vars => ServedInv'
<1> SUFFICES ASSUME SessionsInv, ServedInv, [Next]_vars PROVE ServedInv'
  OBVIOUS
<1>1. CASE UNCHANGED vars
  BY <1>1 DEF ServedInv, Connected, NoneConnected, vars, sessions, waiting, history
<1>2. CASE Api \/ Reboot
  BY <1>2, ServedReplaced
<1>3. CASE Whatsmeow
  BY <1>3, ServedWhatsmeow DEF Whatsmeow
<1>4. CASE \E g \in Conns : OnLifecycle(g)
  BY <1>4, ServedOnLifecycle
<1>5. CASE \E w \in Callers : WaitReady(w) \/ Timeout(w)
  BY <1>5, ServedWaitReady
<1> QED BY <1>1, <1>2, <1>3, <1>4, <1>5 DEF Next

-----------------------------------------------------------------------------
(* Remembering the session *)

Awaits(g) == conns[g].socket = "open" /\ conns[g].jid = NoJid

EventsAgree(g) ==
  \A k \in DOMAIN pending[g] :
    /\ pending[g][k].kind # "logged_out"
    /\ pending[g][k].kind \in {"paired", "connected"} => pending[g][k].jid = conns[g].jid

Learns(g) == \E k \in DOMAIN pending[g] : pending[g][k].kind = "paired"

\* The Conn of the map has told nothing before it is paired; once it has a
\* device the row knows it, or an event on its way will tell.
RememberInv ==
  /\ \A g \in Conns : conns[g].socket = "up" => g = current
  /\ \A g \in Conns : g > started => pending[g] = <<>>
  /\ current # NoConn =>
       /\ failures = 0 => row.exists
       /\ Awaits(current) => pending[current] = <<>>
       /\ conns[current].jid # NoJid /\ failures = 0 /\ ~late =>
            EventsAgree(current) /\ (row.jid = conns[current].jid \/ Learns(current))

\* The first state has no Conn and no events.
LEMMA RememberInit == Init => RememberInv
BY DEF Init, RememberInv, Idle

\* A Conn that starts has told nothing and has the device of the row or none.
LEMMA RememberReplaced ==
  ASSUME SessionsInv, RememberInv, Api \/ Reboot
  PROVE  RememberInv'
<1>0. /\ pending \in [Conns -> Seq(EventType)] /\ row \in RowType
      /\ started \in 0 .. MaxConns /\ failures \in 0 .. MaxFailures
  BY DEF SessionsInv, TypeOK, EventType, RowType
<1>1. \A g \in Conns : pending'[g] \in {pending[g], <<>>}
  BY DEF Api, Reboot, Create, RefreshQR, Restart, Restarted, Logout, Delete
<1>2. late' = late /\ (failures' = 0 => failures = 0)
  BY <1>0, InstancesAssumption
     DEF Api, Reboot, Create, RefreshQR, Restart, Restarted, Logout, Delete, Fails, Works, history
<1>3. started' \in Int /\ started <= started'
  <2>1. started' = started \/ started' = started + 1
    BY DEF Api, Reboot, Create, RefreshQR, Restart, Restarted, Logout, Delete, Start, Stop
  <2> QED BY <1>0, <2>1, InstancesAssumption
<1>4. \A g \in Conns : g > started' => pending'[g] = <<>>
  <2> SUFFICES ASSUME NEW g \in Conns, g > started' PROVE g > started
    BY <1>1 DEF RememberInv
  <2> QED BY <1>0, <1>3, InstancesAssumption DEF Conns
<1>5. ASSUME current' # NoConn
      PROVE  /\ current' \in Conns /\ current' = started + 1
             /\ conns'[current'].jid \in {NoJid, row'.jid}
  BY <1>5, Replaced
<1>6. ASSUME current' # NoConn
      PROVE  pending'[current'] = <<>>
  <2>1. started + 1 > started
    BY <1>0, InstancesAssumption
  <2>2. pending[current'] = <<>>
    BY <1>5, <1>6, <2>1 DEF RememberInv
  <2> QED BY <1>1, <1>5, <1>6, <2>2
<1>7. ASSUME current' # NoConn, failures' = 0
      PROVE  row'.exists
  <2>1. CASE Create
    BY <1>0, <2>1 DEF Create, RowType
  <2>2. CASE RefreshQR \/ Restart
    BY <1>2, <1>7, <2>2 DEF RefreshQR, Restart, Restarted, RememberInv
  <2>3. CASE Logout
    <3>1. row.exists
      BY <1>2, <1>7, <2>3 DEF Logout, RememberInv
    <3>2. row' = row \/ row' = [row EXCEPT !.jid = NoJid]
      BY <2>3, Zenon DEF Logout
    <3> QED BY <1>0, <3>1, <3>2 DEF RowType
  <2>4. CASE Delete \/ Reboot
    BY <1>0, <1>7, <2>4, InstancesAssumption DEF Delete, Stop, Reboot, Fails
  <2> QED BY <2>1, <2>2, <2>3, <2>4 DEF Api
<1>8. ASSUME current' # NoConn
      PROVE  EventsAgree(current)'
  <2>1. DOMAIN pending'[current'] = {}
    BY <1>6, <1>8
  <2> QED BY <2>1 DEF EventsAgree
<1>9. \A g \in Conns : conns'[g].socket = "up" => g = current'
  <2>0. conns \in [Conns -> ConnType] /\ current \in 0 .. started
    BY DEF SessionsInv, TypeOK, ConnType
  <2>1. \A g \in Conns : Closed[g].socket # "up"
    BY <2>0 DEF RememberInv, Closed, ConnType, Conns, NoConn
  <2>2. conns' = Closed \/ \E c : conns' = [Closed EXCEPT ![current'] = c]
    BY Zenon DEF Api, Reboot, Create, RefreshQR, Restart, Restarted, Logout, Delete, Start, Stop
  <2>3. Closed \in [Conns -> ConnType]
    BY ClosedIsClosed DEF SessionsInv, TypeOK, ConnsInv, ConnType
  <2> HIDE DEF Closed
  <2> QED BY <2>1, <2>2, <2>3
<1> QED BY <1>4, <1>5, <1>6, <1>7, <1>8, <1>9 DEF RememberInv

\* Only the Conn of the map tells anything, and what it tells is its device.
LEMMA RememberWhatsmeow ==
  ASSUME SessionsInv, RememberInv, NEW g \in Conns,
         ShowQR(g) \/ QRTimesOut(g) \/ PairSuccess(g) \/ Connects(g) \/ Drops(g) \/ LoggedOut(g)
  PROVE  RememberInv'
<1>0. /\ conns \in [Conns -> ConnType] /\ pending \in [Conns -> Seq(EventType)]
      /\ current \in 0 .. started /\ started \in 0 .. MaxConns
      /\ linked \subseteq 1 .. pairings /\ pairings \in 0 .. MaxPairings
      /\ AtMostOneSession
  BY DEF SessionsInv, TypeOK, ConnType, EventType
<1>1. UNCHANGED <<current, started, row, failures, late>>
  BY DEF ShowQR, QRTimesOut, PairSuccess, Connects, Drops, LoggedOut, history
<1>2. g = current /\ current # NoConn /\ g <= started
  <2>1. g = current
    BY <1>0 DEF AtMostOneSession, RememberInv, Connected,
                ShowQR, QRTimesOut, PairSuccess, Connects, Drops, LoggedOut
  <2> QED BY <1>0, <2>1, InstancesAssumption DEF Conns, NoConn
<1>3. /\ conns' = [conns EXCEPT ![g] = conns'[g]] /\ pending' = [pending EXCEPT ![g] = pending'[g]]
      /\ \A h \in Conns \ {g} : conns'[h] = conns[h] /\ pending'[h] = pending[h]
  BY <1>0 DEF ShowQR, QRTimesOut, PairSuccess, Connects, Drops, LoggedOut, Emit
<1>4. /\ \A h \in Conns : conns'[h].socket = "up" => h = current'
      /\ \A h \in Conns : h > started' => pending'[h] = <<>>
      /\ failures' = 0 => row'.exists
  <2>1. ~(g > started)
    BY <1>0, <1>2, InstancesAssumption DEF Conns
  <2> QED BY <1>1, <1>2, <1>3, <2>1 DEF RememberInv
<1> SUFFICES /\ Awaits(g)' => pending'[g] = <<>>
             /\ conns'[g].jid # NoJid /\ failures = 0 /\ ~late =>
                  EventsAgree(g)' /\ (row.jid = conns'[g].jid \/ Learns(g)')
  BY <1>1, <1>2, <1>4 DEF RememberInv
<1>5. /\ Awaits(g) => pending[g] = <<>>
      /\ conns[g].jid # NoJid /\ failures = 0 /\ ~late =>
           EventsAgree(g) /\ (row.jid = conns[g].jid \/ Learns(g))
  BY <1>2 DEF RememberInv
<1>6. conns[g] \in ConnType /\ pending[g] \in Seq(EventType)
  BY <1>0
<1>7. CASE ShowQR(g) \/ QRTimesOut(g)
  <2>1. /\ conns'[g].jid = conns[g].jid /\ pending'[g] = pending[g]
        /\ conns[g].jid = NoJid /\ Awaits(g)
    BY <1>0, <1>6, <1>7 DEF ShowQR, QRTimesOut, ConnType, Awaits
  <2> QED BY <1>5, <2>1
<1>8. CASE LoggedOut(g)
  <2>1. conns'[g].jid = NoJid /\ conns'[g].socket = "closed"
    BY <1>0, <1>6, <1>8 DEF LoggedOut, ConnType
  <2> QED BY <2>1 DEF Awaits
<1>9. CASE PairSuccess(g)
  <2> DEFINE e == [kind |-> "paired", jid |-> pairings']
  <2>1. pairings' # NoJid /\ e \in EventType
    BY <1>0, <1>9, InstancesAssumption DEF PairSuccess, EventType, Kinds, Jids, NoJid
  <2>2. pending[g] = <<>> /\ conns'[g].jid = pairings' /\ pending'[g] = <<e>>
    <3>1. pending[g] = <<>>
      BY <1>5, <1>9 DEF PairSuccess, Awaits
    <3>2. pending'[g] = Append(pending[g], e)
      BY <1>0, <1>9 DEF PairSuccess, Emit
    <3>3. conns'[g].jid = pairings'
      BY <1>0, <1>6, <1>9 DEF PairSuccess, ConnType
    <3> QED BY <3>1, <3>2, <3>3
  <2>3. EventsAgree(g)' /\ Learns(g)'
    <3>1. DOMAIN pending'[g] = {1} /\ pending'[g][1] = e
      BY <2>2
    <3> QED BY <1>1, <2>2, <3>1 DEF EventsAgree, Learns
  <2> QED BY <2>1, <2>2, <2>3 DEF Awaits
<1>10. CASE Connects(g) \/ Drops(g)
  <2>1. conns'[g].jid = conns[g].jid /\ conns'[g].socket # "open"
    BY <1>0, <1>6, <1>10 DEF Connects, Drops, ConnType
  <2>2. PICK e \in EventType :
          /\ pending'[g] = Append(pending[g], e)
          /\ e.kind \in {"connected", "disconnected"}
          /\ e.kind = "connected" => e.jid = conns[g].jid
    <3>1. CASE Connects(g)
      <4> DEFINE e == [kind |-> "connected", jid |-> conns[g].jid]
      <4>1. e \in EventType /\ e.kind = "connected" /\ e.jid = conns[g].jid
        BY <1>6 DEF ConnType, EventType, Kinds
      <4>2. pending'[g] = Append(pending[g], e)
        BY <1>0, <3>1 DEF Connects, Emit
      <4> QED BY <4>1, <4>2
    <3>2. CASE Drops(g)
      <4> DEFINE e == [kind |-> "disconnected", jid |-> NoJid]
      <4>1. e \in EventType /\ e.kind = "disconnected"
        BY DEF EventType, Kinds
      <4>2. pending'[g] = Append(pending[g], e)
        BY <1>0, <3>2 DEF Drops, Emit
      <4> QED BY <4>1, <4>2
    <3> QED BY <1>10, <3>1, <3>2
  <2>3. /\ DOMAIN pending'[g] = 1 .. Len(pending[g]) + 1
        /\ pending'[g][Len(pending[g]) + 1] = e
        /\ \A k \in DOMAIN pending[g] : k \in DOMAIN pending'[g] /\ pending'[g][k] = pending[g][k]
        /\ DOMAIN pending[g] = 1 .. Len(pending[g]) /\ Len(pending[g]) \in Nat
    BY <1>6, <2>2, QueueMembers
  <2>4. \A k \in DOMAIN pending'[g] : k = Len(pending[g]) + 1 \/ k \in DOMAIN pending[g]
    BY <2>3
  <2>5. EventsAgree(g) => EventsAgree(g)'
    BY <2>1, <2>2, <2>3, <2>4 DEF EventsAgree
  <2>6. Learns(g) => Learns(g)'
    BY <2>3 DEF Learns
  <2> QED BY <1>1, <1>5, <2>1, <2>5, <2>6 DEF Awaits
<1> QED BY <1>7, <1>8, <1>9, <1>10

\* An event of the Conn in the map brings the row to its device or leaves it
\* there; an event of another one comes late.
LEMMA RememberOnLifecycle ==
  ASSUME SessionsInv, RememberInv, NEW g \in Conns, OnLifecycle(g)
  PROVE  RememberInv'
<1>0. /\ pending \in [Conns -> Seq(EventType)] /\ row \in RowType
      /\ failures \in 0 .. MaxFailures /\ current \in 0 .. started /\ started \in 0 .. MaxConns
      /\ late \in BOOLEAN
  BY DEF SessionsInv, TypeOK, EventType, RowType
<1> DEFINE e == Head(pending[g])
<1>1. /\ UNCHANGED <<conns, current, started>> /\ pending[g] # <<>>
      /\ pending' = [pending EXCEPT ![g] = Tail(@)]
      /\ late' = (late \/ g # current)
      /\ (failures' = failures + 1 /\ row' = row) \/
         (failures' = failures /\
           \/ e.kind = "paired" /\ Write(PairedRow(e.jid))
           \/ e.kind = "connected" /\ Write(ConnectedRow(e.jid))
           \/ e.kind = "logged_out" /\ Write(LoggedOutRow)
           \/ e.kind = "disconnected" /\ row' = row)
  BY Zenon DEF OnLifecycle, sessions, Fails, Works
<1>2. row'.exists = row.exists
  <2>1. row' = row \/ row' = PairedRow(e.jid) \/ row' = ConnectedRow(e.jid) \/ row' = LoggedOutRow
    BY <1>1, Zenon DEF Write
  <2> QED BY <1>0, <2>1 DEF PairedRow, ConnectedRow, LoggedOutRow, RowType
<1>3. failures' = 0 => failures = 0 /\ failures' = failures
  BY <1>0, <1>1, InstancesAssumption
<1>4. \A h \in Conns : pending[h] = <<>> => pending'[h] = <<>>
  BY <1>0, <1>1
<1>5. ASSUME current # NoConn, conns[current].jid # NoJid, failures' = 0, ~late'
      PROVE  EventsAgree(current)' /\ (row'.jid = conns[current].jid \/ Learns(current)')
  <2>1. g = current /\ ~late /\ failures = 0 /\ row.exists
    BY <1>0, <1>1, <1>3, <1>5 DEF RememberInv
  <2>2. EventsAgree(g) /\ (row.jid = conns[g].jid \/ Learns(g))
    BY <1>5, <2>1 DEF RememberInv
  <2>3. /\ pending'[g] = Tail(pending[g])
        /\ 1 \in DOMAIN pending[g] /\ pending[g][1] = e
        /\ \A k \in DOMAIN pending'[g] :
             k + 1 \in DOMAIN pending[g] /\ pending'[g][k] = pending[g][k + 1]
        /\ \A k \in DOMAIN pending[g] :
             k = 1 \/ (k - 1 \in DOMAIN pending'[g] /\ pending'[g][k - 1] = pending[g][k])
    BY <1>0, <1>1, QueueMembers
  <2>4. e.kind # "logged_out" /\ (e.kind \in {"paired", "connected"} => e.jid = conns[g].jid)
    BY <2>2, <2>3 DEF EventsAgree
  <2>5. EventsAgree(g)'
    BY <1>1, <2>2, <2>3 DEF EventsAgree
  <2>6. e.kind = "paired" => row'.jid = conns[g].jid
    <3>1. e.kind = "paired" => row' = PairedRow(e.jid)
      BY <1>1, <1>3, <1>5, <2>1, <2>4 DEF Write
    <3> QED BY <1>0, <2>4, <3>1 DEF PairedRow, RowType
  <2>7. e.kind # "paired" /\ Learns(g) => Learns(g)'
    BY <2>3 DEF Learns
  <2>8. e.kind # "paired" /\ row.jid = conns[g].jid => row'.jid = row.jid
    <3>1. e.kind # "paired" => row' = row \/ row' = ConnectedRow(e.jid)
      BY <1>1, <2>4 DEF Write
    <3>2. row.jid = conns[g].jid => ConnectedRow(e.jid).jid = row.jid
      BY <1>0, <1>5, <2>1 DEF ConnectedRow, RowType
    <3> QED BY <3>1, <3>2
  <2> QED BY <1>1, <2>1, <2>2, <2>5, <2>6, <2>7, <2>8
<1>6. current # NoConn /\ failures' = 0 => row'.exists
  BY <1>2, <1>3 DEF RememberInv
<1>7. current # NoConn /\ Awaits(current)' => pending'[current] = <<>>
  <2>1. current # NoConn => current \in Conns
    BY <1>0, InstancesAssumption DEF Conns, NoConn
  <2> QED BY <1>1, <1>4, <2>1 DEF RememberInv, Awaits
<1>8. /\ \A h \in Conns : conns'[h].socket = "up" => h = current'
      /\ \A h \in Conns : h > started' => pending'[h] = <<>>
  BY <1>1, <1>4 DEF RememberInv
<1> HIDE DEF e
<1> QED BY <1>1, <1>5, <1>6, <1>7, <1>8 DEF RememberInv

\* No action breaks the invariant; the callers of WaitReady have no part in it.
LEMMA RememberNext == SessionsInv /\ RememberInv /\ [Next]_vars => RememberInv'
<1> SUFFICES ASSUME SessionsInv, RememberInv, [Next]_vars PROVE RememberInv'
  OBVIOUS
<1>1. CASE UNCHANGED vars \/ \E w \in Callers : WaitReady(w) \/ Timeout(w)
  <2>1. UNCHANGED <<conns, current, started, row, pending, failures, late>>
    BY <1>1 DEF vars, sessions, history, WaitReady, Look, Query, Register, Timeout
  <2> QED BY <2>1 DEF RememberInv, Awaits, EventsAgree, Learns
<1>2. CASE Api \/ Reboot
  BY <1>2, RememberReplaced
<1>3. CASE Whatsmeow
  BY <1>3, RememberWhatsmeow DEF Whatsmeow
<1>4. CASE \E g \in Conns : OnLifecycle(g)
  BY <1>4, RememberOnLifecycle
<1> QED BY <1>1, <1>2, <1>3, <1>4 DEF Next

-----------------------------------------------------------------------------
(* The theorems *)

\* Every behaviour keeps the types, one session and the list of waiters.
THEOREM InstancesSafe == Spec => []SessionsInv
BY InitInv, NextInv, PTL DEF Spec

\* The row, the Conns, the events under way and the waiters keep their types.
THEOREM TypeCorrect == Spec => []TypeOK
<1>1. SessionsInv => TypeOK
  BY DEF SessionsInv
<1> QED BY <1>1, InstancesSafe, PTL

\* Whatever calls, events, failures and reboots come in whatever order, only
\* the Conn in Manager.instances is alive (startLocked and its callers).
THEOREM OneSession == Spec => []AtMostOneSession
<1>1. SessionsInv => AtMostOneSession
  BY DEF SessionsInv
<1> QED BY <1>1, InstancesSafe, PTL

\* Nobody waits without being in Manager.waiters, and nobody is left there who
\* does not wait (WaitReady, notifyReady).
THEOREM WaitersWait == Spec => []WaitersAreWaiting
<1>1. SessionsInv => WaitersAreWaiting
  BY DEF SessionsInv
<1> QED BY <1>1, InstancesSafe, PTL

\* Only a step that leaves the events alone can make the row exist.
LEMMA StepDeleted ==
  ASSUME SessionsInv, [Next]_vars, ~row.exists, row'.exists
  PROVE  pending' = pending
<1>1. row \in [exists : BOOLEAN, jid : Jids \cup {NoJid}, paired : BOOLEAN, ready : BOOLEAN]
  BY DEF SessionsInv, TypeOK
<1>2. CASE UNCHANGED vars
  BY <1>2 DEF vars
<1>3. CASE Api
  BY <1>3 DEF Api, Create, RefreshQR, Restart, Restarted, Logout, Delete
<1>4. CASE Reboot \/ Whatsmeow \/ \E w \in Callers : WaitReady(w) \/ Timeout(w)
  <2>1. row' = row
    BY <1>4 DEF Reboot, Whatsmeow, ShowQR, QRTimesOut, PairSuccess, Connects, Drops, LoggedOut,
                WaitReady, Look, Query, Register, Timeout
  <2> QED BY <2>1
<1>5. CASE \E g \in Conns : OnLifecycle(g)
  <2>1. row' = row
    BY <1>5 DEF OnLifecycle, Write
  <2> QED BY <2>1
<1> QED BY <1>2, <1>3, <1>4, <1>5 DEF Next

\* A deleted row comes back by a call of the API alone, never by an event of a
\* session that outlived it (onLifecycle).
THEOREM DeletedStaysDeleted == Spec => StaysDeleted
<1>1. SessionsInv /\ [Next]_vars => [~row.exists /\ row'.exists => pending' = pending]_vars
  BY StepDeleted
<1> QED BY <1>1, InstancesSafe, PTL DEF Spec, StaysDeleted

\* A caller that waits on a ready instance was overtaken by the Connected that
\* made it so, between its look at the status and its registration (WaitReady,
\* notifyReady).
THEOREM ServedOrMissed == Spec => []ServedUnlessMissed
<1>1. SessionsInv /\ ServedInv => ServedUnlessMissed
  <2> SUFFICES ASSUME SessionsInv, ServedInv, Quiet, State(current) = "ready", NEW w \in waiters
               PROVE  w \in missed
    BY DEF ServedUnlessMissed
  <2>1. row.ready /\ Connected(current)
    BY DEF State
  <2>2. current \in Conns
    BY <2>1, InstancesAssumption DEF SessionsInv, TypeOK, Connected, Conns, NoConn
  <2>3. NoneConnected(current)
    BY <2>2 DEF Quiet, NoneConnected
  <2>4. w \in Callers /\ pc[w] = "wait"
    BY DEF SessionsInv, WaitersAreWaiting
  <2> QED BY <2>1, <2>3, <2>4 DEF ServedInv
<1> QED BY <1>1, InstancesSafe, ServedInit, ServedNext, PTL DEF Spec

\* Without failures and late events, the row knows the device of the session
\* once every event is handled (onLifecycle, startLocked and its callers).
THEOREM RowRemembers == Spec => []SessionRemembered
<1>1. SessionsInv /\ RememberInv => SessionRemembered
  <2> SUFFICES ASSUME SessionsInv, RememberInv, Quiet, failures = 0, ~late,
                      JidOf(current) \in linked
               PROVE  row.jid = JidOf(current)
    BY DEF SessionRemembered
  <2>1. JidOf(current) # NoJid
    BY DEF SessionsInv, TypeOK, NoJid
  <2>2. current # NoConn /\ JidOf(current) = conns[current].jid
    BY <2>1 DEF JidOf
  <2>3. current \in Conns
    BY <2>2, InstancesAssumption DEF SessionsInv, TypeOK, Conns, NoConn
  <2>4. ~Learns(current)
    BY <2>3 DEF Quiet, Learns
  <2> QED BY <2>1, <2>2, <2>4 DEF RememberInv
<1> QED BY <1>1, InstancesSafe, RememberInit, RememberNext, PTL DEF Spec
=============================================================================
