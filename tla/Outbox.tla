------------------------------- MODULE Outbox -------------------------------
(***************************************************************************)
(* The persistent queue of outgoing messages (internal/outbox/outbox.go).  *)
(*                                                                         *)
(* HTTP handlers enqueue the payloads of instances that are not connected; *)
(* one drainer goroutine hands pending rows to the sender, oldest first;   *)
(* one expirer goroutine closes the rows whose TTL has passed and emits    *)
(* outgoing_expired.  The three share only the table                       *)
(* bridge_outgoing_queue: each SQL statement is one atomic step, and        *)
(* nothing makes two of them atomic together.                              *)
(*                                                                         *)
(* Time is abstract: overdue[r] says that expires_at < NOW() for row r.    *)
(* Payloads are left out, except for the key they were sealed under.       *)
(***************************************************************************)
EXTENDS Integers, FiniteSets

CONSTANTS
  Instances,      \* names of WhatsApp instances
  Enqueuers,      \* HTTP handler goroutines that may be inside Enqueue
  Keys,           \* values of OUTBOX_ENCRYPTION_KEY
  NoKey,          \* the key is not set: rows are stored in clear
  NoInstance,     \* an enqueuer that is not between COUNT and INSERT
  MaxQueueDepth,  \* Config.MaxQueueDepth
  MaxAttempts,    \* Config.MaxAttempts
  DrainLimit,     \* LIMIT of the drainer's SELECT (50)
  ExpireLimit,    \* LIMIT of the expirer's SELECT (100)
  MaxRows,        \* bound: rows inserted in a behaviour
  MaxFaults       \* bound: crashes and failed UPDATEs in a behaviour

ASSUME OutboxAssumption ==
  /\ Enqueuers # {} /\ IsFiniteSet(Enqueuers)
  /\ NoKey \notin Keys /\ NoInstance \notin Instances
  /\ MaxQueueDepth \in Nat \ {0} /\ MaxAttempts \in Nat \ {0}
  /\ DrainLimit \in Nat \ {0} /\ ExpireLimit \in Nat \ {0}
  /\ MaxRows \in Nat /\ MaxFaults \in Nat

Rows == 1 .. MaxRows
NoRow == 0
Status == {"absent", "pending", "sent", "failed", "expired"}

VARIABLES
  \* the table, one function per column, indexed by id
  status, instance, attempts, overdue, sealed,
  nextId,     \* the BIGSERIAL sequence
  connected,  \* Connector.IsConnected
  key,        \* Outbox.encryptionKey
  counted,    \* counted[e]: the instance e has counted below the cap
  \* DrainOnce: rows of the pass still to visit, their attempts as selected,
  \* what the goroutine is doing, and the row whose send has returned
  batch, snapshot, phase, current,
  \* ExpireOnce: rows still to visit, and the row marked but not yet notified
  xbatch, xmarked,
  \* history: sends confirmed / refused by the sender, notices, faults
  oks, errs, notices, faults

table == <<status, instance, attempts, overdue, sealed, nextId>>
drainer == <<batch, snapshot, phase, current>>
expirer == <<xbatch, xmarked>>
history == <<oks, errs, notices, faults>>
vars == <<table, connected, key, counted, drainer, expirer, history>>

Pending == {r \in Rows : status[r] = "pending"}
PendingOf(i) == {r \in Pending : instance[r] = i}

\* ORDER BY id ASC LIMIT n
Oldest(n, S) == {r \in S : Cardinality({s \in S : s < r}) < n}
IsFirst(r, S) == r \in S /\ \A s \in S : r <= s

\* openPayload succeeds: in clear, or sealed under the key in force.
Readable(r) == sealed[r] \in {NoKey, key}

-----------------------------------------------------------------------------
(* Slips a maintainer could make, each caught by a property below.         *)

BelowCapOffByOne(i) == Cardinality(PendingOf(i)) <= MaxQueueDepth

\* sent_at is written, the status is not.
WriteSentAtOnly == UNCHANGED <<status, attempts>>

\* attempts is only written together with status='failed'.
WriteErrorUncounted ==
  LET newAttempts == snapshot[current] + 1 IN
  IF newAttempts >= MaxAttempts
  THEN /\ attempts' = [attempts EXCEPT ![current] = newAttempts]
       /\ status' = [status EXCEPT ![current] = "failed"]
  ELSE UNCHANGED <<status, attempts>>

\* A failed send puts the row back: SET status='pending', attempts=$2.
WriteErrorRequeue ==
  LET newAttempts == snapshot[current] + 1 IN
  /\ attempts' = [attempts EXCEPT ![current] = newAttempts]
  /\ status' = [status EXCEPT ![current] =
                  IF newAttempts >= MaxAttempts THEN "failed" ELSE "pending"]

\* The sweep forgets expires_at < NOW().
ExpirableAnyAge == Pending

\* The sweep, like the drainer, gives up at a row it cannot decrypt.
ExpirableReadable ==
  IF \A r \in Pending : overdue[r] => Readable(r)
  THEN {r \in Pending : overdue[r]} ELSE {}

\* The notice is only emitted when there is a preview to show.
ExpireNotifyReadable ==
  /\ xmarked # NoRow
  /\ notices' = IF Readable(xmarked)
                THEN [notices EXCEPT ![xmarked] = @ + 1] ELSE notices
  /\ xmarked' = NoRow
  /\ UNCHANGED <<table, connected, key, counted, drainer, xbatch, oks, errs, faults>>

-----------------------------------------------------------------------------
Init ==
  /\ status = [r \in Rows |-> "absent"]
  /\ instance = [r \in Rows |-> NoInstance]
  /\ attempts = [r \in Rows |-> 0]
  /\ overdue = [r \in Rows |-> FALSE]
  /\ sealed = [r \in Rows |-> NoKey]
  /\ nextId = 1
  /\ connected = [i \in Instances |-> FALSE]
  /\ key \in Keys \cup {NoKey}
  /\ counted = [e \in Enqueuers |-> NoInstance]
  /\ batch = {} /\ snapshot = [r \in Rows |-> 0]
  /\ phase = "idle" /\ current = NoRow
  /\ xbatch = {} /\ xmarked = NoRow
  /\ oks = [r \in Rows |-> 0] /\ errs = [r \in Rows |-> 0]
  /\ notices = [r \in Rows |-> 0] /\ faults = 0

-----------------------------------------------------------------------------
(* Enqueue *)

BelowCap(i) == Cardinality(PendingOf(i)) < MaxQueueDepth

\* SELECT COUNT(*): the handler goes on to INSERT, or returns ErrQueueFull.  It
\* found i disconnected before; i may be back by now.
EnqueueCount(e, i) ==
  /\ counted[e] = NoInstance
  /\ BelowCap(i)
  /\ counted' = [counted EXCEPT ![e] = i]
  /\ UNCHANGED <<table, connected, key, drainer, expirer, history>>

\* INSERT ... RETURNING id, sealed under the key in force if there is one.
EnqueueInsert(e) ==
  /\ counted[e] # NoInstance
  /\ nextId \in Rows
  /\ status' = [status EXCEPT ![nextId] = "pending"]
  /\ instance' = [instance EXCEPT ![nextId] = counted[e]]
  /\ sealed' = [sealed EXCEPT ![nextId] = key]
  /\ nextId' = nextId + 1
  /\ counted' = [counted EXCEPT ![e] = NoInstance]
  /\ UNCHANGED <<attempts, overdue, connected, key, drainer, expirer, history>>

\* The INSERT fails or the request is cancelled: no row.
EnqueueAbort(e) ==
  /\ counted[e] # NoInstance
  /\ counted' = [counted EXCEPT ![e] = NoInstance]
  /\ UNCHANGED <<table, connected, key, drainer, expirer, history>>

-----------------------------------------------------------------------------
(* DrainOnce, under Outbox.mu from the SELECT to the end of the pass *)

\* The oldest DrainLimit pending rows of ALL instances, connected or not.
Selection == Oldest(DrainLimit, Pending)

\* One row that does not decrypt aborts the pass before anything is sent.
DrainSelect ==
  /\ phase = "idle"
  /\ Selection # {}
  /\ \A r \in Selection : Readable(r)
  /\ batch' = Selection
  /\ snapshot' = [r \in Rows |-> IF r \in Selection THEN attempts[r] ELSE 0]
  /\ phase' = "walk"
  /\ UNCHANGED <<table, connected, key, counted, current, expirer, history>>

\* The pass moves on: to the next row, or out of DrainOnce.
Advance(rest) ==
  /\ batch' = rest
  /\ phase' = IF rest = {} THEN "idle" ELSE "walk"
  /\ current' = NoRow
  /\ UNCHANGED snapshot

DrainSkip(r) ==
  /\ phase = "walk"
  /\ IsFirst(r, batch)
  /\ ~connected[instance[r]]
  /\ Advance(batch \ {r})
  /\ UNCHANGED <<table, connected, key, counted, expirer, history>>

\* HandleForRaw is called for a connected instance; the row is not read again,
\* so it may be overdue or already closed by the expirer.
DrainCall(r) ==
  /\ phase = "walk"
  /\ IsFirst(r, batch)
  /\ connected[instance[r]]
  /\ batch' = batch \ {r}
  /\ current' = r
  /\ phase' = "call"
  /\ UNCHANGED <<table, connected, key, counted, snapshot, expirer, history>>

\* It returns nil, or an error (the connection may be gone by now).
DrainReturn(ok) ==
  /\ phase = "call"
  /\ \/ /\ ok
        /\ phase' = "ok"
        /\ oks' = [oks EXCEPT ![current] = @ + 1]
        /\ UNCHANGED errs
     \/ /\ ~ok
        /\ phase' = "err"
        /\ errs' = [errs EXCEPT ![current] = @ + 1]
        /\ UNCHANGED oks
  /\ UNCHANGED <<table, connected, key, counted, batch, snapshot, current, expirer,
                 notices, faults>>

\* UPDATE ... WHERE id: nothing is asked of the status the row has now.
WriteSent ==
  /\ status' = [status EXCEPT ![current] = "sent"]
  /\ UNCHANGED attempts

WriteError ==
  LET newAttempts == snapshot[current] + 1 IN
  /\ attempts' = [attempts EXCEPT ![current] = newAttempts]
  /\ status' = IF newAttempts >= MaxAttempts
               THEN [status EXCEPT ![current] = "failed"] ELSE status

WriteResult ==
  \/ phase = "ok" /\ WriteSent
  \/ phase = "err" /\ WriteError

DrainMark ==
  /\ WriteResult
  /\ Advance(batch)
  /\ UNCHANGED <<instance, overdue, sealed, nextId, connected, key, counted,
                 expirer, history>>

\* The UPDATE fails, or is applied and its answer lost: it is logged and the
\* pass goes on.
DrainMarkFails ==
  /\ phase \in {"ok", "err"}
  /\ faults < MaxFaults
  /\ faults' = faults + 1
  /\ WriteResult \/ UNCHANGED <<status, attempts>>
  /\ Advance(batch)
  /\ UNCHANGED <<instance, overdue, sealed, nextId, connected, key, counted,
                 expirer, oks, errs, notices>>

-----------------------------------------------------------------------------
(* ExpireOnce, in its own goroutine and without Outbox.mu *)

Expirable == {r \in Pending : overdue[r]}

\* A row that does not decrypt is taken all the same, without its preview.
ExpireSelect ==
  /\ xbatch = {} /\ xmarked = NoRow
  /\ Expirable # {}
  /\ xbatch' = Oldest(ExpireLimit, Expirable)
  /\ UNCHANGED <<table, connected, key, counted, drainer, xmarked, history>>

\* UPDATE ... SET status='expired' WHERE id, whatever the drainer did since.
ExpireMark(r) ==
  /\ xmarked = NoRow
  /\ IsFirst(r, xbatch)
  /\ status' = [status EXCEPT ![r] = "expired"]
  /\ xbatch' = xbatch \ {r}
  /\ xmarked' = r
  /\ UNCHANGED <<instance, attempts, overdue, sealed, nextId, connected, key,
                 counted, drainer, history>>

\* The UPDATE fails, and the row waits for the next sweep; or it is applied and
\* only its answer lost, and the row is closed.  No notice either way.
ExpireMarkFails(r) ==
  /\ xmarked = NoRow
  /\ IsFirst(r, xbatch)
  /\ faults < MaxFaults
  /\ faults' = faults + 1
  /\ status' \in {status, [status EXCEPT ![r] = "expired"]}
  /\ xbatch' = xbatch \ {r}
  /\ UNCHANGED <<instance, attempts, overdue, sealed, nextId, connected, key,
                 counted, drainer, xmarked, oks, errs, notices>>

\* EmitLifecycle(outgoing_expired).
ExpireNotify ==
  /\ xmarked # NoRow
  /\ notices' = [notices EXCEPT ![xmarked] = @ + 1]
  /\ xmarked' = NoRow
  /\ UNCHANGED <<table, connected, key, counted, drainer, xbatch, oks, errs, faults>>

-----------------------------------------------------------------------------
(* The surroundings *)

TTLElapses(r) ==
  /\ status[r] # "absent"
  /\ ~overdue[r]
  /\ overdue' = [overdue EXCEPT ![r] = TRUE]
  /\ UNCHANGED <<status, instance, attempts, sealed, nextId, connected, key,
                 counted, drainer, expirer, history>>

SetConnected(i, up) ==
  /\ connected[i] # up
  /\ connected' = [connected EXCEPT ![i] = up]
  /\ UNCHANGED <<table, key, counted, drainer, expirer, history>>

\* The process dies and comes back, perhaps configured with another key.
Restart(k) ==
  /\ faults < MaxFaults
  /\ faults' = faults + 1
  /\ key' = k
  /\ connected' = [i \in Instances |-> FALSE]
  /\ counted' = [e \in Enqueuers |-> NoInstance]
  /\ batch' = {} /\ phase' = "idle" /\ current' = NoRow
  /\ xbatch' = {} /\ xmarked' = NoRow
  /\ snapshot' = [r \in Rows |-> 0]
  /\ UNCHANGED <<table, oks, errs, notices>>

-----------------------------------------------------------------------------
Enqueue ==
  \E e \in Enqueuers :
    \/ \E i \in Instances : EnqueueCount(e, i)
    \/ EnqueueInsert(e)
    \/ EnqueueAbort(e)

DrainOnce ==
  \/ DrainSelect
  \/ \E r \in Rows : DrainSkip(r) \/ DrainCall(r)
  \/ \E ok \in BOOLEAN : DrainReturn(ok)
  \/ DrainMark
  \/ DrainMarkFails

ExpireOnce ==
  \/ ExpireSelect
  \/ \E r \in Rows : ExpireMark(r) \/ ExpireMarkFails(r)
  \/ ExpireNotify

Environment ==
  \/ \E r \in Rows : TTLElapses(r)
  \/ \E i \in Instances, up \in BOOLEAN : SetConnected(i, up)
  \/ \E k \in Keys \cup {NoKey} : Restart(k)

Next == Enqueue \/ DrainOnce \/ ExpireOnce \/ Environment

Spec == Init /\ [][Next]_vars

\* The two loops keep ticking and time keeps passing; nothing forces a client
\* to send, an instance to connect or the process to restart.
FairSpec ==
  /\ Spec
  /\ WF_vars(DrainOnce)
  /\ WF_vars(ExpireOnce)
  /\ \A r \in Rows : WF_vars(TTLElapses(r))

-----------------------------------------------------------------------------
(* Properties *)

\* Every variable keeps its type; attempts never exceeds the configured cap.
TypeOK ==
  /\ status \in [Rows -> Status]
  /\ instance \in [Rows -> Instances \cup {NoInstance}]
  /\ attempts \in [Rows -> 0 .. MaxAttempts]
  /\ overdue \in [Rows -> BOOLEAN]
  /\ sealed \in [Rows -> Keys \cup {NoKey}]
  /\ nextId \in 1 .. MaxRows + 1
  /\ connected \in [Instances -> BOOLEAN]
  /\ key \in Keys \cup {NoKey}
  /\ counted \in [Enqueuers -> Instances \cup {NoInstance}]
  /\ batch \subseteq Rows /\ snapshot \in [Rows -> 0 .. MaxAttempts]
  /\ phase \in {"idle", "walk", "call", "ok", "err"}
  /\ current \in Rows \cup {NoRow}
  /\ xbatch \subseteq Rows /\ xmarked \in Rows \cup {NoRow}
  /\ oks \in [Rows -> Nat] /\ errs \in [Rows -> Nat]
  /\ notices \in [Rows -> Nat] /\ faults \in 0 .. MaxFaults

InFlight(r, p) == phase = p /\ current = r

\* A closing status is never undeserved, although the drainer and the expirer
\* write it without looking at the one the row has: sent needs a send the
\* handler confirmed, failed as many refusals as MaxAttempts, expired a TTL
\* that had passed (DrainOnce and ExpireOnce).
StatusIsEarned ==
  \A r \in Rows :
    /\ status[r] = "sent" => oks[r] > 0
    /\ status[r] = "failed" => errs[r] >= MaxAttempts
    /\ status[r] = "expired" => overdue[r]

\* The sender confirms a row once; only a crash or a lost UPDATE between the
\* send and status='sent' can make DrainOnce deliver it again, one more copy
\* for each.  The expirer closing the row meanwhile does not change that.
ConfirmedOncePerFault == \A r \in Rows : oks[r] <= 1 + faults

\* attempts never runs ahead of the refusals, and lags behind them only by
\* UPDATEs that were lost: the snapshot DrainOnce increments is never stale.
ErrorsAreCounted ==
  \A r \in Rows :
    /\ attempts[r] <= errs[r]
    /\ errs[r] <= attempts[r] + faults + 1
    /\ ~InFlight(r, "err") => errs[r] <= attempts[r] + faults

\* outgoing_expired is emitted at most once for a message, whatever crashes
\* or failures interrupt the sweep (ExpireOnce).
NoticeAtMostOnce == \A r \in Rows : notices[r] <= 1

\* The rows the sweep has closed whose notice is neither out nor about to be.
Silenced == {r \in Rows : status[r] = "expired" /\ notices[r] = 0} \ {xmarked}

\* Every expiry is told, but for one with each fault: only a crash between the
\* UPDATE and the notice, or an UPDATE that was applied and reported as failed,
\* leaves a row closed in silence (ExpireOnce).
ExpiriesAreTold == Cardinality(Silenced) <= faults

\* COUNT and INSERT are two statements, so concurrent handlers can pass
\* MaxQueueDepth, but by no more than the handlers that race.
OvershootBounded ==
  \A i \in Instances :
    Cardinality(PendingOf(i)) <= MaxQueueDepth + Cardinality(Enqueuers) - 1

\* The handlers that have counted below the cap of i and not inserted yet.
Racing(i) == {e \in Enqueuers : counted[e] = i}

\* Depth and racers together: what COUNT admits, INSERT only moves from one
\* side to the other (Enqueue).
DepthAndRacers ==
  \A i \in Instances :
    Cardinality(PendingOf(i)) + Cardinality(Racing(i))
      <= MaxQueueDepth + Cardinality(Enqueuers) - 1

\* A row that has left 'pending' never comes back to it, even when the drainer
\* and the expirer hold stale copies of it: nothing is delivered from a pass
\* that starts after the row was closed.
ClosedForGood ==
  [][\A r \in Rows :
       status[r] \in {"sent", "failed", "expired"} =>
         status'[r] \in {"sent", "failed", "expired"}]_vars

\* Every accepted message gets a closing status, connected or not, readable
\* or not: the expirer reaches the rows the drainer cannot.
EventuallySettled == \A r \in Rows : status[r] = "pending" ~> status[r] # "pending"

\* A row the sweep knows it has closed is announced, readable or not and
\* whatever went wrong before; only a crash between the UPDATE and the notice
\* prevents it.  A row closed by an UPDATE whose answer was lost is not the
\* sweep's to announce: ExpiriesAreTold counts it.
ExpiryIsAnnounced ==
  \A r \in Rows, f \in 0 .. MaxFaults :
    xmarked = r /\ faults = f ~> notices[r] = 1 \/ faults > f

-----------------------------------------------------------------------------
(* The inductive invariant behind the safety properties *)

\* Ids are given out in order, and the columns of an absent row are blank.
TableInv ==
  \A r \in Rows :
    /\ status[r] # "absent" <=> r < nextId
    /\ status[r] # "absent" <=> instance[r] \in Instances
    /\ status[r] = "absent" =>
         attempts[r] = 0 /\ oks[r] = 0 /\ errs[r] = 0 /\ notices[r] = 0
    /\ status[r] = "pending" => attempts[r] < MaxAttempts

\* The rows a pass still holds are real, and their snapshot is current.
PassInv ==
  /\ phase \in {"call", "ok", "err"} <=> current # NoRow
  /\ phase = "idle" => batch = {}
  /\ current \notin batch
  /\ \A r \in Rows : r \in batch \/ r = current =>
       /\ status[r] # "absent"
       /\ snapshot[r] = attempts[r]
       /\ attempts[r] < MaxAttempts

\* A row that can still be sent has used none of its one free confirmation.
ConfirmInv ==
  \A r \in Rows :
    /\ oks[r] <= 1 + faults
    /\ status[r] = "pending" \/ r \in batch \/ InFlight(r, "call") =>
         oks[r] <= faults \/ InFlight(r, "ok")
    /\ InFlight(r, "ok") => oks[r] > 0
    /\ InFlight(r, "err") => attempts[r] < errs[r]

\* The sweep holds rows that are overdue and not yet announced.
SweepInv ==
  /\ xmarked \notin xbatch
  /\ \A r \in Rows :
       /\ r \in xbatch => overdue[r] /\ status[r] # "absent"
       /\ r = xmarked => status[r] \notin {"absent", "pending"}
       /\ r \in xbatch \/ r = xmarked \/ status[r] = "pending" => notices[r] = 0

OutboxInv ==
  /\ TypeOK /\ TableInv /\ PassInv /\ ConfirmInv /\ SweepInv
  /\ StatusIsEarned /\ ErrorsAreCounted /\ NoticeAtMostOnce
=============================================================================
