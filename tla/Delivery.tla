------------------------------ MODULE Delivery ------------------------------
(***************************************************************************)
(* An outgoing message from the webhook to WhatsApp: the HTTP handler of   *)
(* POST /instances/:name/webhook (cmd/server/main.go), HandleFor           *)
(* (internal/bridge/outgoing.go) with its idempotency and spamguard        *)
(* filters (internal/bridge/dedup.go), and the outbox of module Outbox     *)
(* whose drainer calls the same HandleFor.                                 *)
(*                                                                         *)
(* Workers run HandleFor concurrently: the HTTP handlers (the enqueuers of *)
(* Outbox) and the drainer.  One contact per instance; only messages       *)
(* HandleFor would send are posted (outgoing, not private, no echo).       *)
(***************************************************************************)
EXTENDS Outbox, Sequences

CONSTANTS
  Messages,     \* downstream message ids
  Home,         \* Home[m]: the instance m is posted to
  Content,      \* Content[m]: its normalised text, NoText for a bare attachment
  NoText,
  Media,        \* messages with an attachment
  SpamguardOn,  \* spamguard_enabled at first
  Drainer,      \* the drainer goroutine as a worker
  NoMessage,
  MaxPosts,     \* bound: POSTs in a behaviour, retries included
  MaxDbErrors,  \* bound: failures of the filters' statements in a behaviour
  MaxToggles    \* bound: PATCHes of spamguard_enabled in a behaviour

Workers == Enqueuers \cup {Drainer}

ASSUME DeliveryAssumption ==
  /\ Home \in [Messages -> Instances] /\ Media \subseteq Messages
  /\ SpamguardOn \in BOOLEAN
  /\ Drainer \notin Enqueuers /\ NoMessage \notin Messages
  /\ IsFiniteSet(Messages)
  /\ MaxPosts \in Nat /\ MaxDbErrors \in Nat /\ MaxToggles \in Nat

VARIABLES
  carries,   \* carries[r]: the message in the payload of row r
  at, work,  \* what each worker is about to do, and for which message
  seen,      \* bridge_dedup row of a message: absent, within 3 windows, older
  recent,    \* SpamguardTracker.history of the contact: <<latest, prev>>
  saved,     \* bridge_spamguard_recent, what Warmup will find
  saving,    \* saving[w]: the history that w has recorded and not yet saved
  enabled,   \* bridge_instance.spamguard_enabled
  toggles, posts, dberrs,
  \* history: copies on the wire, times HandleFor gave a message up (blocked or
  \* not sent), HTTP replies, the messages whose idempotency row could not be
  \* relied upon, and those the spamguard has let through without a look
  wire, given, replies, excused, unguarded

guard == <<recent, saved, saving>>
flag == <<enabled, toggles, unguarded>>
bounds == <<posts, dberrs>>
delivery == <<carries, at, work, seen, guard, flag, bounds, wire, given, replies, excused>>
dvars == <<vars, delivery>>

DInit ==
  /\ Init
  /\ carries = [r \in Rows |-> NoMessage]
  /\ at = [w \in Workers |-> "idle"] /\ work = [w \in Workers |-> NoMessage]
  /\ seen = [m \in Messages |-> "absent"]
  /\ recent = [i \in Instances |-> <<>>] /\ saved = recent
  /\ saving = [w \in Workers |-> <<>>]
  /\ enabled = [i \in Instances |-> SpamguardOn]
  /\ toggles = 0 /\ posts = 0 /\ dberrs = 0
  /\ wire = [m \in Messages |-> 0] /\ given = [m \in Messages |-> 0]
  /\ replies = {} /\ excused = {} /\ unguarded = {}

Goto(w, place) == at' = [at EXCEPT ![w] = place] /\ UNCHANGED work

\* A reply ends the request.
Reply(h, code) ==
  /\ replies' = replies \cup {<<work[h], code>>}
  /\ at' = [at EXCEPT ![h] = "idle"]
  /\ work' = [work EXCEPT ![h] = NoMessage]

Code == [nil |-> 200, blocked |-> 422, error |-> 500]

\* HandleFor returns, to the handler or to the drainer.
Return(w, result) ==
  IF w = Drainer
  THEN /\ DrainReturn(result = "nil")
       /\ at' = [at EXCEPT ![w] = "idle"]
       /\ work' = [work EXCEPT ![w] = NoMessage]
       /\ UNCHANGED replies
  ELSE /\ Reply(w, Code[result])
       /\ UNCHANGED vars

-----------------------------------------------------------------------------
(* Slips a maintainer could make, each caught by a property below.         *)

\* The idempotency row is left when the message is queued, not when it is sent.
QueueInsertMarks(h) ==
  /\ at[h] = "insert"
  /\ EnqueueInsert(h)
  /\ carries' = [carries EXCEPT ![nextId] = work[h]]
  /\ seen' = [seen EXCEPT ![work[h]] = "fresh"]
  /\ Reply(h, 202)
  /\ UNCHANGED <<guard, flag, bounds, wire, given, excused>>

\* The history keeps the latest hash only.
RememberLatest(i, c) == [recent EXCEPT ![i] = <<c>>]

\* The comparison with NOW() - INTERVAL is turned round.
KnownWhenOld(m) == seen[m] = "stale"

-----------------------------------------------------------------------------
(* The HTTP handler *)

Post(h, m) ==
  /\ posts < MaxPosts
  /\ at[h] = "idle"
  /\ posts' = posts + 1
  /\ work' = [work EXCEPT ![h] = m]
  /\ at' = [at EXCEPT ![h] = IF connected[Home[m]] THEN "dedup" ELSE "count"]
  /\ UNCHANGED <<vars, carries, seen, guard, flag, dberrs, wire, given, replies, excused>>

QueueFull(h) ==
  /\ at[h] = "count"
  /\ ~BelowCap(Home[work[h]])
  /\ Reply(h, 503)
  /\ UNCHANGED <<vars, carries, seen, guard, flag, bounds, wire, given, excused>>

QueueCount(h) ==
  /\ at[h] = "count"
  /\ EnqueueCount(h, Home[work[h]])
  /\ Goto(h, "insert")
  /\ UNCHANGED <<carries, seen, guard, flag, bounds, wire, given, replies, excused>>

QueueInsert(h) ==
  /\ at[h] = "insert"
  /\ EnqueueInsert(h)
  /\ carries' = [carries EXCEPT ![nextId] = work[h]]
  /\ Reply(h, 202)
  /\ UNCHANGED <<seen, guard, flag, bounds, wire, given, excused>>

\* Any other error of Enqueue, in its COUNT or in its INSERT: the handler falls
\* back to a synchronous send.
QueueFails(h) ==
  /\ \/ at[h] = "count" /\ UNCHANGED vars
     \/ at[h] = "insert" /\ EnqueueAbort(h)
  /\ Goto(h, "dedup")
  /\ UNCHANGED <<carries, seen, guard, flag, bounds, wire, given, replies, excused>>

-----------------------------------------------------------------------------
(* HandleFor *)

DrainBegin(r) ==
  /\ at[Drainer] = "idle"
  /\ DrainCall(r)
  /\ at' = [at EXCEPT ![Drainer] = "dedup"]
  /\ work' = [work EXCEPT ![Drainer] = carries[r]]
  /\ UNCHANGED <<carries, seen, guard, flag, bounds, wire, given, replies, excused>>

\* Another worker has looked for the same id and not yet left its mark.
Overlaps(w) == \E v \in Workers \ {w} : at[v] = "mark" /\ work[v] = work[w]

Known(m) == seen[m] = "fresh"

\* SeenIncomingMsg, SELECT: a fresh row makes this a repetition.
DedupSelect(w) ==
  /\ at[w] = "dedup"
  /\ \/ /\ Known(work[w])
        /\ Return(w, "nil")
        /\ UNCHANGED excused
     \/ /\ ~Known(work[w])
        /\ Goto(w, "mark")
        /\ excused' = IF Overlaps(w) THEN excused \cup {work[w]} ELSE excused
        /\ UNCHANGED <<vars, replies>>
  /\ UNCHANGED <<carries, seen, guard, flag, bounds, wire, given>>

\* INSERT ... ON CONFLICT DO NOTHING: a stale row is not refreshed.
Marked(m) == IF seen[m] = "absent" THEN [seen EXCEPT ![m] = "fresh"] ELSE seen

DedupInsert(w) ==
  /\ at[w] = "mark"
  /\ seen' = Marked(work[w])
  /\ Goto(w, "guard")
  /\ UNCHANGED <<vars, carries, guard, flag, bounds, wire, given, replies, excused>>

\* A failed SELECT counts as no row, a failed INSERT as not a repetition:
\* either way the message goes on.
DedupFails(w) ==
  /\ dberrs < MaxDbErrors
  /\ dberrs' = dberrs + 1
  /\ \/ at[w] = "dedup" /\ Goto(w, "mark")
     \/ at[w] = "mark" /\ Goto(w, "guard")
  /\ excused' = excused \cup {work[w]}
  /\ UNCHANGED <<vars, carries, seen, guard, flag, posts, wire, given, replies>>

Repeats(i, c) == \E k \in DOMAIN recent[i] : recent[i][k] = c
Remember(i, c) ==
  [recent EXCEPT ![i] = SubSeq(<<c>> \o @, 1, IF @ = <<>> THEN 1 ELSE 2)]

\* IsSpamguardEnabled, one SELECT for each message that has a text.
ReadFlag(w) ==
  LET looks == Content[work[w]] # NoText /\ enabled[Home[work[w]]] IN
  /\ at[w] = "guard"
  /\ Goto(w, IF looks THEN "check" ELSE "send")
  /\ unguarded' = IF looks THEN unguarded ELSE unguarded \cup {work[w]}
  /\ UNCHANGED <<vars, carries, seen, guard, enabled, toggles, bounds, wire, given, replies,
                 excused>>

\* Its error is discarded: a flag that cannot be read counts as off.
ReadFlagFails(w) ==
  /\ at[w] = "guard"
  /\ Content[work[w]] # NoText
  /\ dberrs < MaxDbErrors
  /\ dberrs' = dberrs + 1
  /\ Goto(w, "send")
  /\ unguarded' = unguarded \cup {work[w]}
  /\ UNCHANGED <<vars, carries, seen, guard, enabled, toggles, posts, wire, given, replies,
                 excused>>

\* Before the send, and atomic under SpamguardTracker.mu.
CheckAndRecord(w) ==
  LET c == Content[work[w]]
      i == Home[work[w]]
  IN
  /\ at[w] = "check"
  /\ \/ /\ Repeats(i, c)
        /\ given' = [given EXCEPT ![work[w]] = @ + 1]
        /\ Return(w, "blocked")
        /\ UNCHANGED guard
     \/ /\ ~Repeats(i, c)
        /\ recent' = Remember(i, c)
        /\ saving' = [saving EXCEPT ![w] = recent'[i]]
        /\ Goto(w, "save")
        /\ UNCHANGED <<vars, saved, given, replies>>
  /\ UNCHANGED <<carries, seen, flag, bounds, wire, excused>>

\* persistHistory, after the lock is released: histories may be saved in
\* another order than they were recorded in.  A failed UPSERT is only logged.
SaveHistory(w) ==
  /\ at[w] = "save"
  /\ saved' = [saved EXCEPT ![Home[work[w]]] = saving[w]]
  /\ saving' = [saving EXCEPT ![w] = <<>>]
  /\ Goto(w, "send")
  /\ UNCHANGED <<vars, carries, seen, recent, flag, bounds, wire, given, replies, excused>>

SaveFails(w) ==
  /\ at[w] = "save"
  /\ dberrs < MaxDbErrors
  /\ dberrs' = dberrs + 1
  /\ saving' = [saving EXCEPT ![w] = <<>>]
  /\ Goto(w, "send")
  /\ UNCHANGED <<vars, carries, seen, recent, saved, flag, posts, wire, given, replies,
                 excused>>

Transmit(m) == wire' = [wire EXCEPT ![m] = @ + 1]

SendOk(w) ==
  /\ at[w] = "send"
  /\ connected[Home[work[w]]]
  /\ Transmit(work[w])
  /\ Return(w, "nil")
  /\ UNCHANGED <<carries, seen, guard, flag, bounds, given, excused>>

\* The send fails, or its answer is lost after WhatsApp took the message.  A
\* failed text is an error, a failed attachment is only logged.
SendFails(w) ==
  /\ at[w] = "send"
  /\ UNCHANGED wire \/ (connected[Home[work[w]]] /\ Transmit(work[w]))
  /\ given' = [given EXCEPT ![work[w]] = @ + 1]
  /\ Return(w, IF work[w] \in Media THEN "nil" ELSE "error")
  /\ UNCHANGED <<carries, seen, guard, flag, bounds, excused>>

-----------------------------------------------------------------------------
(* The operator, time and crashes *)

\* PATCH /instances/:name writes the flag; the history stays.
SetSpamguard(i, on) ==
  /\ toggles < MaxToggles
  /\ enabled[i] # on
  /\ toggles' = toggles + 1
  /\ enabled' = [enabled EXCEPT ![i] = on]
  /\ UNCHANGED <<vars, carries, at, work, seen, guard, bounds, wire, given, replies, excused,
                 unguarded>>

\* seen_at leaves the window; ShouldDrop deletes rows twice as old.
WindowElapses(m) ==
  /\ seen[m] = "fresh"
  /\ seen' = [seen EXCEPT ![m] = "stale"]
  /\ excused' = excused \cup {m}
  /\ UNCHANGED <<vars, carries, at, work, guard, flag, bounds, wire, given, replies>>

Purge(m) ==
  /\ seen[m] = "stale"
  /\ seen' = [seen EXCEPT ![m] = "absent"]
  /\ UNCHANGED <<vars, carries, at, work, guard, flag, bounds, wire, given, replies, excused>>

\* Requests in progress die unanswered; Warmup takes what was saved, unless it
\* is an hour old or cannot be read.
DRestart(k) ==
  /\ Restart(k)
  /\ at' = [w \in Workers |-> "idle"] /\ work' = [w \in Workers |-> NoMessage]
  /\ recent' \in {saved, [i \in Instances |-> <<>>]}
  /\ saving' = [w \in Workers |-> <<>>]
  /\ UNCHANGED <<carries, seen, saved, flag, bounds, wire, given, replies, excused>>

\* The rest of the outbox does not touch the delivery state.
OutboxStep ==
  /\ \/ DrainSelect \/ DrainMark \/ DrainMarkFails
     \/ ExpireSelect \/ ExpireNotify
     \/ \E r \in Rows : DrainSkip(r) \/ ExpireMark(r) \/ ExpireMarkFails(r) \/ TTLElapses(r)
     \/ \E i \in Instances, up \in BOOLEAN : SetConnected(i, up)
  /\ UNCHANGED delivery

Handler(h) ==
  \/ \E m \in Messages : Post(h, m)
  \/ QueueFull(h) \/ QueueCount(h) \/ QueueInsert(h) \/ QueueFails(h)

HandleFor(w) ==
  \/ DedupSelect(w) \/ DedupInsert(w) \/ DedupFails(w)
  \/ ReadFlag(w) \/ ReadFlagFails(w) \/ CheckAndRecord(w) \/ SaveHistory(w) \/ SaveFails(w)
  \/ SendOk(w) \/ SendFails(w)

DNext ==
  \/ \E h \in Enqueuers : Handler(h)
  \/ \E w \in Workers : HandleFor(w)
  \/ \E r \in Rows : DrainBegin(r)
  \/ \E m \in Messages : WindowElapses(m) \/ Purge(m)
  \/ \E i \in Instances, on \in BOOLEAN : SetSpamguard(i, on)
  \/ \E k \in Keys \cup {NoKey} : DRestart(k)
  \/ OutboxStep

DSpec == DInit /\ [][DNext]_dvars
-----------------------------------------------------------------------------
(* Properties *)

\* Every variable keeps its type, and a handler between COUNT and INSERT of
\* Enqueue is the one Outbox knows.
DeliveryTypeOK ==
  /\ carries \in [Rows -> Messages \cup {NoMessage}]
  /\ at \in [Workers -> {"idle", "count", "insert", "dedup", "mark", "guard", "check", "save",
                        "send"}]
  /\ work \in [Workers -> Messages \cup {NoMessage}]
  /\ \A w \in Workers : at[w] = "idle" <=> work[w] = NoMessage
  /\ seen \in [Messages -> {"absent", "fresh", "stale"}]
  /\ \A i \in Instances : Len(recent[i]) <= 2 /\ Len(saved[i]) <= 2
  /\ \A w \in Workers : saving[w] # <<>> <=> at[w] = "save"
  /\ enabled \in [Instances -> BOOLEAN] /\ toggles \in 0 .. MaxToggles
  /\ posts \in 0 .. MaxPosts /\ dberrs \in 0 .. MaxDbErrors
  /\ wire \in [Messages -> Nat] /\ given \in [Messages -> Nat]
  /\ replies \subseteq Messages \X {200, 202, 422, 500, 503}
  /\ excused \subseteq Messages /\ unguarded \subseteq Messages
  /\ \A h \in Enqueuers : counted[h] = IF at[h] = "insert" THEN Home[work[h]] ELSE NoInstance
  /\ phase = "call" <=> at[Drainer] # "idle"

\* A worker past the idempotency check that may yet send m.
Sends(w, m) == work[w] = m /\ at[w] \in {"mark", "guard", "check", "save", "send"}
Sending(m) == \E w \in Workers : Sends(w, m)

\* A message is claimed delivered: the caller got 200, or its row is 'sent'.
Claimed(m) ==
  <<m, 200>> \in replies \/ \E r \in Rows : carries[r] = m /\ status[r] = "sent"

\* A claim of delivery without a copy on the wire has one of the causes the
\* code accepts: HandleFor gave an earlier call up, another worker is sending
\* that id right now, or a crash cut such a worker off.  Nothing else loses a
\* message (webhook handler, HandleFor and DrainOnce together).
ClaimAccountedFor ==
  \A m \in Messages :
    Claimed(m) /\ wire[m] = 0 => given[m] > 0 \/ Sending(m) \/ faults > 0

\* Retries of the downstream, repeated POSTs and the outbox together put one
\* copy of a message on the wire, as long as its row in bridge_dedup is young,
\* reachable and not raced for (SeenIncomingMsg).
OneCopyUnlessExcused ==
  \A m \in Messages : wire[m] <= 1 \/ m \in excused

Texts(i) == {Content[m] : m \in {n \in Messages : Home[n] = i}} \ {NoText}

\* Two messages with the same text that the spamguard has looked at do not
\* both reach the contact, whichever workers carry them, however they overlap
\* and whenever the flag is switched: the check and the record are one step.
\* What gets past it is a message it never looks at (a bare attachment, the
\* flag off, or the flag's SELECT failed), a restart, and more texts than the
\* history holds (IsSpamguardEnabled and CheckAndRecord).
OneTextPerContact ==
  faults = 0 =>
    \A m, n \in Messages \ unguarded :
      /\ m # n /\ wire[m] > 0 /\ wire[n] > 0
      /\ Home[m] = Home[n] /\ Cardinality(Texts(Home[m])) <= 2
      => Content[m] # Content[n]

-----------------------------------------------------------------------------
(* The inductive invariant behind OneCopyUnlessExcused                     *)

\* A worker has a message exactly while it works, and so has a row that is
\* in the table.
WorkInv ==
  /\ carries \in [Rows -> Messages \cup {NoMessage}]
  /\ at \in [Workers -> {"idle", "count", "insert", "dedup", "mark", "guard", "check", "save",
                        "send"}]
  /\ work \in [Workers -> Messages \cup {NoMessage}]
  /\ \A w \in Workers : at[w] # "idle" => work[w] \in Messages
  /\ \A r \in Rows : status[r] # "absent" => carries[r] \in Messages
  /\ seen \in [Messages -> {"absent", "fresh", "stale"}]
  /\ wire \in [Messages -> Nat]

\* Of a message that is not excused there is one sender and no copy, or one
\* copy and no sender; past the mark, its row keeps every other worker out.
CopyInv ==
  \A m \in Messages \ excused :
    /\ wire[m] <= 1
    /\ \A v, w \in Workers : Sends(v, m) /\ Sends(w, m) => v = w
    /\ \A w \in Workers : Sends(w, m) => wire[m] = 0
    /\ \A w \in Workers : Sends(w, m) /\ at[w] # "mark" => seen[m] = "fresh"
    /\ wire[m] > 0 => seen[m] = "fresh"
    /\ seen[m] # "stale"

DeliveryInv == WorkInv /\ CopyInv
=============================================================================
