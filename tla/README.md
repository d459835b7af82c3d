# qrsgen in TLA+

qrsgen is a bridge between WhatsApp (through whatsmeow) and a Chatwoot-like
downstream. One process holds many *instances* (linked WhatsApp devices). The
modules in this directory model its control, read from the code in `src/`: what is
stored and retried when a message cannot be sent, what is sent twice or not at
all, how an incoming message finds its conversation, how history is imported, which
downstream serves an instance, what the orchestrator is told about a connection, and
how an instance is created, linked, restarted and deleted. TLC checks them on small
instances; TLAPS proves most of the safety properties for every value of the
parameters.

File names below are relative to `src/`. The long ones are abbreviated:
`outbox.go` is `internal/outbox/outbox.go`; `outgoing.go`, `dedup.go`,
`incoming.go`, `chat_anchor.go`, `history_import.go`, `jobs.go`, `waid_tracker.go`
and `group_sender_tracker.go` are in `internal/bridge/`; `manager.go` is
`internal/manager/manager.go`, `connection.go` is `internal/wameow/connection.go`,
`registry.go` is `internal/downstream/registry.go`, `tenant.go` is
`internal/tenant/tenant.go`, `banwatch.go` is `internal/banwatch/banwatch.go`,
`usage.go` is `internal/usage/usage.go`, and `main.go` is `cmd/server/main.go`.

## 1. Inventory

| Component | State | Operations | Talks to | Module |
|---|---|---|---|---|
| Outbox (`internal/outbox`) | table `bridge_outgoing_queue`, the key payloads are sealed with, `Outbox.mu` (only between drain passes) | `Enqueue`, `DrainOnce`, `ExpireOnce`, `Stats`; two ticker goroutines | webhook handler above; `HandleForRaw` and `IsConnected` below; `EmitLifecycle` | `Outbox` |
| Outgoing delivery (`outgoing.go`, `dedup.go`) | `bridge_dedup`, `SpamguardTracker.history` and its copy `bridge_spamguard_recent`, block counters | `HandleFor`, `HandleForRaw`, `SeenIncomingMsg`, `CheckAndRecord`, `Warmup` | the webhook handler and the drainer call it; WhatsApp below | `Delivery` |
| Manager: instances (`internal/manager`) | `Manager.instances` under `Manager.mu`, table `bridge_instance`, `waiters` | `CreateWithOpts`, `RefreshQR`, `Restart`, `Logout`, `Delete`, `Bootstrap`, `Status`, `WaitReady` | HTTP handlers; `wameow.Conn` | `Instances` |
| Manager: lifecycle events | `pendingUnreachable`, `disconnectNotified`, `pendingReconnected`, `connectedEmitted` (each a map with its own lock), goroutines that sleep 60 s, 10 s, 2 min | `onLifecycle`, `emitUnreachableAfterGrace`, `emitReconnectedAfterStabilize`, `emitLifecycleWebhook` | whatsmeow callbacks above; the orchestrator's webhooks below | `Lifecycle` |
| Manager: webhook retry, broadcasts | goroutines in their back-off | `postWebhookWithRetry`, `emitCustomWebhook`, `BroadcastBackendStarted`, `BroadcastBackendRestarting` | webhooks of the instances; usage | `Emission` |
| Connection (`internal/wameow`) | one whatsmeow client, last QR, `lifecycleCtx` | `Connect`, `listenQR`, `handle`, `Logout`, `Disconnect` | whatsmeow; callbacks of the manager and the bridge | in `Instances`, `Lifecycle` |
| Incoming messages (`incoming.go`) | contacts and conversations of the downstream, `bridge_dedup` for own messages, the trackers | `Handle`, `sync`, reactions, group events, `conversation_updated` | whatsmeow; downstream; agent | `Incoming` |
| History import | a page of the history sync; latches per chat; jobs in memory | `runHistoryImport`, `ImportHistoryOnDemand`, `BulkImportHistory`, `JobStore.RunAsync` and its clean-up | the phone; downstream | `Incoming`, `OnDemand` |
| Chat anchor (`chat_anchor.go`) | `bridge_chat_anchor` and its copy in memory | `Record`, `Find`, `Warmup`, `SetPool`, `CleanupOld` | incoming; history on demand | `Anchors` |
| Trackers | `waidTracker`, `groupSenderTracker`; typing, avatar, posted messages: maps under a lock, some capped | record, drain, expire | incoming and outgoing | in `Incoming`, partly |
| Ban watch (`banwatch.go`) | a bucket of sends, active alerts | `Record`, `evaluate` every 30 s | manager, webhooks | `Emission` |
| Usage (`usage.go`) | counters in memory, `bridge_usage_daily` | `Inc*`, `Flush` every minute and at the end | everything that counts | `Emission` |
| Downstream registry (`registry.go`) | clients per tenant, the tag of each instance with a TTL | `For`, `InboxIDFor`, `InvalidateTenant` | tenants; incoming, import | `Tenants` |
| Tenants (`tenant.go`) | `bridge_tenant`, `Resolver.cache` | `Get`, `Set`, `Patch`, `Delete`, `Warmup` | HTTP; registry | `Tenants` |
| API keys, audit, metrics, configuration | rows, counters | CRUD | HTTP | none |

### What is hard here

* **No transaction joins two statements.** `Enqueue` counts and inserts,
  `SeenIncomingMsg` selects and inserts, the drainer sends and updates, the expirer
  updates and notifies, `Handle` looks a conversation up and creates it. Between any two
  of them another goroutine runs, a statement fails, or the process dies.
* **The drainer and the expirer do not exclude each other**, and both write the
  status by id without asking which one the row has.
* **At least once meets a deduplication filter.** The drainer retries what failed;
  the idempotency row and the spamguard history are left *before* the send.
* **Timers that outlive their cause.** Every drop starts two sleeping goroutines;
  later ones change the flags under them.
* **State kept by name** outlives what it speaks of: flags of a session, a latch under
  the name of a chat that two requests share, the tag of a former owner.
* **Caches filled from a read made outside their lock**: chat anchors, tenant
  configurations, clients. A change between the read and the fill is overwritten.
* **Check, then register.** `WaitReady` looks at the status and then adds its channel;
  `onDemandLatchSet.notify` looks the channel up and then sends.
* **Goroutines without an owner.** Posts with five minutes of back-off, writes behind,
  answers of the phone and jobs are cut off by an exit wherever they are.

### What makes each part correct

* Outbox: an accepted message is closed once and for good; it is delivered at most
  once more than there were faults; a closing status has the evidence it claims; the
  expiry is told once; a queue does not grow past its depth by more than the racers.
* Delivery: one copy of a message on the wire while its idempotency row can be relied
  upon; a claim of delivery without a copy has one of few causes; of the texts the spamguard looks
  at, one through once whichever workers carry it and whenever its flag changes.
* Incoming: a message is lost only to a failed call, a race of two creations, or a refused
  source id after the agent resolved a conversation; a second conversation beside an open one
  needs that race; a message without header follows its own sender; nothing is marked as read
  that was not there when the agent looked, and no text is forgotten; the import's counts are
  true, as far as the text of an error lets it tell.
* Anchors: the row never moves back, a restart does not lose it, the memory is older than
  the row only after one of two named races.
* On demand: no latch without its owner; a caller alone on its chat is reached by its answer;
  an answer is imported once; every call and every job ends.
* Lifecycle: an outage that lasts is announced; `connected` once per session;
  `reconnected` only in answer to `unreachable`.
* Instances: one live Conn per instance; the row can bring the session back; a deleted
  row stays deleted; a caller waits on a ready instance only if one specific race hit it.
* Emission: an alert once per rise; a critical event received, or every attempt failed, or the
  exit cut it off; every count in one place; the restart announced before the exit.
* Tenants: a stale configuration only after a crossing of two parties or a lost answer; no
  message to the global downstream while its tenant is there.

## 2. Modules

| Module | Models | Extends |
|---|---|---|
| `Outbox` | `outbox.go`: table, handlers, drainer, expirer | |
| `OutboxPromise` | what the outbox promises per message, without table or goroutines | |
| `OutboxRefinement` | the mapping from `Outbox` to `OutboxPromise` | `Outbox` |
| `Delivery` | webhook handler, `HandleFor`, idempotency, spamguard, on top of the outbox | `Outbox` |
| `OutgoingProofs` | theorems about `Outbox`, the refinement, and the outbox driven by handlers and `HandleFor` | `Delivery`, `OutboxRefinement`, `TLAPS` |
| `Incoming`, `IncomingProofs` | one group: live events, history sync, agent, trackers | |
| `Anchors`, `AnchorsProofs` | `chat_anchor.go`, for one chat, across restarts | |
| `OnDemand`, `OnDemandProofs` | requests for history, latches, answers, the job of all contacts | |
| `Emission`, `EmissionProofs` | ban watch, webhook posts, usage, and the way out of the process | |
| `Tenants`, `TenantsProofs` | owner tag, Resolver and Registry, for one instance | |
| `Lifecycle`, `LifecycleProofs` | `onLifecycle` and its goroutines, for one instance | |
| `Instances`, `InstancesProofs` | `Manager.instances`, `bridge_instance`, `WaitReady`, for one instance | |
| `MC*` | symmetry sets, views and constant values for TLC | |

### Outbox

The table is one function per column (`status`, `instance`, `attempts`, `overdue`
for `expires_at < NOW()`, `sealed` for the key of the payload), indexed by the
`BIGSERIAL` id. Every SQL statement is one action. `EnqueueCount`/`EnqueueInsert` are
the two statements of `Enqueue`; `counted[e]` says that handler `e` is between them. A
drain pass is `DrainSelect` (the oldest `DrainLimit` pending rows of all instances, with
their attempts copied into `snapshot`; one row that does not decrypt aborts it), then per
row `DrainSkip` or `DrainCall`, `DrainReturn`, and `DrainMark` or `DrainMarkFails`. A
sweep is `ExpireSelect`, `ExpireMark` or `ExpireMarkFails`, `ExpireNotify`. An UPDATE that
reports an error may have been applied, its answer lost: both actions named `...Fails` choose, and
so an expiry may stay unannounced without a crash.
`Outbox.mu` appears as the single `phase` of the drainer; the expirer does not take it.
`Restart` clears what is in memory and may change the key. `oks`, `errs`, `notices` and
`faults` are history.

### OutboxPromise and the refinement

A message is `none`, `open` or `closed`; it may be handed over while `copies <= faults`,
even after it was closed (drainer and expirer overlap); its expiry is told at most once,
after the close. A fault may close the message. Fairness of the promise is that an open message is closed, never that it
is delivered. The mapping sends `pending` to `open`, the three closing statuses to `closed`,
`oks` to `copies` and `notices > 0` to `told`.

### Delivery

Workers (HTTP handlers and the drainer) walk through the steps of `HandleFor`: `dedup`
(SELECT), `mark` (INSERT, which does not refresh an old row), `guard` (the SELECT of the
spamguard's flag), `check` (`CheckAndRecord`, atomic under its lock), `save` (the history goes to the table after the lock is
released), `send`. The handler goes to `count`/`insert` when the instance is not connected,
and falls back to a synchronous send when `Enqueue` fails for another reason than a full
queue, its COUNT included. The flag is one per instance (`enabled`), which a PATCH switches at any
time (`SetSpamguard`) and whose failed read counts as off (`ReadFlagFails`): `unguarded` collects
the messages the spamguard did not look at. The drainer's steps conjoin the actions of `Outbox`, so the rows it writes are the
outbox's own. `seen[m]` is the age of the `bridge_dedup` row: `fresh` within three windows,
`stale` until purged, `absent`. `excused` collects the messages whose idempotency row could
not help: it grew old, a statement failed, or another worker was between SELECT and
INSERT of the same id.

### Incoming

Two workers carry messages of one group to the downstream: `live` (whatsmeow hands over the
events of an instance one at a time) and `import` (the goroutine of a history sync). A worker
goes `contact`, `create`, `conv`, `open`, `post`, `after`, one HTTP call per step; `conv[w]` is
the conversation it found, which the agent may resolve before the post. Live events are
texts of participants, own messages (dropped by `bridge_dedup` if the owner has written the same
shortly before) and notices (reactions, group events). `burst` is `groupSenderTracker`, `waids` the
capped list of `waidTracker`, which is filled after the POST and drained by the second of
`agent_last_seen_at`. Only `live` fills it, one event at a time, so the list is a set in the order
of its ids, and its oldest entry the one with the least. The agent looks at one conversation
(`AgentLooks(c)`), while the tracker drains all that waits for the chat. `Nameless` are the
participants without phone and name, who get no header (`Header`). The downstream is external: it
refuses a second contact with an identifier and a second message with a source id, and a call may fail
before or after it has taken effect. A conversation is created with the identifier of the chat as
its source id; once the chat has one, the downstream may refuse another, as the comment of
`client.go:602-615` says, or create it, and nobody recovers from the refusal: both happen.
`raced`, `resolved`, `refused`, `seen`, `shown` and `media` are history.

### Anchors

An anchor is the timestamp of the newest incoming message of one chat. `Record` compares
with memory and starts a write behind (`writes`) if there is a pool; `Persist` is its UPSERT,
which keeps the newer. `Find` is three steps when it misses the memory: miss, SELECT, fill. The
phases of the boot are those of `main.go`: instances connected and no pool, pool set,
the rows of the warm-up read, up. `lapped` says that a message was recorded while such a read was
under way or before there was one; `early` that it came without a pool.

### OnDemand

A caller goes `anchor`, `request`, `wait`, `import`, `done`. `latches[c]` is the channel the map
holds under chat `c`: `acquire` replaces what is there and `release` deletes what is there, whoever
put it. The answer of the phone is a goroutine: `LookUp` finds a channel or none, `Send` puts the
answer there unless it is full, and `ImportInline` imports an answer nobody asked for or that did not
fit into the channel. The job lists pages up to the cap, asks for one contact after another with the steps of
any caller, and counts the outcome; listing may fail, and a finished job is purged by age. `shared`
and `late` are history.

### Emission

One instance, one life of the process. `window` is the bucket of the ban watch: its sends,
numbered in the order of `Record`, each with the window it still counts in; `Evaluate` compares the alerts with `activeAlerts` and emits those
that rose. An event is a goroutine: it reads the address (`FindURL`), posts, sleeps and posts again
if it is critical, and then counts. Whether the instance has an `events_webhook_url` is `addressed`,
chosen at the start and fixed; one with subscribers only has none. The return without an
address is silent and no failure (`silent`), the return on a failed SELECT is one (`unread`). `received` and `lost` belong to the receiver: a post may arrive
without its answer. `memory`, `flushing` and `table` hold the counts of one bucket of usage. SIGTERM
(`Stop`) ends the loops; the broadcast is given five seconds (`Returned`, `hurried`), then a grace,
then `Exit` stops everything where it is.

### Tenants

A configuration is the number of the change that wrote it. A reader (`For`, `InboxIDFor`) finds the
tag - cached with its TTL or selected -, then the client, then the configuration in the Resolver's
cache or table, fills the cache and stores the client, each step outside the locks of the others; `lookups` are the readers
that call `InboxIDFor`, which asks no client and stores none. A
request writes the table, then the Resolver's cache, then evicts the client. `crossed` names the
tenants for which one of these met another on its way, or the answer of the statement was lost.

### Lifecycle

`queue` holds the events whatsmeow has produced and `onLifecycle` has not handled; `flags` the
four flags of the name; `running` the goroutines, each with the step it is at and the
time it still sleeps. `Tick` lets time pass for the sleepers; a goroutine whose time is up may
run late. `HandleConnected` is the
chain of early returns of the `EventConnected` case, one definition each. `Decides` is the
point of `emitLifecycleWebhook` where an outage is marked as notified.

### Instances

`conns[g]` is the g-th Conn, with whether it has been disconnected by us (`alive`), its
socket, its JID and whether it holds a QR. `current` is the one in `Manager.instances`. An API call
is one step because it runs under `Manager.mu`, with the failures it may meet (`Fails`).
`pending[g]` are the events of Conn `g` that have not reached `onLifecycle`; they survive
the replacement of the Conn. A caller of `WaitReady` goes `idle`, `status`, `register`,
`wait`, `woken`, `fresh`, `done`: `Status` reads the map and the row in two steps, before
and after the wait.

## 3. Runs

Passing runs:

| Run | Question | Instance |
|---|---|---|
| `OutboxCore` | safety of the queue and its depth under racing handlers | 2 handlers, depth 1, 3 rows, 2 attempts, 1 fault |
| `OutboxLive` | every message is closed, expiry is announced, the promise is kept with its fairness | 1 handler, 2 rows, 1 key or none, 2 attempts, 1 fault |
| `DeliveryRetries` | one message, posted twice, with a crash, failing tables and expiry | 2 handlers and the drainer, 2 rows |
| `DeliveryGuarded` | a text, its copy under another id and a third text, through handler and drainer | 3 messages, one with an attachment, spamguard on and switched once, 1 database error |
| `LifecycleCore` | once per session, recovery answers alarm, no outage is forgotten, a lasting one is announced | 5 events, 1 database error, fair |
| `InstancesCore` | one session, the row, deletion, waiters | 2 callers, 3 Conns, 2 devices, 4 events, 1 failure |
| `IncomingCore` | what is lost, opened twice, shown without header, marked as read, imported | 2 participants, one nameless, 3 live events, 1 old message, 1 history sync, 2 conversations, 1 act of the agent, 1 failed call, cap 2 |
| `AnchorsCore` | the anchor in memory, row and writes behind, across restarts | 3 times, 2 look-ups at once, 2 failures, 1 clean-up, 2 restarts |
| `OnDemandCore` | a request and the job of all contacts on overlapping chats | 1 request, 2 chats, 2 pages, fair |
| `EmissionCore` | alerts, retries, counts and the way out | 2 contacts, thresholds 1, 1 and 1, 1 retry, 2 sends, 2 events, 2 failures |
| `TenantsCore` | routing while tenants change and the instance changes hands | 2 tenants, 2 readers, 2 requests, 3 changes, 1 new owner, 1 failure |

`EmissionCore` has 11 million distinct states, `DeliveryGuarded` and `IncomingCore` 9 each,
`TenantsCore` 8; `OutboxCore`, `InstancesCore` and `DeliveryRetries` have 2 to 3 million.

One run checks a sentence of the docs, and TLC finds a behaviour of the code that
contradicts it: in `LifecycleRecovery` the connection flaps while it stabilises, and the
orchestrator stays at `unreachable` for good. `PROJECT.json` quotes the sentence (`findings`) and
gives, for every property of a passing run, a slip in the code that breaks it (`mutants`). The slips
stand in the modules, under *Slips a maintainer could make*.

`KeepsFairPromise` says three things at once of each row: it is closed once and for good, its expiry
is told once, and it is handed over once per fault; the theorems of `OutgoingProofs` state them apart
too. The type invariants are no properties of the runs: they are part of the inductive invariants,
and proved for every instance.

### Other deviations the models allow

The actions also allow the following, each of them contrary to a doc or to what a caller
would expect. They follow from the code directly and have no run of their own; the passing
properties are stated so as to hold in spite of them.

Outbox and delivery:

* Handlers that count at the same time pass `MaxQueueDepth` (`outbox.go:207`);
  `OvershootBounded` says by how much.
* A pass full of rows of disconnected instances has none of a connected one (`outbox.go:303`
  against `docs/architecture/outgoing-flow.md:55`). Until they expire, such rows keep the pass for
  themselves, which is why `EventuallySettled` promises a close and no delivery.
* `outgoing_expired` is emitted for a message the drainer is delivering or has delivered,
  because the sweep does not exclude the pass (`outbox.go:441`); it is never emitted for one whose
  UPDATE was applied while its answer was lost (`outbox.go:442`).
* A failed delivery is retried, dropped as a duplicate of itself, and its row marked `sent`
  (`outgoing.go:347` against `docs/architecture/outgoing-flow.md:57`).
* The same id is sent twice when its `bridge_dedup` row has grown old without being
  refreshed, when two requests race between SELECT and INSERT, or when a statement fails
  (`dedup.go:340`); `OneCopyUnlessExcused` lists these causes.
* 200 for an attachment that was not sent (`outgoing.go:456`), and 422 for a text no copy of
  which was sent, because it is recorded before the send (`outgoing.go:380`).
* A flag of the spamguard that cannot be read counts as off: its error is discarded, and the text
  goes out a second time (`manager.go:917`, `outgoing.go:379`). `OneTextPerContact` speaks of the
  messages the spamguard looked at.
* Two histories of the spamguard are saved in the opposite order, so that a restart does not
  find the last one (`dedup.go:258` against `CHANGELOG.md:4012`).

Lifecycle and instances:

* The timer of an earlier drop announces `unreachable` for a later one before its grace is
  over (`manager.go:774`), and `disconnected` is decided by one look after two minutes, whatever
  happened in between (`manager.go:838`).
* A flag of the previous session silences `connected` of a new device (`manager.go:709`
  against `docs/architecture/lifecycle-events.md:62`).
* `strike` is dropped by the `default` branch of `onLifecycle` (`manager.go:617`).
* Events are posted from separate goroutines, so the receiver may see them out of order
  (`manager.go:721`).
* A caller of wait-ready registers just after the Connected it waits for (`manager.go:1407`
  against `docs/api/qr-lifecycle.md:18`); one that is woken is answered with the status of
  that moment, `ready` or not (`manager.go:1436`); `logged_out` wakes nobody.
* After the logout call the row keeps `paired_at` and `ready_at`, so that a Conn that
  shows a new QR is reported as `paired` (`manager.go:1503`); without a connection the device
  stays linked (`manager.go:1500`).
* A failed SELECT of the jid turns a restart into a new device (`manager.go:1485`).

Incoming and import:

* The loser of two creations of one contact or one conversation loses its message: the
  error is logged and nothing is tried again (`incoming.go:1142`).
* The source id of a conversation is the identifier of its chat, the same for all of them. The
  comment of `CreateConversation` has Chatwoot refuse a second one with 422 and leaves it to the
  caller to recover (`client.go:602-615`); `sync` and `postHistoryMsg` do not, so that after a
  resolve the next message is lost with no failure and no race (`incoming.go:1141`,
  `history_import.go:312`). `LostOnlyWithCause` names this cause.
* An own message is dropped as the twin of an earlier one although the POST of that one may have
  failed (`incoming.go:986`).
* A message without header may open a conversation, when the one with the header went to another
  conversation or its POST failed, and may follow the message of another participant that was not
  recorded as a sender (`incoming.go:955` against `docs/deployment/env-vars.md:29`).
* A text is posted without its conversation being handed back (`incoming.go:1217`), so that it
  does not enter the history of posted messages the comment above it promises it to
  (`incoming.go:1006`); a message with an attachment is never remembered to be marked as read.
* The ids waiting to be marked are kept by chat and not by conversation: an agent who looks at a
  conversation marks those of another one of the same chat (`waid_tracker.go:67`, where
  `docs/integrations/presence-and-receipts.md:239` has "Aislamiento per-conversación"). With more than
  one conversation `OnlyReadIsMarked` asks only that the message was in the downstream at the look.
* The import takes 429 for a permanent error (`history_import.go:700`), and any error that
  contains `422`, in its path for instance, for a message already there although nothing was
  delivered (`history_import.go:346`, whose comment has "422 = source_id duplicate").

Anchors and history on demand:

* The warm-up and a late fill put an older anchor over a newer one in memory
  (`chat_anchor.go:181`); `Record` compares with memory only, and an anchor recorded before
  `SetPool` is not written (`chat_anchor.go:123`).
* Two requests for one chat take each other's latch away, so that one runs into its timeout although
  the phone answered, or imports the answer to the other (`history_import.go:541`); an
  answer that comes between the look-up and the timeout stays in a channel nobody reads
  (`history_import.go:755`).
* A job that fails drops the counts it had, and a restart forgets the job (`jobs.go:50`).

Emission and tenants:

* A count whose UPSERT was applied without an answer is counted twice (`usage.go:192` against
  `docs/architecture/usage-tracking.md:63-65`, which calls the flush idempotent "sin doble-conteo");
  what is counted after the last flush is lost at the exit (`main.go:1082` against
  `docs/architecture/usage-tracking.md:40`, "No se pierden cuentas [...] ni por restarts", and the
  order of `docs/architecture/concurrency.md:44-55`).
* A custom event is not sent to an instance that has subscribers and no
  `events_webhook_url` (`manager.go:1145`): it is never told of the restart, with no failed call and
  nobody slow, although by `docs/api/instances.md:27` and `:36` subscribers replace that address and
  get all events. An event that is being retried when the process exits is lost
  (`manager.go:1120`); that it is retried at all contradicts
  `docs/api/lifecycle-webhooks.md:39-41`.
* A threshold passed and left between two evaluations raises no alert (`banwatch.go:322`).
* A configuration read before a change and stored after it stays in the Resolver or in the Registry
  until the next change (`registry.go:142`, while `docs/api/tenants.md:167-169` guarantees that
  the next request uses the new one); two requests that change one tenant may
  leave the older one in memory, and so may an answer of the database that is lost
  (`tenant.go:195`).
* When the owner of an instance cannot be read, or the tag of a deleted tenant is still
  cached, the message goes to the global downstream (`registry.go:190`).

### Hazards without a property

Where the hazard itself is the exception a property names, its note in `PROJECT.json` says so: the
property shows that nothing else goes wrong there, not that the exception does not. Two hazards are
listed without a property, because the code does what they fear: rows starved by the LIMIT of a pass
(`outbox.go:308`), and the dates a logout leaves in the row (`manager.go:1503`). Not listed are
the 200 for a lost attachment and the order of saved histories (`outgoing.go:456`,
`dedup.go:264`), which the code decides in one place; `manager.go:838`, `:721`, `:1436`,
`:1485`, `:1500`, which are deviations above; two data races, of `Bootstrap` on
`Manager.instances` (`manager.go:364`) and of `GET` on the status of a job
(`cmd/server/routes_history.go:66`), whose readers may see any value; and jobs that a
restart forgets (`jobs.go:50`).

### Bounds

Every bound is a constant that guards the action it limits.

* `MaxRows` 3 in `OutboxCore`: a pass of two rows that walks on after a failure, a row beyond
  its LIMIT, and a queue of depth one overfilled by two handlers. Two rows are enough for one
  to block another (`OutboxLive`, the `Delivery` runs).
* `Outbox!Instances` has one member: rows of different instances meet only in the LIMIT of a
  pass. The key changes in `OutboxLive`, where rows that cannot be read must still be closed. The
  theorems hold for any number of instances and keys.
* `MaxFaults` 1: crash, lost UPDATE and lost notice each happen at every point; the properties
  count faults, so that they do not depend on there being one. The theorems hold for any number.
* `MaxAttempts` 2: the first refusal leaves the row pending, the second closes it.
  `MaxAttempts` 1 in `DeliveryGuarded` keeps three messages affordable.
* `DrainLimit` 2, `ExpireLimit` 1: a pass longer than a row and a sweep that leaves some behind.
* `MaxPosts` 2 or 3: the retry by the downstream, and a third text. `MaxToggles` 1: the flag of
  the spamguard is on, and is switched off at any moment; `OneText` holds for a flag switched any
  number of times. `DeliveryRetries` leaves it alone.
* `Grace` 2, `LongGrace` 3, `Stabilize` 1: only their order matters; a later drop can
  begin anywhere within an earlier timer.
* `MaxEvents` 5 in `Lifecycle`: connected, drop, recovery, drop, recovery.
* `MaxConns` 3, `MaxPairings` 2, `MaxEvents` 4 in `Instances`: QR, scan, connect and drop of
  one device, or the beginning of two sessions, with two replacements of the Conn.
* `MaxEvents` 3, `Senders` 2, `Cap` 2 in `Incoming`: a burst, its interruption and its
  continuation; one id more than the cap holds. One of the participants is nameless. One old message and one sync are a second
  worker that meets the first at every call; two conversations are the first and the one that
  follows a resolution or a race.
* `MaxTime` 3 in `Anchors`: a message older and one newer than the one of the row. Two restarts: the
  anchor of one life is met by the warm-up of the next, and by a third.
* `Chats` 2, `PageCap` 2, one request in `OnDemand`: the job meets the request on one chat and
  is alone on the other; the cap is reached after one page or two.
* `Retries` 1 in `Emission` stands for the three of the code: a first attempt, a last one, and a
  sleep between them. `DeliveryMinSamples` 1 with two sends: the second raises
  the alert of the first a second time, once that one has left its window. Two failures: an attempt and its retry.
* `Tags` 2, `Readers` 2, `Admins` 2, `MaxChanges` 3 in `Tenants`: a former and a new owner,
  two changes of one tenant that meet, and a third after them.

Two runs compare states by a `VIEW`. `WithoutHistory` (`DeliveryGuarded`) leaves out the history
variables that no action reads in a guard and that the run's property does not mention.
`WhatMatters` (`IncomingCore`) leaves out what neither a later action nor a property can still ask:
the trackers once there are no more live events, the causes of a loss once a call has failed or a
race has excused every loss, and the authors of messages once a call has failed. Two states with
the same view have the same views after every action and satisfy the same properties.

`CHECK_DEADLOCK FALSE` stands where the bounds let the model stop: an instance with nothing
to do, and a process that has exited, are no errors.

### Fairness

`Outbox!FairSpec` has weak fairness of the drain loop and of the expire loop (both
are tickers that call `DrainOnce` and `ExpireOnce` for the life of the process) and of the
passing of the TTL. Nothing forces a client to post, an instance to connect, a key to change or
the process to die. `Lifecycle!FairSpec` has weak fairness of time, of the end of the bootstrap
window, of handing over an event and of the goroutines as a whole: each is runnable until it ends
and there are finitely many. `OnDemand!FairSpec` has weak fairness of the job and of each caller,
whose wait is a `select` with a timeout; nobody has to ask and the phone need not
answer. The other modules state safety only: a post of theirs may wait for its receiver, or a
process exit, for as long as it likes.

## 4. Proofs

The theorems hold for every value of the constants that satisfies the assumption of the module
(`OutboxAssumption`, `DeliveryAssumption`, `LifecycleAssumption`, `InstancesAssumption`,
`IncomingAssumption`, `AnchorsAssumption`, `OnDemandAssumption`, `EmissionAssumption`, `TenantsAssumption`): limits in
`Nat`, those of the configuration positive, handlers and messages finite where they are counted,
sentinels distinct from values, `Stabilize < Grace < LongGrace`. The bounds on rows, faults, posts,
events and changes are arbitrary. In every module `<Module>Safe` is the inductive invariant and
`TypeCorrect` its type part; the others follow from it.

| Module | Theorem | Statement |
|---|---|---|
| `OutgoingProofs` | `OutboxSafe`, `TypeCorrect` | `Spec => []OutboxInv`, types |
| | `StatusEarned`, `ErrorsCounted`, `ConfirmedOnce` | invariants of `OutboxCore` |
| | `OvershootIsBounded`, `DepthIsBounded` | the depth is passed by at most the number of handlers less one |
| | `AnnouncedOnce`, `StaysClosed` | an expiry is told once, a closed row stays closed |
| | `ExpiriesTold` | no more expiries are silent than there were faults |
| | `OutboxKeepsPromise` | `Spec => Promise!Spec`: the safety part of the refinement |
| | `DeliverySafe`, `CallsSafe`, `DeliveryTypes` | the inductive invariants, types |
| | `DeliveryKeepsOutbox`, `DeliveryKeepsPromise` | `DSpec => Spec` of `Outbox`, hence of its promise: its theorems hold with its real callers |
| | `OneCopy`, `ClaimsAccountedFor`, `OneText` | the properties of both `Delivery` runs |
| `IncomingProofs` | `IncomingSafe`, `TypeCorrect` | the inductive invariant, types and the cap of the waiting ids |
| | `NothingLost`, `BareFollows`, `MarkedWasRead`, `TextsWait`, `ImportCounts`, `SecondHasCause` | the properties of `IncomingCore` |
| `LifecycleProofs` | `LifecycleSafe`, `TypeCorrect` | `Spec => []LifecycleInv`, types |
| | `RecoveryAnswers`, `ConnectedOnce`, `OutageNoticed` | the safety properties of `LifecycleCore` |
| `InstancesProofs` | `InstancesSafe`, `TypeCorrect`, `WaitersWait` | types, the list of waiters |
| | `OneSession`, `RowRemembers`, `ServedOrMissed`, `DeletedStaysDeleted` | the properties of `InstancesCore` |
| `AnchorsProofs` | `AnchorsSafe`, `TypeCorrect` | the inductive invariant, types |
| | `MemoryFresh`, `RowKept`, `FoundThere`, `RowNeverBack` | the properties of `AnchorsCore` |
| `OnDemandProofs` | `OnDemandSafe`, `TypeCorrect`, `LatchOwned` | the inductive invariant, types, no latch without owner |
| | `AloneReachable`, `AnswersKept`, `JobIsHonest` | the safety properties of `OnDemandCore` |
| `EmissionProofs` | `EmissionSafe`, `TypeCorrect` | the inductive invariant, types with those of the bucket |
| | `NothingUncounted`, `LastFlush`, `OncePerRise`, `CriticalDelivered`, `RestartAnnounced` | the properties of `EmissionCore` |
| `TenantsProofs` | `TenantsSafe`, `TypeCorrect` | the inductive invariant, types |
| | `StaleIfCrossed`, `CurrentServes`, `GlobalIfBare` | the properties of `TenantsCore` |

**The outbox.** *One confirmation per fault* is not inductive: a row may be
handed to the sender while it is pending, while it is in the batch of a pass whose SELECT saw it
pending (the expirer may have closed it since), or while the call is out. `ConfirmInv` says that in
all three situations the free confirmation has not been used (`oks <= faults`); the only row
that has used it without being closed is the one between a confirmed send and its UPDATE, and
losing that UPDATE is a fault, which pays for the next copy. `PassInv` says that the attempts a
pass copied are still the ones in the table (only the drainer writes them), hence that
`attempts` is never overwritten with an older number. `SweepInv` says that the rows a sweep
holds are overdue and have not been announced. `TableInv` ties ids to the sequence.
`ExpiriesTold` is the other half of *an expiry is told once*: the rows that are closed as expired,
not announced and not in the hands of the sweep are no more than the faults. It is inductive by
counting: only a restart adds such a row, the one the sweep had marked, and it is a fault.

**The depth.** `Cardinality(pending) <= depth + handlers - 1` is not inductive either.
`DepthAndRacers` counts the rows together with the handlers that have counted and not
inserted: `EnqueueCount` adds a handler only below the cap, and `EnqueueInsert` moves one
unit from the handlers to the rows.

**The refinement** follows from the invariant: `oks <= faults` before a confirmation is
the guard of `HandOver`, `SweepInv` the guard of `Tell`.

**Delivery.** `StepOutbox` shows that each step of the composition is a step of `Outbox` or
leaves it alone, so `OutboxInv` carries over by the lemma that proves it inductive. On top of
it, `CopyInv` says of a message that is not excused: one sender and no copy, or one copy and no
sender, and whoever is past the mark has left a fresh row that keeps the others out.
The step that matters is `DedupSelect`: a worker that finds no fresh row and overlaps with
nobody can neither meet another sender nor a copy, because both would have left the row.
`ClaimInv` follows a claim from the row of `bridge_dedup` to the reply and to the confirmation
the drainer gets: each of them can account for the message. `FlowInv` ties the place
of a handler to that of the outbox (`counted`, `phase`). For the spamguard, `PastInv` says that the
text of a message that has passed the guard is in the history, and that no second message with that
text has passed - among the messages that are not in `unguarded`, for a message enters that set before
its copy is on the wire; `HistoryInv`, that the two entries of a history differ, is why two texts
per contact are as far as this goes: a third pushes the first out.

**Incoming.** None of the properties is inductive. A message is lost or not long before it is posted,
so `CarryInv` follows it: what a worker has in hand is what was handed over, the live worker carries
the newest event, and what it has yet to post stands nowhere. `RaceInv` is why a call that is sure of
its answer gets it: until two creations have met, a worker about to create finds nothing there and is
the only one about to; it is also all that `SecondHasCause` needs. `CauseInv` says that a refusal
needs a conversation the agent resolved, as long as no race has been on, and that who gave a message up
is recorded for good: a creation is only tried where no conversation is open, so one that exists
was resolved or came of a race. `TwinInv` says that what
`bridge_dedup` remembers of the owner was delivered or is in hand, without which a dropped twin
could be a loss. For the header, `BurstInv` says that the sender the tracker remembers is the one whose
message came live last, or the one whose message is in hand: the tracker is written before the POST,
so for a while it is ahead of the conversation. A message of the import or of the agent comes between
without ending the burst, which is why the property looks for the last message that came live.
For the marks, `SeenInv` compares three times - of the POST, of the look, of the event that reports
the look - and says that what waits and is older than a look was in the
downstream then, and on the screen while the chat has one conversation; `WaitingInv`
that a text waits once, so that the cap, which counts entries, pushes out no text before there are
more texts than it holds.

**Lifecycle.** `RecoveryAnswersAlarm` (`owed >= 0`) counts two kinds of posts, and a
goroutine that will post `reconnected` is started long before it does. `OwedInv` adds up what
is outstanding: a flag `disconnectNotified` or a goroutine that recovers is each backed by one
`unreachable` not yet answered. The proof counts goroutines with the library's facts on
cardinalities; that no goroutine has a number ahead of the counter (`NumberedInv`) makes a new one
distinct from all others. `SettledInv` says that a Connected handled in this session has left
`connectedEmitted` behind, also when it was passed over in silence. `OutageIsNoticed` is the safety
core of `OutageIsAnnounced`, and what its fairness acts on: while the session is out of
reach, the orchestrator has been told, or a goroutine is about to tell it and will find its flag,
or the report of the end is still in the queue. With the types it is inductive. The step that
matters is the claim: the timers of several drops share one flag, and the one that takes it, perhaps
an earlier one, is the one that tells; the others find it gone and may leave. A timer that leaves
because it finds the connection up does not touch the flag, and a blip that takes it has handled a
Connected, so the next outage is one whose report is still to come and starts a timer of its own.

**Instances.** One session and the list of waiters are inductive together with the types: every call
of the API closes the Conn of the map before it starts another. `ServedInv` strengthens
`ServedUnlessMissed`: once the Conn is ready and its last Connected handled, a caller that was not
overtaken is neither about to register nor waiting, and a look at the row that is still under
way saw this Conn. `RememberInv` strengthens `SessionRemembered`: the Conn of the map has produced
no event before it is paired, and from then on the row knows its device or a `paired` event
that carries it is in its queue.

**Anchors.** `PlacesInv` says in which phase there can be writes and look-ups. `FreshInv` is what
makes memory as new as the row: while no message has lapped a reading, a look-up excludes writes on
their way, and what it read is what the row is. `KeptInv` is the converse: the row has the
anchor of memory, or a write has. `FloorInv` carries what the row was when a look-up began.

**On demand.** The properties speak of callers that nobody crossed; `LatchInv` says that callers of
one chat know of each other, so that who is not `shared` is alone. `GivenInv` follows an
answer through the channel to the caller and keeps its count of imports at zero until then.
`AskedInv` (nobody asks twice) and `JobInv` (one uncounted contact at a time) make the job's
own answer its own.

**Emission.** `CountInv` is conservation together with what the last flush leaves. `EventsInv` ties
the attempts of a goroutine to its place - one that sleeps has an attempt left, one that
gave up has none, and both have as many failed calls behind them as attempts - and the copies
received to the answers; it also says who may be silent: an event without an address, or one whose read
has failed. `AlertInv` counts the members of a
sequence of events; a new batch of alerts is a set turned into a sequence, and `SeqOfSet`
says that each alert is in it once. `BucketInv` says that the sends in the bucket have the numbers given
out so far, which is what lets the bucket be a set. `AnnounceInv` leads the announcement from `stopping` to `exited`.

**Tenants.** `CopiesInv` says where a configuration that is not the table's may be, for a tenant that
was never crossed: in the cache, the client or a reader, and only until the one change
under way has passed. `KnownInv` compares each copy with what a reader knew when it began,
`BareInv` keeps every tag in use that of a tenant that is there.

### Only model-checked

* Liveness: `EventuallySettled`, `ExpiryIsAnnounced`, `OutageIsAnnounced`, `EverythingReturns`, and
  the fairness part of the refinement (`KeepsFairPromise`). The prover has no rules for
  fairness here.

## 5. Not modelled

* Payloads, texts and their normalisation: a message is a value with a text that is equal to
  another or is not. Hash collisions of the spamguard are left out.
* Several contacts per instance in `Delivery`, several chats in `Incoming` and `Anchors`, several
  instances in `Lifecycle`, `Instances`, `Emission` and `Tenants`: their state is kept
  per contact, chat and name, and no operation relates two of them (the outbox and the
  latches do, and have several).
* The length of the windows (idempotency, spamguard, TTLs): age is a state a row
  may pass into at any time.
* Several attachments in one message; `mark as read` on the way out, replies and the block
  counter of `HandleFor`.
* Of the incoming side: the history of posted messages with its retroactive edits of names, quotes
  and mentions, avatars, typing, receipts, names of groups; formatting of headers. Whether a
  header is there is modelled, what it says is not.
* Of the downstream client: templates, blobs, rate-limit headers.
* `Shutdown`, bulk calls, the settings of an instance, `last_qr_msg_id`; the data race on
  `Manager.instances` between `Bootstrap` and whatsmeow's callbacks.
* Pages of contacts that shift while the job lists them, so that a contact is met twice: the job
  would ask for it twice and count it twice.
* A change of an instance's webhook address while the process runs: `Emission` fixes it at the start.
* HTTP routing, authentication, API keys, audit, metrics, configuration, logging: records and
  texts without control of their own.

## 6. Plan

1. A module for the history of posted messages and its retroactive edits: a sender whose name
   changes while one edit of it is running, against the cap and the age of what is kept.
2. `Lifecycle` composed with `Emission`: a decided event is emitted by a goroutine with its back-off,
   so that an outage is announced or lost with an exit, and the order of two of them at the
   receiver becomes visible.
3. Several chats and contacts in `Incoming`, where a contact found under a second identifier
   (`lid`) joins two chats.
