------------------------------- MODULE Anchors -------------------------------
(***************************************************************************)
(* The anchor of one chat (internal/bridge/chat_anchor.go): the newest     *)
(* incoming message of the chat, which a request for older history needs.  *)
(* Its keys do not touch each other, so one chat is enough.                *)
(*                                                                         *)
(* It is kept in memory and written behind, one goroutine per write, to    *)
(* the table bridge_chat_anchor.  Bootstrap connects the instances before  *)
(* main.go sets the pool and warms the memory up, so messages are recorded *)
(* in every phase of the boot; requests come once the server is up.        *)
(*                                                                         *)
(* A message is its timestamp; 0 stands for no anchor.                     *)
(***************************************************************************)
EXTENDS Integers, FiniteSets

CONSTANTS
  MaxTime,     \* bound: timestamps of messages
  Finders,     \* requests for history, one look-up each
  MaxFailures, \* bound: failed queries and writes
  MaxCleanups, \* bound: clean-ups that delete the row
  MaxRestarts  \* bound: restarts of the process

ASSUME AnchorsAssumption == {MaxTime, MaxFailures, MaxCleanups, MaxRestarts} \subseteq Nat

Times == 1 .. MaxTime
Anchor == 0 .. MaxTime

VARIABLES
  phase,    \* of the boot: nopool, pooled, loading (rows read), up
  memory,   \* data[instance|chat]
  table,    \* ts of the row
  writes,   \* writes behind on their way
  rows,     \* what the query of the warm-up read
  at,       \* at[f]: idle, select (missed the memory), fill (has the row), done
  got,      \* got[f]: the anchor that was found
  failures, cleanups, restarts,
  early,    \* history: a message was recorded without a pool
  lapped,   \* history: memory and row were not compared when a message came
  floor     \* history: floor[f]: the row when the look-up began

vars == <<phase, memory, table, writes, rows, at, got, failures, cleanups, restarts,
          early, lapped, floor>>
bounds == <<failures, cleanups, restarts>>

Init ==
  /\ phase = "nopool"
  /\ memory = 0 /\ table = 0 /\ writes = {} /\ rows = 0
  /\ at = [f \in Finders |-> "idle"]
  /\ got = [f \in Finders |-> 0] /\ floor = [f \in Finders |-> 0]
  /\ failures = 0 /\ cleanups = 0 /\ restarts = 0
  /\ early = FALSE /\ lapped = FALSE

\* ok && !ts.After(cur.Timestamp) is an early return of Record.
NewerByArrival(ts, than) == TRUE
Newer(ts, than) == ts > than

Pooled == phase # "nopool"

\* The row is not in the memory of a server that is up, or on its way to it.
Apart ==
  \/ phase = "up" /\ memory = 0 /\ table # 0
  \/ phase = "loading"
  \/ \E f \in Finders : at[f] \in {"select", "fill"}

Fails == failures < MaxFailures /\ failures' = failures + 1

-----------------------------------------------------------------------------
(* Messages *)

\* Record: an older message than the anchor changes nothing.
Record(ts) ==
  /\ Newer(ts, memory)
  /\ memory' = ts
  /\ writes' = IF Pooled THEN writes \cup {ts} ELSE writes
  /\ early' = (early \/ ~Pooled)
  /\ lapped' = (lapped \/ Apart)
  /\ UNCHANGED <<phase, table, rows, at, got, bounds, floor>>

\* The row takes only a newer timestamp (ON CONFLICT ... WHERE ts < EXCLUDED.ts).
UpsertedAlways(ts) == ts
UpsertedFirst(ts) == IF table = 0 THEN ts ELSE table
Upserted(ts) == IF table < ts THEN ts ELSE table

Persist(ts) ==
  /\ writes' = writes \ {ts}
  /\ table' = Upserted(ts)
  /\ UNCHANGED <<phase, memory, rows, at, got, bounds, early, lapped, floor>>

\* Five seconds pass or the statement fails: it is not tried again.
PersistFails(ts) ==
  /\ Fails
  /\ writes' = writes \ {ts}
  /\ UNCHANGED <<phase, memory, table, rows, at, got, cleanups, restarts, early, lapped, floor>>

-----------------------------------------------------------------------------
(* Boot *)

SetPool ==
  /\ phase = "nopool"
  /\ phase' = "pooled"
  /\ UNCHANGED <<memory, table, writes, rows, at, got, bounds, early, lapped, floor>>

\* Warmup reads the rows of the last thirty days; an older one stays out.
\* When the query fails the server starts without.
WarmupQuery ==
  /\ phase = "pooled"
  /\ \/ phase' = "loading" /\ rows' \in {0, table} /\ UNCHANGED failures
     \/ phase' = "up" /\ Fails /\ UNCHANGED rows
  /\ lapped' = (lapped \/ writes # {} \/ (memory # 0 /\ rows' = 0))
  /\ UNCHANGED <<memory, table, writes, at, got, cleanups, restarts, early, floor>>

\* The rows replace what was recorded meanwhile.
WarmupLoad ==
  /\ phase = "loading"
  /\ phase' = "up"
  /\ memory' = IF rows # 0 THEN rows ELSE memory
  /\ UNCHANGED <<table, writes, rows, at, got, bounds, early, lapped, floor>>

\* Every twelve hours: a row not updated for thirty days goes.
CleanupOld ==
  /\ phase = "up" /\ table # 0 /\ cleanups < MaxCleanups
  /\ table' = 0 /\ cleanups' = cleanups + 1
  /\ UNCHANGED <<phase, memory, writes, rows, at, got, failures, restarts, early, lapped, floor>>

Restart ==
  /\ restarts < MaxRestarts /\ restarts' = restarts + 1
  /\ phase' = "nopool"
  /\ memory' = 0 /\ writes' = {} /\ rows' = 0
  /\ at' = [f \in Finders |-> "idle"]
  /\ got' = [f \in Finders |-> 0] /\ floor' = [f \in Finders |-> 0]
  /\ early' = FALSE /\ lapped' = FALSE
  /\ UNCHANGED <<table, failures, cleanups>>

-----------------------------------------------------------------------------
(* Find *)

MissesNever == FALSE
Misses == memory = 0

Find(f) ==
  /\ phase = "up" /\ at[f] = "idle"
  /\ at' = [at EXCEPT ![f] = IF Misses THEN "select" ELSE "done"]
  /\ got' = [got EXCEPT ![f] = memory]
  /\ floor' = [floor EXCEPT ![f] = table]
  /\ UNCHANGED <<phase, memory, table, writes, rows, bounds, early, lapped>>

Select(f) ==
  /\ at[f] = "select"
  /\ \/ /\ table # 0
        /\ at' = [at EXCEPT ![f] = "fill"] /\ got' = [got EXCEPT ![f] = table]
        /\ UNCHANGED failures
     \/ /\ \/ table = 0 /\ UNCHANGED failures
           \/ Fails
        /\ at' = [at EXCEPT ![f] = "done"] /\ UNCHANGED got
  /\ UNCHANGED <<phase, memory, table, writes, rows, cleanups, restarts, early, lapped, floor>>

Fill(f) ==
  /\ at[f] = "fill"
  /\ at' = [at EXCEPT ![f] = "done"]
  /\ memory' = got[f]
  /\ UNCHANGED <<phase, table, writes, rows, got, bounds, early, lapped, floor>>

-----------------------------------------------------------------------------
Boot == SetPool \/ WarmupQuery \/ WarmupLoad

Next ==
  \/ \E ts \in Times : Record(ts)
  \/ \E ts \in writes : Persist(ts) \/ PersistFails(ts)
  \/ Boot \/ CleanupOld \/ Restart
  \/ \E f \in Finders : Find(f) \/ Select(f) \/ Fill(f)

Spec == Init /\ [][Next]_vars

-----------------------------------------------------------------------------
(* Properties *)

\* Every variable keeps its type; nothing is written without a pool.
AnchorsTypeOK ==
  /\ phase \in {"nopool", "pooled", "loading", "up"}
  /\ memory \in Anchor /\ table \in Anchor /\ rows \in Anchor
  /\ writes \subseteq Times /\ (writes # {} => phase # "nopool")
  /\ at \in [Finders -> {"idle", "select", "fill", "done"}]
  /\ got \in [Finders -> Anchor] /\ floor \in [Finders -> Anchor]
  /\ failures \in 0 .. MaxFailures /\ cleanups \in 0 .. MaxCleanups /\ restarts \in 0 .. MaxRestarts
  /\ early \in BOOLEAN /\ lapped \in BOOLEAN

\* The row never moves back: out of order as the writes behind arrive, it
\* keeps the newest, and only the clean-up takes it away (Record, CleanupOld).
RowOnlyGrows == [][table' < table => table' = 0 /\ cleanups' > cleanups]_vars

\* Once the server is up, the memory is no older than the row, unless a message
\* was recorded while the warm-up or a look-up was reading the row, or while
\* the row had not been read (Find, Warmup): nothing else makes the anchor
\* move back.
MemoryAsNewAsRow == phase = "up" /\ ~lapped /\ memory # 0 => memory >= table

\* A restart does not lose the anchor: with no write on its way and none
\* failed, the row is as new as the memory, unless the message was recorded
\* before the pool was set or the row was cleaned up (Record).
RowKeepsUp == writes = {} /\ failures = 0 /\ cleanups = 0 /\ ~early => table >= memory

\* A request is told that the chat has no anchor only if the table had none
\* when it asked, or it was cleaned up or could not be read meanwhile; and
\* what it is given is no older than the row was (Find).
FoundIfThere ==
  \A f \in Finders : at[f] = "done" =>
    got[f] >= floor[f] \/ lapped \/ failures > 0 \/ cleanups > 0

=============================================================================
