---------------------------- MODULE AnchorsProofs -----------------------------
(***************************************************************************)
(* Theorems about Anchors, for any number of requests, messages, failures, *)
(* clean-ups and restarts.  A proof follows the anchor through the three   *)
(* places it may be in at once: the memory, the row, and the writes behind *)
(* and look-ups between them.                                              *)
(***************************************************************************)
EXTENDS Anchors, TLAPS

-----------------------------------------------------------------------------
(* The inductive invariant *)

\* Nobody looks up before the server is up, a look-up only fills in an anchor
\* it has found, and what is being written behind has been in memory.
PlacesInv ==
  /\ phase \in {"nopool", "pooled"} => rows = 0
  /\ \A f \in Finders : at[f] \in {"select", "fill"} => phase = "up"
  /\ \A f \in Finders : at[f] = "fill" => got[f] # 0
  /\ memory = 0 => writes = {}

\* As long as no message has come between a reading of the row and its use,
\* memory and readings are as new as the row and all that is written behind.
FreshInv ==
  /\ phase \in {"nopool", "pooled"} => \A ts \in writes : ts <= memory
  /\ phase = "loading" /\ ~lapped => writes = {} /\ (rows = table \/ (rows = 0 /\ memory = 0))
  /\ phase = "up" /\ ~lapped => \A ts \in writes : ts <= memory
  /\ phase = "up" /\ ~lapped /\ memory # 0 => memory >= table
  /\ \A f \in Finders : ~lapped /\ at[f] \in {"select", "fill"} => writes = {}
  /\ \A f \in Finders : ~lapped /\ at[f] = "fill" => got[f] >= table

\* Without failure and clean-up, the row has seen everything it was asked to
\* keep or has it on its way, and no reading is newer.
KeptInv ==
  cleanups = 0 =>
    /\ rows <= table
    /\ \A f \in Finders : at[f] = "fill" => got[f] <= table
    /\ failures = 0 /\ ~early => memory <= table \/ memory \in writes

\* A look-up that has gone to the table finds what it was when it began.
FloorInv ==
  /\ cleanups = 0 => \A f \in Finders : at[f] = "select" => floor[f] <= table
  /\ cleanups = 0 => \A f \in Finders : at[f] = "fill" => floor[f] <= got[f]

AnchorsInv == AnchorsTypeOK /\ PlacesInv /\ FreshInv /\ KeptInv /\ FloorInv /\ FoundIfThere

-----------------------------------------------------------------------------
(* Steps *)

\* A message moves the memory on and may be written behind.
LEMMA RecordInv ==
  ASSUME AnchorsInv, NEW ts \in Times, Record(ts)
  PROVE  AnchorsInv'
<1>0. AnchorsTypeOK /\ PlacesInv /\ FreshInv /\ KeptInv /\ FloorInv /\ FoundIfThere
  BY DEF AnchorsInv
<1>1. AnchorsTypeOK'
  BY <1>0, AnchorsAssumption DEF AnchorsTypeOK, Anchor, Times, Record, Newer, Pooled, Apart, bounds
<1>2. PlacesInv'
  BY <1>0, AnchorsAssumption DEF AnchorsTypeOK, Anchor, Times, PlacesInv, Record, Newer, Pooled, Apart, bounds
<1>3. FreshInv'
  <2>1. /\ ts > memory /\ memory' = ts /\ lapped' = (lapped \/ Apart)
        /\ writes' = writes \/ writes' = writes \cup {ts}
        /\ UNCHANGED <<phase, table, rows, at, got>>
    BY <1>0, Zenon DEF Record, Newer
  <2>2. \A x \in writes : x \in Nat
    BY <1>0 DEF AnchorsTypeOK, Times
  <2>3. memory \in Nat /\ table \in Nat /\ ts \in Nat
    BY <1>0 DEF AnchorsTypeOK, Anchor, Times
  <2>4. (\A x \in writes : x <= memory) => \A x \in writes' : x <= memory'
    BY <2>1, <2>2, <2>3
  <2>5. /\ phase' \in {"nopool", "pooled"} => \A x \in writes' : x <= memory'
        /\ phase' = "up" /\ ~lapped' => \A x \in writes' : x <= memory'
    BY <1>0, <2>1, <2>4 DEF FreshInv
  <2>6. phase' = "up" /\ ~lapped' => memory' >= table'
    <3> SUFFICES ASSUME phase = "up", ~lapped, ~Apart PROVE ts >= table
      BY <2>1
    <3>1. memory # 0 \/ table = 0
      BY DEF Apart
    <3>2. memory # 0 => memory >= table
      BY <1>0, Zenon DEF FreshInv
    <3> QED BY <2>1, <2>3, <3>1, <3>2
  <2>7. ~lapped' => phase' # "loading" /\ \A f \in Finders : at'[f] \notin {"select", "fill"}
    BY <2>1 DEF Apart
  <2> QED BY <2>5, <2>6, <2>7, Zenon DEF FreshInv
<1>4. KeptInv'
  BY <1>0, AnchorsAssumption DEF AnchorsTypeOK, Anchor, Times, PlacesInv, KeptInv, Record, Newer, Pooled, Apart, bounds
<1>5. FloorInv'
  BY <1>0, AnchorsAssumption DEF AnchorsTypeOK, Anchor, Times, PlacesInv, KeptInv, FloorInv, Record, Newer, Pooled, Apart, bounds
<1>6. FoundIfThere'
  BY <1>0, AnchorsAssumption DEF AnchorsTypeOK, Anchor, Times, PlacesInv, FreshInv, FloorInv, FoundIfThere, Record, Newer, Pooled, Apart, bounds
<1> QED BY <1>1, <1>2, <1>3, <1>4, <1>5, <1>6 DEF AnchorsInv

\* A restart leaves only the row.
LEMMA RestartInv ==
  ASSUME AnchorsInv, Restart
  PROVE  AnchorsInv'
<1>0. AnchorsTypeOK /\ PlacesInv /\ FreshInv /\ KeptInv /\ FloorInv /\ FoundIfThere
  BY DEF AnchorsInv
<1>1. AnchorsTypeOK'
  <2>1. at' \in [Finders -> {"idle", "select", "fill", "done"}]
    BY DEF Restart
  <2>2. got' \in [Finders -> Anchor] /\ floor' \in [Finders -> Anchor]
    BY AnchorsAssumption DEF Restart, Anchor
  <2>3. /\ phase' = "nopool" /\ memory' = 0 /\ writes' = {} /\ rows' = 0
        /\ restarts' \in 0 .. MaxRestarts /\ early' \in BOOLEAN /\ lapped' \in BOOLEAN
        /\ table' = table /\ failures' = failures /\ cleanups' = cleanups
    <3>1. restarts' \in 0 .. MaxRestarts
      BY <1>0, AnchorsAssumption DEF AnchorsTypeOK, Restart
    <3> QED BY <3>1 DEF Restart
  <2>4. 0 \in Anchor /\ {} \subseteq Times
    BY AnchorsAssumption DEF Anchor
  <2> QED BY <1>0, <2>1, <2>2, <2>3, <2>4 DEF AnchorsTypeOK
<1>2. PlacesInv'
  BY <1>0, AnchorsAssumption DEF AnchorsTypeOK, Anchor, Times, PlacesInv, Restart, bounds
<1>3. FreshInv'
  BY <1>0, AnchorsAssumption DEF AnchorsTypeOK, Anchor, Times, PlacesInv, FreshInv, Restart, bounds
<1>4. KeptInv'
  BY <1>0, AnchorsAssumption DEF AnchorsTypeOK, Anchor, Times, PlacesInv, KeptInv, Restart, bounds
<1>5. FloorInv'
  BY <1>0, AnchorsAssumption DEF AnchorsTypeOK, Anchor, Times, PlacesInv, KeptInv, FloorInv, Restart, bounds
<1>6. FoundIfThere'
  BY <1>0, AnchorsAssumption DEF AnchorsTypeOK, Anchor, Times, PlacesInv, FreshInv, FloorInv, FoundIfThere, Restart, bounds
<1> QED BY <1>1, <1>2, <1>3, <1>4, <1>5, <1>6 DEF AnchorsInv

USE AnchorsAssumption DEF AnchorsTypeOK, Anchor, Times, bounds

\* A write behind reaches the row.
LEMMA PersistInv ==
  ASSUME AnchorsInv, NEW ts \in writes, Persist(ts)
  PROVE  AnchorsInv'
<1>0. AnchorsTypeOK /\ PlacesInv /\ FreshInv /\ KeptInv /\ FloorInv /\ FoundIfThere
  BY DEF AnchorsInv
<1>1. AnchorsTypeOK'
  BY <1>0 DEF Persist, Upserted
<1>2. PlacesInv'
  BY <1>0 DEF PlacesInv, Persist, Upserted
<1>3. FreshInv'
  BY <1>0 DEF PlacesInv, FreshInv, Persist, Upserted
<1>4. KeptInv'
  BY <1>0 DEF PlacesInv, KeptInv, Persist, Upserted
<1>5. FloorInv'
  BY <1>0 DEF PlacesInv, KeptInv, FloorInv, Persist, Upserted
<1>6. FoundIfThere'
  BY <1>0 DEF PlacesInv, FreshInv, FloorInv, FoundIfThere, Persist, Upserted
<1> QED BY <1>1, <1>2, <1>3, <1>4, <1>5, <1>6 DEF AnchorsInv

\* A write behind is lost.
LEMMA PersistFailsInv ==
  ASSUME AnchorsInv, NEW ts \in writes, PersistFails(ts)
  PROVE  AnchorsInv'
<1>0. AnchorsTypeOK /\ PlacesInv /\ FreshInv /\ KeptInv /\ FloorInv /\ FoundIfThere
  BY DEF AnchorsInv
<1>1. AnchorsTypeOK'
  BY <1>0 DEF PersistFails, Fails
<1>2. PlacesInv'
  BY <1>0 DEF PlacesInv, PersistFails, Fails
<1>3. FreshInv'
  BY <1>0 DEF PlacesInv, FreshInv, PersistFails, Fails
<1>4. KeptInv'
  BY <1>0 DEF PlacesInv, KeptInv, PersistFails, Fails
<1>5. FloorInv'
  BY <1>0 DEF PlacesInv, KeptInv, FloorInv, PersistFails, Fails
<1>6. FoundIfThere'
  BY <1>0 DEF PlacesInv, FreshInv, FloorInv, FoundIfThere, PersistFails, Fails
<1> QED BY <1>1, <1>2, <1>3, <1>4, <1>5, <1>6 DEF AnchorsInv

\* The pool comes up.
LEMMA SetPoolInv ==
  ASSUME AnchorsInv, SetPool
  PROVE  AnchorsInv'
<1>0. AnchorsTypeOK /\ PlacesInv /\ FreshInv /\ KeptInv /\ FloorInv /\ FoundIfThere
  BY DEF AnchorsInv
<1>1. AnchorsTypeOK'
  BY <1>0 DEF SetPool
<1>2. PlacesInv'
  BY <1>0 DEF PlacesInv, SetPool
<1>3. FreshInv'
  BY <1>0 DEF PlacesInv, FreshInv, SetPool
<1>4. KeptInv'
  BY <1>0 DEF PlacesInv, KeptInv, SetPool
<1>5. FloorInv'
  BY <1>0 DEF PlacesInv, KeptInv, FloorInv, SetPool
<1>6. FoundIfThere'
  BY <1>0 DEF PlacesInv, FreshInv, FloorInv, FoundIfThere, SetPool
<1> QED BY <1>1, <1>2, <1>3, <1>4, <1>5, <1>6 DEF AnchorsInv

\* The warm-up reads the rows.
LEMMA WarmupQueryInv ==
  ASSUME AnchorsInv, WarmupQuery
  PROVE  AnchorsInv'
<1>0. AnchorsTypeOK /\ PlacesInv /\ FreshInv /\ KeptInv /\ FloorInv /\ FoundIfThere
  BY DEF AnchorsInv
<1>1. AnchorsTypeOK'
  BY <1>0 DEF WarmupQuery, Fails
<1>2. PlacesInv'
  BY <1>0 DEF PlacesInv, WarmupQuery, Fails
<1>3. FreshInv'
  BY <1>0 DEF PlacesInv, FreshInv, WarmupQuery, Fails
<1>4. KeptInv'
  BY <1>0 DEF PlacesInv, KeptInv, WarmupQuery, Fails
<1>5. FloorInv'
  BY <1>0 DEF PlacesInv, KeptInv, FloorInv, WarmupQuery, Fails
<1>6. FoundIfThere'
  BY <1>0 DEF PlacesInv, FreshInv, FloorInv, FoundIfThere, WarmupQuery, Fails
<1> QED BY <1>1, <1>2, <1>3, <1>4, <1>5, <1>6 DEF AnchorsInv

\* The warm-up fills the memory.
LEMMA WarmupLoadInv ==
  ASSUME AnchorsInv, WarmupLoad
  PROVE  AnchorsInv'
<1>0. AnchorsTypeOK /\ PlacesInv /\ FreshInv /\ KeptInv /\ FloorInv /\ FoundIfThere
  BY DEF AnchorsInv
<1>1. AnchorsTypeOK'
  BY <1>0 DEF WarmupLoad
<1>2. PlacesInv'
  BY <1>0 DEF PlacesInv, WarmupLoad
<1>3. FreshInv'
  BY <1>0 DEF PlacesInv, FreshInv, WarmupLoad
<1>4. KeptInv'
  BY <1>0 DEF PlacesInv, KeptInv, WarmupLoad
<1>5. FloorInv'
  BY <1>0 DEF PlacesInv, KeptInv, FloorInv, WarmupLoad
<1>6. FoundIfThere'
  BY <1>0 DEF PlacesInv, FreshInv, FloorInv, FoundIfThere, WarmupLoad
<1> QED BY <1>1, <1>2, <1>3, <1>4, <1>5, <1>6 DEF AnchorsInv

\* The clean-up takes the row away.
LEMMA CleanupOldInv ==
  ASSUME AnchorsInv, CleanupOld
  PROVE  AnchorsInv'
<1>0. AnchorsTypeOK /\ PlacesInv /\ FreshInv /\ KeptInv /\ FloorInv /\ FoundIfThere
  BY DEF AnchorsInv
<1>1. AnchorsTypeOK'
  BY <1>0 DEF CleanupOld
<1>2. PlacesInv'
  BY <1>0 DEF PlacesInv, CleanupOld
<1>3. FreshInv'
  BY <1>0 DEF PlacesInv, FreshInv, CleanupOld
<1>4. KeptInv'
  BY <1>0 DEF PlacesInv, KeptInv, CleanupOld
<1>5. FloorInv'
  BY <1>0 DEF PlacesInv, KeptInv, FloorInv, CleanupOld
<1>6. FoundIfThere'
  BY <1>0 DEF PlacesInv, FreshInv, FloorInv, FoundIfThere, CleanupOld
<1> QED BY <1>1, <1>2, <1>3, <1>4, <1>5, <1>6 DEF AnchorsInv

\* A look-up asks the memory.
LEMMA FindInv ==
  ASSUME AnchorsInv, NEW f \in Finders, Find(f)
  PROVE  AnchorsInv'
<1>0. AnchorsTypeOK /\ PlacesInv /\ FreshInv /\ KeptInv /\ FloorInv /\ FoundIfThere
  BY DEF AnchorsInv
<1>1. AnchorsTypeOK'
  BY <1>0 DEF Find, Misses
<1>2. PlacesInv'
  BY <1>0 DEF PlacesInv, Find, Misses
<1>3. FreshInv'
  BY <1>0 DEF PlacesInv, FreshInv, Find, Misses
<1>4. KeptInv'
  BY <1>0 DEF PlacesInv, KeptInv, Find, Misses
<1>5. FloorInv'
  BY <1>0 DEF PlacesInv, KeptInv, FloorInv, Find, Misses
<1>6. FoundIfThere'
  BY <1>0 DEF PlacesInv, FreshInv, FloorInv, FoundIfThere, Find, Misses
<1> QED BY <1>1, <1>2, <1>3, <1>4, <1>5, <1>6 DEF AnchorsInv

\* A look-up asks the row.
LEMMA SelectInv ==
  ASSUME AnchorsInv, NEW f \in Finders, Select(f)
  PROVE  AnchorsInv'
<1>0. AnchorsTypeOK /\ PlacesInv /\ FreshInv /\ KeptInv /\ FloorInv /\ FoundIfThere
  BY DEF AnchorsInv
<1>1. AnchorsTypeOK'
  BY <1>0 DEF Select, Fails
<1>2. PlacesInv'
  BY <1>0 DEF PlacesInv, Select, Fails
<1>3. FreshInv'
  BY <1>0 DEF PlacesInv, FreshInv, Select, Fails
<1>4. KeptInv'
  BY <1>0 DEF PlacesInv, KeptInv, Select, Fails
<1>5. FloorInv'
  BY <1>0 DEF PlacesInv, KeptInv, FloorInv, Select, Fails
<1>6. FoundIfThere'
  BY <1>0 DEF PlacesInv, FreshInv, FloorInv, FoundIfThere, Select, Fails
<1> QED BY <1>1, <1>2, <1>3, <1>4, <1>5, <1>6 DEF AnchorsInv

\* A look-up fills the memory with what it read.
LEMMA FillInv ==
  ASSUME AnchorsInv, NEW f \in Finders, Fill(f)
  PROVE  AnchorsInv'
<1>0. AnchorsTypeOK /\ PlacesInv /\ FreshInv /\ KeptInv /\ FloorInv /\ FoundIfThere
  BY DEF AnchorsInv
<1>1. AnchorsTypeOK'
  BY <1>0 DEF Fill
<1>2. PlacesInv'
  BY <1>0 DEF PlacesInv, Fill
<1>3. FreshInv'
  BY <1>0 DEF PlacesInv, FreshInv, Fill
<1>4. KeptInv'
  BY <1>0 DEF PlacesInv, KeptInv, Fill
<1>5. FloorInv'
  BY <1>0 DEF PlacesInv, KeptInv, FloorInv, Fill
<1>6. FoundIfThere'
  BY <1>0 DEF PlacesInv, FreshInv, FloorInv, FoundIfThere, Fill
<1> QED BY <1>1, <1>2, <1>3, <1>4, <1>5, <1>6 DEF AnchorsInv

HIDE AnchorsAssumption DEF AnchorsTypeOK, Anchor, Times, bounds

\* The bounds and the history of a step do not change the invariant.
LEMMA StutterInv == AnchorsInv /\ UNCHANGED vars => AnchorsInv'
BY DEF AnchorsInv, AnchorsTypeOK, PlacesInv, FreshInv, KeptInv, FloorInv, FoundIfThere, vars, bounds

\* An empty memory, an empty row and nothing under way.
LEMMA InitInv == Init => AnchorsInv
<1> SUFFICES ASSUME Init PROVE AnchorsInv
  OBVIOUS
<1>1. AnchorsTypeOK
  <2>1. /\ 0 \in Anchor /\ {} \subseteq Times
        /\ 0 \in 0 .. MaxFailures /\ 0 \in 0 .. MaxCleanups /\ 0 \in 0 .. MaxRestarts
    BY AnchorsAssumption DEF Anchor
  <2> QED BY <2>1 DEF Init, AnchorsTypeOK
<1>2. PlacesInv /\ FreshInv /\ KeptInv /\ FloorInv /\ FoundIfThere
  BY DEF Init, PlacesInv, FreshInv, KeptInv, FloorInv, FoundIfThere
<1> QED BY <1>1, <1>2 DEF AnchorsInv

\* Every step, and none, keeps the invariant.
LEMMA StepInv == AnchorsInv /\ [Next]_vars => AnchorsInv'
<1> SUFFICES ASSUME AnchorsInv, [Next]_vars PROVE AnchorsInv'
  OBVIOUS
<1>1. ASSUME NEW ts \in Times, Record(ts) PROVE AnchorsInv'
  BY <1>1, RecordInv
<1>2. ASSUME NEW ts \in writes, Persist(ts) \/ PersistFails(ts) PROVE AnchorsInv'
  BY <1>2, PersistInv, PersistFailsInv
<1>3. CASE Boot \/ CleanupOld \/ Restart
  BY <1>3, SetPoolInv, WarmupQueryInv, WarmupLoadInv, CleanupOldInv, RestartInv DEF Boot
<1>4. ASSUME NEW f \in Finders, Find(f) \/ Select(f) \/ Fill(f) PROVE AnchorsInv'
  BY <1>4, FindInv, SelectInv, FillInv
<1>5. CASE UNCHANGED vars
  BY <1>5, StutterInv
<1> QED BY <1>1, <1>2, <1>3, <1>4, <1>5 DEF Next

-----------------------------------------------------------------------------
(* Theorems *)

\* Memory, row, writes behind and look-ups stay together in every reachable
\* state.
THEOREM AnchorsSafe == Spec => []AnchorsInv
BY InitInv, StepInv, PTL DEF Spec

\* Every variable keeps its type, whatever order the boot and the messages
\* come in.
THEOREM TypeCorrect == Spec => []AnchorsTypeOK
<1>1. AnchorsInv => AnchorsTypeOK
  BY DEF AnchorsInv
<1> QED BY AnchorsSafe, <1>1, PTL

\* While no message overtakes a reading of the row, the memory of a server
\* that is up is as new as the row.
THEOREM MemoryFresh == Spec => []MemoryAsNewAsRow
<1>1. AnchorsInv => MemoryAsNewAsRow
  BY DEF AnchorsInv, FreshInv, MemoryAsNewAsRow
<1> QED BY AnchorsSafe, <1>1, PTL

\* Once everything is written, the row is as new as the memory: a restart does
\* not lose the anchor.
THEOREM RowKept == Spec => []RowKeepsUp
<1>1. AnchorsInv => RowKeepsUp
  BY DEF AnchorsInv, AnchorsTypeOK, Anchor, KeptInv, RowKeepsUp
<1> QED BY AnchorsSafe, <1>1, PTL

\* A look-up finds an anchor no older than the row was when it began.
THEOREM FoundThere == Spec => []FoundIfThere
<1>1. AnchorsInv => FoundIfThere
  BY DEF AnchorsInv
<1> QED BY AnchorsSafe, <1>1, PTL

\* Only the clean-up makes the row older: writes behind may arrive in any order.
THEOREM RowNeverBack == Spec => RowOnlyGrows
<1> DEFINE Grows == table' < table => table' = 0 /\ cleanups' > cleanups
<1>1. AnchorsTypeOK /\ [Next]_vars => [Grows]_vars
  <2> SUFFICES ASSUME AnchorsTypeOK, [Next]_vars PROVE Grows
    OBVIOUS
  <2>1. /\ table \in Nat /\ cleanups \in Nat
        /\ \A ts \in writes : ts \in Nat
    BY AnchorsAssumption DEF AnchorsTypeOK, Anchor, Times
  <2>2. ASSUME NEW ts \in writes, Persist(ts) PROVE ~(table' < table)
    BY <2>1, <2>2 DEF Persist, Upserted
  <2>3. ASSUME CleanupOld PROVE table' = 0 /\ cleanups' > cleanups
    BY <2>1, <2>3 DEF CleanupOld
  <2>4. UNCHANGED table \/ CleanupOld \/ \E ts \in writes : Persist(ts)
    BY DEF Next, Record, PersistFails, Boot, SetPool, WarmupQuery, WarmupLoad, Restart, Find,
           Select, Fill, vars
  <2> QED BY <2>1, <2>2, <2>3, <2>4
<1> QED BY <1>1, TypeCorrect, PTL DEF Spec, RowOnlyGrows
=============================================================================
