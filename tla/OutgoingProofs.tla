--------------------------- MODULE OutgoingProofs ---------------------------
(***************************************************************************)
(* Proofs about outgoing messages, for every set of instances and          *)
(* handlers, every depth, retry budget and number of messages, rows and    *)
(* faults: first about the outbox by itself, then about its use by the     *)
(* handlers and the drainer.                                               *)
(*                                                                         *)
(* The safety properties of the outbox follow from OutboxInv, which is     *)
(* inductive.  What makes them true is in two of its parts: a row that can *)
(* still be sent has no confirmed copy that a fault does not pay for       *)
(* (ConfirmInv), and the sweep only holds rows nobody has been told about  *)
(* (SweepInv).  Handlers and drainer use the outbox as Outbox says, so     *)
(* that its theorems hold of the delivery too; and one copy of a message   *)
(* goes out while its idempotency row can be relied on.                    *)
(***************************************************************************)
EXTENDS Delivery, OutboxRefinement, FiniteSetTheorems, SequenceTheorems, TLAPS

\* The empty table satisfies everything.
LEMMA InitInv == Init => OutboxInv
BY OutboxAssumption
   DEF Init, OutboxInv, TypeOK, TableInv, PassInv, ConfirmInv, SweepInv, Rows, NoRow,
       Status, InFlight, StatusIsEarned, ErrorsAreCounted, NoticeAtMostOnce

-----------------------------------------------------------------------------
(* Enqueue *)

\* COUNT changes nothing in the table.
LEMMA EnqueueCountInv ==
  ASSUME OutboxInv, NEW e \in Enqueuers, NEW i \in Instances, EnqueueCount(e, i)
  PROVE  OutboxInv'
BY DEF OutboxInv, EnqueueCount, TypeOK, TableInv, PassInv, ConfirmInv, SweepInv, InFlight,
       StatusIsEarned, ErrorsAreCounted, NoticeAtMostOnce, table, drainer, expirer, history

\* Nor does an INSERT that fails.
LEMMA EnqueueAbortInv ==
  ASSUME OutboxInv, NEW e \in Enqueuers, EnqueueAbort(e)
  PROVE  OutboxInv'
BY DEF OutboxInv, EnqueueAbort, TypeOK, TableInv, PassInv, ConfirmInv, SweepInv, InFlight,
       StatusIsEarned, ErrorsAreCounted, NoticeAtMostOnce, table, drainer, expirer, history

\* The new row is blank, so it starts with no copy, no refusal and no notice.
LEMMA EnqueueInsertInv ==
  ASSUME OutboxInv, NEW e \in Enqueuers, EnqueueInsert(e)
  PROVE  OutboxInv'
<1>0. /\ TypeOK /\ TableInv /\ PassInv /\ ConfirmInv /\ SweepInv
      /\ StatusIsEarned /\ ErrorsAreCounted /\ NoticeAtMostOnce
  BY DEF OutboxInv
<1>1. TypeOK'
  <2>1. nextId' \in 1 .. MaxRows + 1 /\ counted[e] \in Instances
    BY <1>0, OutboxAssumption DEF TypeOK, EnqueueInsert, Rows
  <2> QED BY <1>0, <2>1 DEF TypeOK, EnqueueInsert, drainer, expirer, history, Status
<1>2. TableInv'
  BY <1>0, OutboxAssumption DEF TypeOK, TableInv, EnqueueInsert, history, Rows
<1>3. PassInv'
  BY <1>0 DEF TypeOK, TableInv, PassInv, EnqueueInsert, drainer, Rows
<1>4. ConfirmInv'
  BY <1>0 DEF TypeOK, TableInv, ConfirmInv, InFlight, EnqueueInsert, drainer, history, Rows
<1>5. SweepInv'
  BY <1>0 DEF TypeOK, TableInv, SweepInv, EnqueueInsert, expirer, history, Rows
<1>6. StatusIsEarned'
  BY <1>0 DEF TypeOK, StatusIsEarned, EnqueueInsert, history
<1>7. ErrorsAreCounted' /\ NoticeAtMostOnce'
  BY <1>0 DEF ErrorsAreCounted, NoticeAtMostOnce, InFlight, EnqueueInsert, drainer, history
<1> QED BY <1>1, <1>2, <1>3, <1>4, <1>5, <1>6, <1>7 DEF OutboxInv

-----------------------------------------------------------------------------
(* DrainOnce *)

\* The rows of a new pass are pending, and their attempts are as read.
LEMMA DrainSelectInv ==
  ASSUME OutboxInv, DrainSelect
  PROVE  OutboxInv'
<1>0. /\ TypeOK /\ TableInv /\ PassInv /\ ConfirmInv /\ SweepInv
      /\ StatusIsEarned /\ ErrorsAreCounted /\ NoticeAtMostOnce
  BY DEF OutboxInv
<1>1. batch' \subseteq Rows /\ \A r \in batch' : status[r] = "pending"
  BY DEF DrainSelect, Selection, Oldest, Pending
<1>2. \A r \in Rows : snapshot'[r] = IF r \in batch' THEN attempts[r] ELSE 0
  BY DEF DrainSelect
<1>3. snapshot' \in [Rows -> 0 .. MaxAttempts]
  BY <1>0, OutboxAssumption DEF DrainSelect, TypeOK
<1>4. TypeOK'
  BY <1>0, <1>1, <1>3 DEF TypeOK, DrainSelect, table, expirer, history
<1>5. TableInv' /\ SweepInv'
  BY <1>0 DEF TableInv, SweepInv, DrainSelect, table, expirer, history
<1>6. PassInv'
  BY <1>0, <1>1, <1>2 DEF TypeOK, PassInv, TableInv, DrainSelect, table, Rows, NoRow
<1>7. ConfirmInv'
  BY <1>0, <1>1 DEF PassInv, ConfirmInv, InFlight, DrainSelect, table, history
<1>8. StatusIsEarned' /\ ErrorsAreCounted' /\ NoticeAtMostOnce'
  BY <1>0 DEF StatusIsEarned, ErrorsAreCounted, NoticeAtMostOnce, InFlight, DrainSelect,
              table, history
<1> QED BY <1>4, <1>5, <1>6, <1>7, <1>8 DEF OutboxInv

\* A row that is passed over stays as it is.
LEMMA DrainSkipInv ==
  ASSUME OutboxInv, NEW r \in Rows, DrainSkip(r)
  PROVE  OutboxInv'
BY DEF OutboxInv, DrainSkip, Advance, IsFirst, TypeOK, TableInv, PassInv, ConfirmInv,
       SweepInv, InFlight, StatusIsEarned, ErrorsAreCounted, NoticeAtMostOnce, table,
       expirer, history, NoRow, Rows

\* The row leaves the batch as it goes in flight, so it can be sent once.
LEMMA DrainCallInv ==
  ASSUME OutboxInv, NEW r \in Rows, DrainCall(r)
  PROVE  OutboxInv'
<1>0. /\ TypeOK /\ TableInv /\ PassInv /\ ConfirmInv /\ SweepInv
      /\ StatusIsEarned /\ ErrorsAreCounted /\ NoticeAtMostOnce
  BY DEF OutboxInv
<1>1. /\ r \in batch /\ current' = r /\ batch' = batch \ {r}
      /\ phase = "walk" /\ phase' = "call"
      /\ UNCHANGED <<table, connected, key, counted, snapshot, expirer, history>>
  BY DEF DrainCall, IsFirst
<1>2. TypeOK' /\ TableInv' /\ SweepInv' /\ NoticeAtMostOnce'
  BY <1>0, <1>1 DEF TypeOK, TableInv, SweepInv, NoticeAtMostOnce, table, expirer, history
<1>3. PassInv'
  BY <1>0, <1>1 DEF TypeOK, PassInv, table, Rows, NoRow
<1>4. ConfirmInv' /\ StatusIsEarned' /\ ErrorsAreCounted'
  BY <1>0, <1>1 DEF TypeOK, PassInv, ConfirmInv, StatusIsEarned, ErrorsAreCounted, InFlight,
                    table, history
<1> QED BY <1>2, <1>3, <1>4 DEF OutboxInv

\* The free confirmation of the row is used when the sender returns nil, and
\* cannot be used again: only a fault makes the row sendable once more.
LEMMA DrainReturnInv ==
  ASSUME OutboxInv, NEW ok \in BOOLEAN, DrainReturn(ok)
  PROVE  OutboxInv'
<1>0. /\ TypeOK /\ TableInv /\ PassInv /\ ConfirmInv /\ SweepInv
      /\ StatusIsEarned /\ ErrorsAreCounted /\ NoticeAtMostOnce
  BY DEF OutboxInv
<1>1. /\ current \in Rows /\ phase = "call"
      /\ UNCHANGED <<table, connected, key, counted, batch, snapshot, current, expirer,
                     notices, faults>>
  BY <1>0 DEF DrainReturn, PassInv, TypeOK
<1>2. phase' \in {"ok", "err"}
  BY DEF DrainReturn
<1>3. TypeOK'
  BY <1>0, <1>1, <1>2 DEF DrainReturn, TypeOK, table, expirer
<1>4. TableInv' /\ SweepInv' /\ NoticeAtMostOnce'
  BY <1>0, <1>1 DEF TypeOK, TableInv, PassInv, SweepInv, NoticeAtMostOnce, DrainReturn, table, expirer
<1>5. PassInv'
  BY <1>0, <1>1, <1>2 DEF TypeOK, PassInv, table, Rows, NoRow
<1>6. CASE ok
  <2>1. phase' = "ok" /\ oks' = [oks EXCEPT ![current] = @ + 1] /\ errs' = errs
    BY <1>6 DEF DrainReturn
  <2>2. ConfirmInv'
    BY <1>0, <1>1, <2>1 DEF TypeOK, PassInv, ConfirmInv, InFlight, table
  <2>3. StatusIsEarned' /\ ErrorsAreCounted'
    BY <1>0, <1>1, <2>1 DEF TypeOK, PassInv, StatusIsEarned, ErrorsAreCounted, InFlight, table
  <2> QED BY <1>3, <1>4, <1>5, <2>2, <2>3 DEF OutboxInv
<1>7. CASE ~ok
  <2>1. phase' = "err" /\ errs' = [errs EXCEPT ![current] = @ + 1] /\ oks' = oks
    BY <1>7 DEF DrainReturn
  <2>2. ConfirmInv'
    BY <1>0, <1>1, <2>1 DEF TypeOK, PassInv, ConfirmInv, ErrorsAreCounted, InFlight, table
  <2>3. StatusIsEarned' /\ ErrorsAreCounted'
    BY <1>0, <1>1, <2>1, OutboxAssumption
       DEF TypeOK, PassInv, StatusIsEarned, ErrorsAreCounted, InFlight, table
  <2> QED BY <1>3, <1>4, <1>5, <2>2, <2>3 DEF OutboxInv
<1> QED BY <1>6, <1>7

\* The row in flight is written whatever status it has: sent if the send was
\* confirmed, one attempt more or failed if it was refused; the answer to the
\* UPDATE may be lost, at the price of a fault.
LEMMA WriteResultInv ==
  ASSUME OutboxInv, WriteResult, Advance(batch), faults' \in 0 .. MaxFaults,
         faults' \in {faults, faults + 1},
         UNCHANGED <<instance, overdue, sealed, nextId, connected, key, counted, expirer,
                     oks, errs, notices>>
  PROVE  OutboxInv'
<1>0. /\ TypeOK /\ TableInv /\ PassInv /\ ConfirmInv /\ SweepInv
      /\ StatusIsEarned /\ ErrorsAreCounted /\ NoticeAtMostOnce
      /\ faults \in Int /\ faults' \in Int /\ faults' >= faults
  BY OutboxAssumption DEF OutboxInv, TypeOK
<1>1. /\ current \in Rows /\ current \notin batch /\ status[current] # "absent"
      /\ snapshot[current] = attempts[current] /\ attempts[current] < MaxAttempts
      /\ current' = NoRow /\ phase' \in {"idle", "walk"} /\ batch' = batch
      /\ (phase' = "idle" => batch = {}) /\ snapshot' = snapshot
  BY <1>0 DEF WriteResult, Advance, PassInv, TypeOK
<1>2. CASE phase = "ok"
  <2>1. status' = [status EXCEPT ![current] = "sent"] /\ attempts' = attempts /\ oks[current] > 0
    BY <1>0, <1>1, <1>2 DEF WriteResult, WriteSent, WriteError, ConfirmInv, InFlight
  <2>2. TypeOK'
    BY <1>0, <1>1, <2>1 DEF TypeOK, Status, expirer
  <2>3. TableInv' /\ PassInv' /\ SweepInv'
    BY <1>0, <1>1, <2>1 DEF TypeOK, TableInv, PassInv, SweepInv, expirer, Rows, NoRow
  <2>4. /\ \A r \in Rows, p \in {"call", "ok", "err"} : ~InFlight(r, p)'
        /\ \A r \in Rows : status'[r] = status[r] \/ (r = current /\ status'[r] = "sent")
        /\ \A r \in Rows : InFlight(r, "ok") <=> r = current
        /\ \A r \in Rows : ~InFlight(r, "err") /\ ~InFlight(r, "call")
    BY <1>0, <1>1, <1>2, <2>1 DEF TypeOK, InFlight, Rows, NoRow
  <2>5. /\ \A r \in Rows : oks[r] \in Nat /\ errs[r] \in Nat /\ attempts[r] \in Nat
        /\ UNCHANGED <<oks, errs, notices, attempts, overdue, batch>>
    BY <1>0, <1>1, <2>1, OutboxAssumption DEF TypeOK
  <2>6. ConfirmInv'
    <3>1. \A r \in Rows : oks[r] <= 1 + faults /\ (status[r] = "pending" \/ r \in batch => oks[r] <= faults \/ r = current)
      BY <1>0, <2>4 DEF ConfirmInv
    <3>2. \A r \in Rows : status'[r] = "pending" \/ r \in batch => r # current /\ (status[r] = "pending" \/ r \in batch)
      BY <1>0, <1>1, <2>1, <2>4 DEF TypeOK
    <3> QED BY <1>0, <2>4, <2>5, <3>1, <3>2 DEF ConfirmInv
  <2>7. StatusIsEarned' /\ NoticeAtMostOnce'
    BY <1>0, <2>1, <2>4, <2>5 DEF StatusIsEarned, NoticeAtMostOnce
  <2>8. ErrorsAreCounted'
    BY <1>0, <2>4, <2>5 DEF ErrorsAreCounted
  <2> QED BY <2>2, <2>3, <2>6, <2>7, <2>8 DEF OutboxInv
<1>3. CASE phase = "err"
  <2> DEFINE n == attempts[current] + 1
  <2>1. /\ attempts' = [attempts EXCEPT ![current] = n] /\ n <= errs[current]
        /\ n \in 0 .. MaxAttempts /\ n >= 1
        /\ \/ n = MaxAttempts /\ status' = [status EXCEPT ![current] = "failed"]
           \/ n < MaxAttempts /\ status' = status
    BY <1>0, <1>1, <1>3, OutboxAssumption
       DEF WriteResult, WriteSent, WriteError, TypeOK, ConfirmInv, InFlight
  <2> HIDE DEF n
  <2>2. TypeOK'
    BY <1>0, <1>1, <2>1 DEF TypeOK, Status, expirer
  <2>3. TableInv'
    BY <1>0, <1>1, <2>1, OutboxAssumption DEF TypeOK, TableInv, Rows
  <2>4. PassInv' /\ SweepInv'
    <3>0. \A r \in batch : /\ attempts'[r] = attempts[r] /\ snapshot'[r] = snapshot[r]
                            /\ status'[r] = status[r]
      BY <1>0, <1>1, <2>1 DEF TypeOK
    <3>1. PassInv'
      BY <1>0, <1>1, <3>0 DEF TypeOK, PassInv, Rows, NoRow
    <3>2. \A r \in Rows : status'[r] = status[r] \/ status'[r] = "failed"
      BY <1>0, <1>1, <2>1 DEF TypeOK
    <3>3. SweepInv'
      BY <1>0, <1>1, <2>1, <3>2 DEF TypeOK, SweepInv, expirer
    <3> QED BY <3>1, <3>3
  <2>5. /\ \A r \in Rows, p \in {"call", "ok", "err"} : ~InFlight(r, p)'
        /\ \A r \in Rows : status'[r] = status[r] \/ (r = current /\ n = MaxAttempts /\ status'[r] = "failed")
        /\ \A r \in Rows : attempts'[r] = IF r = current THEN n ELSE attempts[r]
        /\ \A r \in Rows : InFlight(r, "err") <=> r = current
        /\ \A r \in Rows : ~InFlight(r, "ok") /\ ~InFlight(r, "call")
    BY <1>0, <1>1, <1>3, <2>1 DEF TypeOK, InFlight, Rows, NoRow
  <2>6. /\ \A r \in Rows : oks[r] \in Nat /\ errs[r] \in Nat /\ attempts[r] \in Nat
        /\ UNCHANGED <<oks, errs, notices, overdue, batch>> /\ MaxAttempts \in Nat
    BY <1>0, <1>1, OutboxAssumption DEF TypeOK
  <2>7. ConfirmInv'
    BY <1>0, <1>1, <2>5, <2>6 DEF ConfirmInv
  <2>8. StatusIsEarned' /\ NoticeAtMostOnce'
    BY <1>0, <2>1, <2>5, <2>6 DEF StatusIsEarned, NoticeAtMostOnce
  <2>9. ErrorsAreCounted'
    BY <1>0, <2>1, <2>5, <2>6 DEF ErrorsAreCounted, n
  <2> QED BY <2>2, <2>3, <2>4, <2>7, <2>8, <2>9 DEF OutboxInv
<1> QED BY <1>2, <1>3 DEF WriteResult

\* The pass moves on with the row written.
LEMMA DrainMarkInv ==
  ASSUME OutboxInv, DrainMark
  PROVE  OutboxInv'
<1>1. faults' = faults /\ faults' \in 0 .. MaxFaults
  BY DEF DrainMark, history, OutboxInv, TypeOK
<1> QED BY <1>1, WriteResultInv DEF DrainMark, history

\* A lost UPDATE leaves the row as it was, with one more fault to pay for the
\* confirmation or refusal the table does not show; a lost answer does not.
LEMMA DrainMarkFailsInv ==
  ASSUME OutboxInv, DrainMarkFails
  PROVE  OutboxInv'
<1>0. /\ TypeOK /\ TableInv /\ PassInv /\ ConfirmInv /\ SweepInv
      /\ StatusIsEarned /\ ErrorsAreCounted /\ NoticeAtMostOnce
  BY DEF OutboxInv
<1>1. faults' = faults + 1 /\ faults' \in 0 .. MaxFaults /\ faults \in Int
  BY <1>0, OutboxAssumption DEF DrainMarkFails, TypeOK
<1>2. CASE WriteResult
  BY <1>1, <1>2, WriteResultInv DEF DrainMarkFails
<1>3. CASE UNCHANGED <<status, attempts>>
  <2>0. table' = table
    BY <1>3 DEF DrainMarkFails, table
  <2>2. TypeOK'
    BY <1>0, <1>1, <2>0 DEF TypeOK, DrainMarkFails, Advance, table, expirer, NoRow
  <2>3. TableInv' /\ SweepInv' /\ StatusIsEarned' /\ NoticeAtMostOnce'
    BY <1>0, <2>0 DEF TableInv, SweepInv, StatusIsEarned, NoticeAtMostOnce, DrainMarkFails, table, expirer
  <2>4. PassInv'
    BY <1>0, <2>0 DEF TypeOK, PassInv, DrainMarkFails, Advance, table, NoRow, Rows
  <2>5. ConfirmInv'
    BY <1>0, <1>1, <2>0 DEF TypeOK, ConfirmInv, InFlight, DrainMarkFails, Advance, table, NoRow, Rows
  <2>6. ErrorsAreCounted'
    BY <1>0, <1>1, <2>0 DEF TypeOK, ErrorsAreCounted, InFlight, DrainMarkFails, Advance, table, NoRow, Rows
  <2> QED BY <2>2, <2>3, <2>4, <2>5, <2>6 DEF OutboxInv
<1> QED BY <1>2, <1>3 DEF DrainMarkFails

-----------------------------------------------------------------------------
(* ExpireOnce *)

\* The rows of a new sweep are pending and overdue, so not announced.
LEMMA ExpireSelectInv ==
  ASSUME OutboxInv, ExpireSelect
  PROVE  OutboxInv'
<1>1. xbatch' \subseteq {r \in Rows : status[r] = "pending" /\ overdue[r]}
  BY DEF ExpireSelect, Oldest, Expirable, Pending
<1> QED
  BY <1>1 DEF OutboxInv, ExpireSelect, TypeOK, TableInv, PassInv, ConfirmInv, SweepInv, InFlight,
              StatusIsEarned, ErrorsAreCounted, NoticeAtMostOnce, table, drainer, history, Rows, NoRow

\* A row the sweep closes was overdue when it was selected.
LEMMA ExpireMarkInv ==
  ASSUME OutboxInv, NEW r \in Rows, ExpireMark(r)
  PROVE  OutboxInv'
<1>0. /\ TypeOK /\ TableInv /\ PassInv /\ ConfirmInv /\ SweepInv
      /\ StatusIsEarned /\ ErrorsAreCounted /\ NoticeAtMostOnce
  BY DEF OutboxInv
<1>1. r \in xbatch /\ overdue[r] /\ status[r] # "absent"
  BY <1>0 DEF ExpireMark, IsFirst, SweepInv
<1>2. TypeOK' /\ TableInv' /\ PassInv'
  BY <1>0, <1>1 DEF TypeOK, TableInv, PassInv, ExpireMark, drainer, history, Status
<1>3. SweepInv' /\ NoticeAtMostOnce'
  BY <1>0, <1>1 DEF TypeOK, SweepInv, NoticeAtMostOnce, ExpireMark, history
<1>4. ConfirmInv' /\ StatusIsEarned' /\ ErrorsAreCounted'
  BY <1>0, <1>1 DEF TypeOK, ConfirmInv, StatusIsEarned, ErrorsAreCounted, InFlight, ExpireMark,
                    drainer, history
<1> QED BY <1>2, <1>3, <1>4 DEF OutboxInv

\* A row whose UPDATE fails, or its answer, is dropped from the sweep.
LEMMA ExpireMarkFailsInv ==
  ASSUME OutboxInv, NEW r \in Rows, ExpireMarkFails(r)
  PROVE  OutboxInv'
<1>0. /\ TypeOK /\ TableInv /\ PassInv /\ ConfirmInv /\ SweepInv
      /\ StatusIsEarned /\ ErrorsAreCounted /\ NoticeAtMostOnce
  BY DEF OutboxInv
<1>1. /\ faults' = faults + 1 /\ faults' \in 0 .. MaxFaults /\ faults \in Int
      /\ r \in xbatch /\ overdue[r] /\ status[r] # "absent"
      /\ \A s \in Rows : status'[s] = status[s] \/ (s = r /\ status'[s] = "expired")
      /\ status' \in [Rows -> Status]
  BY <1>0, OutboxAssumption DEF ExpireMarkFails, TypeOK, IsFirst, SweepInv, Status
<1>2. TypeOK'
  BY <1>0, <1>1 DEF TypeOK, ExpireMarkFails, drainer
<1>3. TableInv' /\ PassInv'
  BY <1>0, <1>1 DEF TypeOK, TableInv, PassInv, ExpireMarkFails, drainer
<1>4. SweepInv' /\ StatusIsEarned' /\ NoticeAtMostOnce'
  BY <1>0, <1>1 DEF TypeOK, SweepInv, StatusIsEarned, NoticeAtMostOnce, ExpireMarkFails
<1>5. ConfirmInv'
  BY <1>0, <1>1 DEF TypeOK, ConfirmInv, InFlight, ExpireMarkFails, drainer
<1>6. ErrorsAreCounted'
  BY <1>0, <1>1 DEF TypeOK, ErrorsAreCounted, InFlight, ExpireMarkFails, drainer
<1> QED BY <1>2, <1>3, <1>4, <1>5, <1>6 DEF OutboxInv

\* The notice is the first, and the row leaves the sweep with it.
LEMMA ExpireNotifyInv ==
  ASSUME OutboxInv, ExpireNotify
  PROVE  OutboxInv'
<1>0. /\ TypeOK /\ TableInv /\ PassInv /\ ConfirmInv /\ SweepInv
      /\ StatusIsEarned /\ ErrorsAreCounted /\ NoticeAtMostOnce
  BY DEF OutboxInv
<1>1. /\ xmarked \in Rows /\ notices[xmarked] = 0 /\ xmarked' = NoRow
      /\ status[xmarked] \notin {"absent", "pending"} /\ xmarked \notin xbatch
      /\ notices' = [notices EXCEPT ![xmarked] = @ + 1]
      /\ UNCHANGED <<table, connected, key, counted, drainer, xbatch, oks, errs, faults>>
  BY <1>0 DEF ExpireNotify, TypeOK, SweepInv
<1>2. notices' = [notices EXCEPT ![xmarked] = 1]
  BY <1>0, <1>1 DEF TypeOK
<1>3. TypeOK' /\ TableInv' /\ PassInv'
  BY <1>0, <1>1, <1>2 DEF TypeOK, TableInv, PassInv, table, drainer
<1>4. SweepInv' /\ NoticeAtMostOnce'
  BY <1>0, <1>1, <1>2 DEF TypeOK, SweepInv, NoticeAtMostOnce, table, NoRow, Rows
<1>5. ConfirmInv' /\ StatusIsEarned' /\ ErrorsAreCounted'
  BY <1>0, <1>1 DEF ConfirmInv, StatusIsEarned, ErrorsAreCounted, InFlight, table, drainer
<1> QED BY <1>3, <1>4, <1>5 DEF OutboxInv

-----------------------------------------------------------------------------
(* The surroundings *)

\* A row only grows older.
LEMMA TTLElapsesInv ==
  ASSUME OutboxInv, NEW r \in Rows, TTLElapses(r)
  PROVE  OutboxInv'
BY DEF OutboxInv, TTLElapses, TypeOK, TableInv, PassInv, ConfirmInv, SweepInv, InFlight,
       StatusIsEarned, ErrorsAreCounted, NoticeAtMostOnce, drainer, expirer, history

\* Connections are not part of the invariant.
LEMMA SetConnectedInv ==
  ASSUME OutboxInv, NEW i \in Instances, NEW up \in BOOLEAN, SetConnected(i, up)
  PROVE  OutboxInv'
BY DEF OutboxInv, SetConnected, TypeOK, TableInv, PassInv, ConfirmInv, SweepInv, InFlight,
       StatusIsEarned, ErrorsAreCounted, NoticeAtMostOnce, table, drainer, expirer, history

\* A crash empties the pass and the sweep, and pays with a fault.
LEMMA RestartInv ==
  ASSUME OutboxInv, NEW k \in Keys \cup {NoKey}, Restart(k)
  PROVE  OutboxInv'
<1>0. /\ TypeOK /\ TableInv /\ PassInv /\ ConfirmInv /\ SweepInv
      /\ StatusIsEarned /\ ErrorsAreCounted /\ NoticeAtMostOnce
  BY DEF OutboxInv
<1>1. faults' = faults + 1 /\ faults' \in 0 .. MaxFaults /\ faults \in Int
  BY <1>0, OutboxAssumption DEF Restart, TypeOK
<1>2. TypeOK'
  BY <1>0, <1>1, OutboxAssumption DEF TypeOK, Restart, table
<1>3. TableInv' /\ PassInv' /\ SweepInv' /\ StatusIsEarned' /\ NoticeAtMostOnce'
  BY <1>0 DEF TableInv, PassInv, SweepInv, StatusIsEarned, NoticeAtMostOnce, Restart, table,
              NoRow, Rows
<1>4. ConfirmInv'
  BY <1>0, <1>1 DEF TypeOK, ConfirmInv, InFlight, Restart, table
<1>5. ErrorsAreCounted'
  BY <1>0, <1>1 DEF TypeOK, ErrorsAreCounted, InFlight, Restart, table
<1> QED BY <1>2, <1>3, <1>4, <1>5 DEF OutboxInv

-----------------------------------------------------------------------------
\* No action breaks the invariant.
LEMMA NextInv == OutboxInv /\ [Next]_vars => OutboxInv'
<1> SUFFICES ASSUME OutboxInv, [Next]_vars PROVE OutboxInv'
  OBVIOUS
<1>1. CASE Enqueue
  BY <1>1, EnqueueCountInv, EnqueueInsertInv, EnqueueAbortInv DEF Enqueue
<1>2. CASE DrainOnce
  BY <1>2, DrainSelectInv, DrainSkipInv, DrainCallInv, DrainReturnInv, DrainMarkInv, DrainMarkFailsInv
     DEF DrainOnce
<1>3. CASE ExpireOnce
  BY <1>3, ExpireSelectInv, ExpireMarkInv, ExpireMarkFailsInv, ExpireNotifyInv DEF ExpireOnce
<1>4. CASE Environment
  BY <1>4, TTLElapsesInv, SetConnectedInv, RestartInv DEF Environment
<1>5. CASE UNCHANGED vars
  BY <1>5 DEF vars, table, drainer, expirer, history, OutboxInv, TypeOK, TableInv, PassInv,
              ConfirmInv, SweepInv, InFlight, StatusIsEarned, ErrorsAreCounted, NoticeAtMostOnce
<1> QED BY <1>1, <1>2, <1>3, <1>4, <1>5 DEF Next

\* The invariant of the outbox holds in every reachable state, whatever the
\* interleaving of handlers, drainer, expirer, crashes and lost UPDATEs.
THEOREM OutboxSafe == Spec => []OutboxInv
BY InitInv, NextInv, PTL DEF Spec

\* Every variable keeps its type, and attempts stays within MaxAttempts.
THEOREM TypeCorrect == Spec => []TypeOK
<1>1. OutboxInv => TypeOK
  BY DEF OutboxInv
<1> QED BY <1>1, OutboxSafe, PTL

\* A message has at most one confirmed send, plus one for each crash or lost
\* UPDATE, however the drainer and the expirer interleave.
THEOREM ConfirmedOnce == Spec => []ConfirmedOncePerFault
<1>1. OutboxInv => ConfirmedOncePerFault
  BY DEF OutboxInv, ConfirmInv, ConfirmedOncePerFault
<1> QED BY <1>1, OutboxSafe, PTL

\* sent, failed and expired are only ever written over evidence for them.
THEOREM StatusEarned == Spec => []StatusIsEarned
<1>1. OutboxInv => StatusIsEarned
  BY DEF OutboxInv
<1> QED BY <1>1, OutboxSafe, PTL

\* The attempts column counts the refusals, except those a fault hid.
THEOREM ErrorsCounted == Spec => []ErrorsAreCounted
<1>1. OutboxInv => ErrorsAreCounted
  BY DEF OutboxInv
<1> QED BY <1>1, OutboxSafe, PTL

\* A message is announced as expired at most once.
THEOREM AnnouncedOnce == Spec => []NoticeAtMostOnce
<1>1. OutboxInv => NoticeAtMostOnce
  BY DEF OutboxInv
<1> QED BY <1>1, OutboxSafe, PTL

-----------------------------------------------------------------------------
\* No single step reopens a row.
LEMMA StepClosed ==
  ASSUME OutboxInv, [Next]_vars, NEW r \in Rows, status[r] \in {"sent", "failed", "expired"}
  PROVE  status'[r] \in {"sent", "failed", "expired"}
<1>0. TypeOK /\ (nextId \in Rows => status[nextId] = "absent")
  <2>1. TypeOK /\ TableInv
    BY DEF OutboxInv
  <2>2. nextId \in Rows => ~(nextId < nextId)
    BY OutboxAssumption DEF Rows
  <2> QED BY <2>1, <2>2 DEF TableInv
<1>1. CASE Enqueue
  <2>1. CASE \E e \in Enqueuers : EnqueueInsert(e)
    BY <1>0, <2>1 DEF EnqueueInsert, TypeOK
  <2>2. CASE \E e \in Enqueuers : EnqueueAbort(e) \/ \E i \in Instances : EnqueueCount(e, i)
    BY <2>2 DEF EnqueueCount, EnqueueAbort, table
  <2> QED BY <1>1, <2>1, <2>2 DEF Enqueue
<1>2. CASE DrainMark \/ DrainMarkFails
  BY <1>0, <1>2 DEF DrainMark, DrainMarkFails, WriteResult, WriteSent, WriteError, TypeOK
<1>3. CASE \E s \in Rows : ExpireMark(s) \/ ExpireMarkFails(s)
  BY <1>0, <1>3 DEF ExpireMark, ExpireMarkFails, TypeOK
<1>4. ASSUME UNCHANGED status PROVE status'[r] \in {"sent", "failed", "expired"}
  BY <1>4
<1>5. CASE DrainOnce /\ ~(DrainMark \/ DrainMarkFails)
  BY <1>4, <1>5 DEF DrainOnce, DrainSelect, DrainSkip, DrainCall, DrainReturn, table
<1>6. CASE ExpireOnce /\ ~(\E s \in Rows : ExpireMark(s) \/ ExpireMarkFails(s))
  BY <1>4, <1>6 DEF ExpireOnce, ExpireSelect, ExpireNotify, table
<1>7. CASE Environment
  BY <1>4, <1>7 DEF Environment, TTLElapses, SetConnected, Restart, table
<1>8. CASE UNCHANGED vars
  BY <1>4, <1>8 DEF vars, table
<1> QED BY <1>1, <1>2, <1>3, <1>5, <1>6, <1>7, <1>8 DEF Next

\* A closed row never returns to 'pending', whatever stale copies of it the
\* drainer and the expirer still hold.
THEOREM StaysClosed == Spec => ClosedForGood
<1>1. OutboxInv /\ [Next]_vars =>
        [\A r \in Rows : status[r] \in {"sent", "failed", "expired"} =>
           status'[r] \in {"sent", "failed", "expired"}]_vars
  BY StepClosed
<1> QED BY <1>1, OutboxSafe, PTL DEF Spec, ClosedForGood

-----------------------------------------------------------------------------
(* Each fault silences one expiry at most *)

\* There are finitely many rows, so finitely many of them are silenced.
LEMMA SilencedIsFinite == IsFiniteSet(Silenced) /\ Cardinality(Silenced) \in Nat
<1>1. IsFiniteSet(Rows) /\ Silenced \in SUBSET Rows
  BY FS_Interval, OutboxAssumption DEF Rows, Silenced
<1>2. IsFiniteSet(Silenced)
  BY <1>1, FS_Subset
<1> QED BY <1>2, FS_CardinalityType

\* A crash, or the end of an UPDATE of the sweep that is reported as failed.
Silences(r) == (r = xmarked /\ \E k \in Keys \cup {NoKey} : Restart(k)) \/ (r \in Rows /\ ExpireMarkFails(r))

\* Without one of these no row falls silent: the sweep holds what it closes
\* until the notice is out.
LEMMA StepTells ==
  ASSUME OutboxInv, [Next]_vars, ~\E k \in Keys \cup {NoKey} : Restart(k),
         ~\E r \in Rows : ExpireMarkFails(r)
  PROVE  Silenced' \subseteq Silenced /\ faults' >= faults
<1>0. TypeOK /\ faults \in Nat
  BY OutboxAssumption DEF OutboxInv, TypeOK
<1>1. CASE UNCHANGED <<status, notices, xmarked>>
  <2>1. Silenced' = Silenced
    BY <1>1 DEF Silenced
  <2>2. faults' = faults \/ faults' = faults + 1
    BY <1>1, Zenon DEF Next, Enqueue, DrainOnce, ExpireOnce, Environment, EnqueueCount, EnqueueInsert, EnqueueAbort,
       DrainSelect, DrainSkip, DrainCall, DrainReturn, DrainMark, DrainMarkFails, ExpireSelect, ExpireMark,
       ExpireMarkFails, ExpireNotify, TTLElapses, SetConnected, vars, history
  <2> QED BY <1>0, <2>1, <2>2
<1>2. CASE \E e \in Enqueuers : EnqueueInsert(e)
  <2>1. \A r \in Rows : status'[r] = "expired" => status[r] = "expired"
    BY <1>0, <1>2 DEF EnqueueInsert, TypeOK
  <2> QED BY <1>0, <1>2, <2>1 DEF EnqueueInsert, Silenced, expirer, history
<1>3. CASE DrainMark \/ DrainMarkFails
  <2>1. \A r \in Rows : status'[r] = "expired" => status[r] = "expired"
    BY <1>0, <1>3 DEF DrainMark, DrainMarkFails, WriteResult, WriteSent, WriteError, TypeOK
  <2>2. UNCHANGED <<notices, xmarked>> /\ faults' >= faults
    BY <1>0, <1>3 DEF DrainMark, DrainMarkFails, expirer, history
  <2> QED BY <2>1, <2>2 DEF Silenced
<1>4. ASSUME NEW s \in Rows, ExpireMark(s) PROVE Silenced' \subseteq Silenced /\ faults' >= faults
  <2>1. /\ xmarked' = s /\ UNCHANGED <<notices, faults>> /\ xmarked = NoRow
        /\ \A r \in Rows : r # s => status'[r] = status[r]
    BY <1>0, <1>4 DEF ExpireMark, TypeOK, history
  <2> QED BY <1>0, <2>1 DEF Silenced, NoRow, Rows
<1>5. CASE ExpireNotify
  <2>1. /\ UNCHANGED <<status, faults>>
        /\ xmarked \in Rows /\ notices'[xmarked] = notices[xmarked] + 1 /\ notices[xmarked] \in Nat
        /\ \A r \in Rows : r # xmarked => notices'[r] = notices[r]
    BY <1>0, <1>5 DEF ExpireNotify, TypeOK, table
  <2>2. notices'[xmarked] # 0
    BY <2>1
  <2> QED BY <1>0, <2>1, <2>2 DEF Silenced
<1>6. UNCHANGED <<status, notices, xmarked>> \/ DrainMark \/ DrainMarkFails \/ ExpireNotify
      \/ (\E e \in Enqueuers : EnqueueInsert(e)) \/ (\E s \in Rows : ExpireMark(s))
  BY Zenon DEF Next, Enqueue, DrainOnce, ExpireOnce, Environment, EnqueueCount, EnqueueAbort, DrainSelect, DrainSkip,
     DrainCall, DrainReturn, ExpireSelect, TTLElapses, SetConnected, vars, table, expirer, history
<1> QED BY <1>1, <1>2, <1>3, <1>4, <1>5, <1>6

\* A fault silences the row in the sweep's hand, and is counted.
LEMMA FaultSilencesOne ==
  ASSUME OutboxInv, ExpiriesAreTold, NEW s, Silences(s)
  PROVE  ExpiriesAreTold'
<1>1. faults \in Nat /\ faults' = faults + 1
  BY OutboxAssumption DEF OutboxInv, TypeOK, Silences, Restart, ExpireMarkFails
<1>2. Silenced' \in SUBSET (Silenced \cup {s})
  <2>1. \A r \in Rows : status'[r] = status[r] \/ r = s
    BY DEF OutboxInv, TypeOK, Silences, Restart, ExpireMarkFails, table
  <2>2. notices' = notices /\ (xmarked' = xmarked \/ s = xmarked)
    BY DEF Silences, Restart, ExpireMarkFails
  <2> QED BY <2>1, <2>2 DEF Silenced
<1>3. /\ IsFiniteSet(Silenced \cup {s})
      /\ Cardinality(Silenced \cup {s}) \in {Cardinality(Silenced), Cardinality(Silenced) + 1}
  BY SilencedIsFinite, FS_AddElement
<1>4. Cardinality(Silenced') <= Cardinality(Silenced \cup {s})
  BY <1>2, <1>3, FS_Subset
<1>5. Cardinality(Silenced') \in Nat
  <2>1. IsFiniteSet(Silenced')
    BY <1>2, <1>3, FS_Subset
  <2> QED BY <2>1, FS_CardinalityType
<1> QED BY <1>1, <1>3, <1>4, <1>5, SilencedIsFinite DEF ExpiriesAreTold

\* Every row the sweep has closed is announced, or will be, but for one with
\* each crash or lost UPDATE, whatever the drainer writes over it meanwhile.
THEOREM ExpiriesTold == Spec => []ExpiriesAreTold
<1>1. Init => ExpiriesAreTold
  <2> SUFFICES ASSUME Init PROVE ExpiriesAreTold
    OBVIOUS
  <2>1. Silenced = {} /\ faults = 0
    BY DEF Init, Silenced
  <2> QED BY <2>1, FS_EmptySet DEF ExpiriesAreTold
<1>2. OutboxInv /\ ExpiriesAreTold /\ [Next]_vars => ExpiriesAreTold'
  <2> SUFFICES ASSUME OutboxInv, ExpiriesAreTold, [Next]_vars, ~\E k \in Keys \cup {NoKey} : Restart(k),
                      ~\E r \in Rows : ExpireMarkFails(r)
               PROVE  ExpiriesAreTold'
    BY FaultSilencesOne DEF Silences
  <2>1. faults \in Nat /\ faults' >= faults /\ Silenced' \in SUBSET Silenced
    BY StepTells, OutboxAssumption DEF OutboxInv, TypeOK
  <2>2. faults' \in Nat
    <3>1. TypeOK'
      BY NextInv DEF OutboxInv
    <3> QED BY <3>1, OutboxAssumption DEF TypeOK
  <2>3. IsFiniteSet(Silenced') /\ Cardinality(Silenced') <= Cardinality(Silenced)
    BY <2>1, SilencedIsFinite, FS_Subset
  <2>4. Cardinality(Silenced') \in Nat
    BY <2>3, FS_CardinalityType
  <2> QED BY <2>1, <2>2, <2>3, <2>4, SilencedIsFinite DEF ExpiriesAreTold
<1> QED BY <1>1, <1>2, OutboxSafe, PTL DEF Spec

-----------------------------------------------------------------------------
(* The depth of the queue *)

\* The sets that are counted are finite.
LEMMA FiniteCounts ==
  ASSUME NEW i \in Instances
  PROVE  /\ IsFiniteSet(PendingOf(i)) /\ Cardinality(PendingOf(i)) \in Nat
         /\ IsFiniteSet(PendingOf(i)') /\ Cardinality(PendingOf(i)') \in Nat
         /\ IsFiniteSet(Racing(i)) /\ Cardinality(Racing(i)) \in Nat
         /\ IsFiniteSet(Racing(i)') /\ Cardinality(Racing(i)') \in Nat
         /\ Cardinality(Enqueuers) \in Nat
<1>1. IsFiniteSet(Rows) /\ IsFiniteSet(Enqueuers)
  BY OutboxAssumption, FS_Interval DEF Rows
<1>2. /\ PendingOf(i) \in SUBSET Rows /\ PendingOf(i)' \in SUBSET Rows
      /\ Racing(i) \in SUBSET Enqueuers /\ Racing(i)' \in SUBSET Enqueuers
  BY DEF PendingOf, Pending, Racing
<1>3. \A S \in SUBSET Rows : IsFiniteSet(S)
  BY <1>1, FS_Subset
<1>4. \A S \in SUBSET Enqueuers : IsFiniteSet(S)
  BY <1>1, FS_Subset
<1> QED BY <1>1, <1>2, <1>3, <1>4, FS_CardinalityType

\* Every step preserves the bound on depth and racers together.
LEMMA DepthStep ==
  ASSUME OutboxInv, DepthAndRacers, [Next]_vars, NEW i \in Instances
  PROVE  Cardinality(PendingOf(i)') + Cardinality(Racing(i)')
           <= MaxQueueDepth + Cardinality(Enqueuers) - 1
<1>0. TypeOK /\ MaxQueueDepth \in Nat
  BY OutboxAssumption DEF OutboxInv
<1>1. ASSUME PendingOf(i)' \subseteq PendingOf(i), Racing(i)' \subseteq Racing(i)
      PROVE  Cardinality(PendingOf(i)') + Cardinality(Racing(i)')
               <= MaxQueueDepth + Cardinality(Enqueuers) - 1
  <2>1. /\ Cardinality(PendingOf(i)') <= Cardinality(PendingOf(i))
        /\ Cardinality(Racing(i)') <= Cardinality(Racing(i))
    BY <1>1, FiniteCounts, FS_Subset
  <2> QED BY <1>0, <2>1, FiniteCounts DEF DepthAndRacers
\* A handler that counts found the queue below the cap, and is itself the
\* only handler that need not be among the racers already.
<1>2. CASE \E e \in Enqueuers, j \in Instances : EnqueueCount(e, j)
  <2>1. PICK e \in Enqueuers, j \in Instances : EnqueueCount(e, j)
    BY <1>2
  <2>2. PendingOf(i)' = PendingOf(i)
    BY <2>1 DEF EnqueueCount, table, PendingOf, Pending
  <2>3. CASE j # i
    <3>1. Racing(i)' \subseteq Racing(i)
      BY <1>0, <2>1, <2>3 DEF EnqueueCount, Racing, TypeOK
    <3> QED BY <1>1, <2>2, <3>1
  <2>4. CASE j = i
    <3>1. Cardinality(PendingOf(i)) < MaxQueueDepth
      BY <2>1, <2>4 DEF EnqueueCount, BelowCap
    <3>2. Racing(i)' \in SUBSET Enqueuers
      BY DEF Racing
    <3>3. Cardinality(Racing(i)') <= Cardinality(Enqueuers)
      BY <3>2, FS_Subset, OutboxAssumption
    <3> QED BY <1>0, <2>2, <3>1, <3>3, FiniteCounts
  <2> QED BY <2>3, <2>4
\* The handler that inserts stops racing: one more row, one racer less.
<1>3. CASE \E e \in Enqueuers : EnqueueInsert(e)
  <2>1. PICK e \in Enqueuers : EnqueueInsert(e)
    BY <1>3
  <2>2. CASE counted[e] # i
    <3>1. PendingOf(i)' \subseteq PendingOf(i) /\ Racing(i)' \subseteq Racing(i)
      BY <1>0, <2>1, <2>2, OutboxAssumption
         DEF EnqueueInsert, TypeOK, PendingOf, Pending, Racing
    <3> QED BY <1>1, <3>1
  <2>3. CASE counted[e] = i
    <3>1. PendingOf(i)' \subseteq PendingOf(i) \cup {nextId}
      BY <1>0, <2>1 DEF EnqueueInsert, TypeOK, PendingOf, Pending
    <3>2. Racing(i)' = Racing(i) \ {e} /\ e \in Racing(i)
      BY <1>0, <2>1, <2>3, OutboxAssumption DEF EnqueueInsert, TypeOK, Racing
    <3>3. /\ IsFiniteSet(PendingOf(i) \cup {nextId})
          /\ Cardinality(PendingOf(i) \cup {nextId}) <= Cardinality(PendingOf(i)) + 1
      <4>1. IsFiniteSet(PendingOf(i)) /\ Cardinality(PendingOf(i)) \in Nat
        BY FiniteCounts
      <4>2. /\ IsFiniteSet(PendingOf(i) \cup {nextId})
            /\ Cardinality(PendingOf(i) \cup {nextId}) =
                 IF nextId \in PendingOf(i) THEN Cardinality(PendingOf(i))
                                            ELSE Cardinality(PendingOf(i)) + 1
        BY <4>1, FS_AddElement
      <4> QED BY <4>1, <4>2
    <3>4. Cardinality(PendingOf(i)') <= Cardinality(PendingOf(i) \cup {nextId})
      BY <3>1, <3>3, FS_Subset
    <3>5. Cardinality(Racing(i)') = Cardinality(Racing(i)) - 1
      BY <3>2, FiniteCounts, FS_RemoveElement
    <3>6. Cardinality(PendingOf(i) \cup {nextId}) \in Nat
      BY <3>3, FS_CardinalityType
    <3> QED BY <1>0, <3>3, <3>4, <3>5, <3>6, FiniteCounts DEF DepthAndRacers
  <2> QED BY <2>2, <2>3
<1>4. CASE \E e \in Enqueuers : EnqueueAbort(e)
  <2>1. PendingOf(i)' = PendingOf(i) /\ Racing(i)' \subseteq Racing(i)
    BY <1>0, <1>4, OutboxAssumption
       DEF EnqueueAbort, table, PendingOf, Pending, Racing, TypeOK
  <2> QED BY <1>1, <2>1
\* No other step inserts, or makes a row pending again.
<1>5. CASE DrainOnce \/ ExpireOnce \/ Environment \/ UNCHANGED vars
  <2>1. Racing(i)' \subseteq Racing(i)
    <3>1. counted' = counted \/ counted' = [e \in Enqueuers |-> NoInstance]
      BY <1>5 DEF DrainOnce, DrainSelect, DrainSkip, DrainCall, DrainReturn, DrainMark, DrainMarkFails,
                  ExpireOnce, ExpireSelect, ExpireMark, ExpireMarkFails, ExpireNotify,
                  Environment, TTLElapses, SetConnected, Restart, vars
    <3> QED BY <3>1, OutboxAssumption DEF Racing
  <2>2. instance' = instance
    BY <1>5 DEF DrainOnce, DrainSelect, DrainSkip, DrainCall, DrainReturn, DrainMark, DrainMarkFails,
                ExpireOnce, ExpireSelect, ExpireMark, ExpireMarkFails, ExpireNotify,
                Environment, TTLElapses, SetConnected, Restart, vars, table
  <2>3. \A r \in Rows : status'[r] = "pending" => status[r] = "pending"
    <3>1. CASE DrainMark \/ DrainMarkFails
      BY <1>0, <3>1 DEF DrainMark, DrainMarkFails, WriteResult, WriteSent, WriteError, TypeOK
    <3>2. CASE \E s \in Rows : ExpireMark(s) \/ ExpireMarkFails(s)
      BY <1>0, <3>2 DEF ExpireMark, ExpireMarkFails, TypeOK
    <3>3. CASE UNCHANGED status
      BY <3>3
    <3>4. DrainMark \/ DrainMarkFails \/ (\E s \in Rows : ExpireMark(s) \/ ExpireMarkFails(s)) \/ UNCHANGED status
      BY <1>5 DEF DrainOnce, DrainSelect, DrainSkip, DrainCall, DrainReturn,
                  ExpireOnce, ExpireSelect, ExpireNotify,
                  Environment, TTLElapses, SetConnected, Restart, vars, table
    <3> QED BY <3>1, <3>2, <3>3, <3>4
  <2>4. PendingOf(i)' \subseteq PendingOf(i)
    BY <2>2, <2>3 DEF PendingOf, Pending
  <2> QED BY <1>1, <2>1, <2>4
<1> QED BY <1>2, <1>3, <1>4, <1>5 DEF Next, Enqueue

\* The rows waiting for an instance and the handlers past their COUNT for it
\* never exceed MaxQueueDepth and all handlers but one (Enqueue).
THEOREM DepthIsBounded == Spec => []DepthAndRacers
<1>1. Init => DepthAndRacers
  <2> SUFFICES ASSUME Init, NEW i \in Instances
               PROVE  Cardinality(PendingOf(i)) + Cardinality(Racing(i))
                        <= MaxQueueDepth + Cardinality(Enqueuers) - 1
    BY DEF DepthAndRacers
  <2>1. PendingOf(i) = {} /\ Racing(i) = {}
    BY OutboxAssumption DEF Init, PendingOf, Pending, Racing
  <2>2. Cardinality(Enqueuers) # 0
    BY OutboxAssumption, FS_EmptySet
  <2>3. Cardinality(Enqueuers) \in Nat
    BY OutboxAssumption, FS_CardinalityType
  <2>4. Cardinality({}) = 0
    BY FS_EmptySet
  <2> QED BY <2>1, <2>2, <2>3, <2>4, OutboxAssumption
<1>2. OutboxInv /\ DepthAndRacers /\ [Next]_vars => DepthAndRacers'
  <2> SUFFICES ASSUME OutboxInv, DepthAndRacers, [Next]_vars, NEW i \in Instances
               PROVE  Cardinality(PendingOf(i)') + Cardinality(Racing(i)')
                        <= MaxQueueDepth + Cardinality(Enqueuers) - 1
    BY DEF DepthAndRacers
  <2> QED BY DepthStep
<1> QED BY <1>1, <1>2, OutboxSafe, PTL DEF Spec

\* The handlers that race between COUNT and INSERT are all that can carry an
\* instance past MaxQueueDepth, for any number of handlers and any cap.
THEOREM OvershootIsBounded == Spec => []OvershootBounded
<1>1. DepthAndRacers => OvershootBounded
  BY FiniteCounts, OutboxAssumption DEF DepthAndRacers, OvershootBounded
<1> QED BY <1>1, DepthIsBounded, PTL

-----------------------------------------------------------------------------
(* The outbox keeps its promise *)

\* The first state is one of the abstract queue.
LEMMA InitPromise == Init => Promise!Init
<1> SUFFICES ASSUME Init PROVE Promise!Init
  OBVIOUS
<1>1. \A r \in Rows : StateOf(r) = "none" /\ ~(notices[r] > 0)
  BY DEF Init, StateOf
<1>2. oks = [r \in Rows |-> 0] /\ faults = 0
  BY DEF Init
<1> QED BY <1>1, <1>2 DEF Promise!Init

\* Every step is one of the abstract queue, or none.
LEMMA StepPromise == OutboxInv /\ OutboxInv' /\ [Next]_vars => [Promise!Next]_(Promise!vars)
<1> SUFFICES ASSUME OutboxInv, OutboxInv', [Next]_vars
             PROVE  [Promise!Next]_(Promise!vars)
  OBVIOUS
<1>0. TypeOK /\ TableInv /\ PassInv /\ ConfirmInv /\ SweepInv
  BY DEF OutboxInv
<1>1. ASSUME UNCHANGED <<status, oks, notices, faults>>
      PROVE  UNCHANGED Promise!vars
  BY <1>1 DEF Promise!vars, StateOf
<1>2. ASSUME NEW r \in Rows, status[r] # "absent", NEW new \in {"sent", "failed", "expired"},
             status' = [status EXCEPT ![r] = new], UNCHANGED <<oks, notices, faults>>
      PROVE  Promise!Close(r) \/ UNCHANGED Promise!vars
  <2>1. CASE status[r] = "pending"
    BY <1>0, <1>2, <2>1 DEF Promise!Close, StateOf, TypeOK
  <2>2. CASE status[r] # "pending"
    <3>1. \A s \in Rows : StateOf(s)' = StateOf(s)
      BY <1>0, <1>2, <2>2 DEF StateOf, TypeOK
    <3> QED BY <1>2, <3>1 DEF Promise!vars
  <2> QED BY <2>1, <2>2
<1>3. ASSUME UNCHANGED <<status, oks, notices>>, faults' = faults + 1
      PROVE  Promise!Fault
  BY <1>3 DEF Promise!Fault, StateOf
<1>9. ASSUME NEW r \in Rows, status[r] # "absent", NEW new \in {"sent", "failed", "expired"},
             status' = [status EXCEPT ![r] = new], UNCHANGED <<oks, notices>>, faults' = faults + 1
      PROVE  Promise!Fault
  <2>1. CASE status[r] = "pending"
    BY <1>0, <1>9, <2>1 DEF Promise!Fault, StateOf, TypeOK
  <2>2. CASE status[r] # "pending"
    <3>1. \A s \in Rows : StateOf(s)' = StateOf(s)
      BY <1>0, <1>9, <2>2 DEF StateOf, TypeOK
    <3> QED BY <1>9, <3>1 DEF Promise!Fault
  <2> QED BY <2>1, <2>2
<1>4. CASE Enqueue
  <2>1. CASE \E e \in Enqueuers : EnqueueInsert(e)
    <3>1. PICK e \in Enqueuers : EnqueueInsert(e)
      BY <2>1
    <3>2. nextId \in Rows /\ ~(nextId < nextId)
      BY <3>1, OutboxAssumption DEF EnqueueInsert, Rows
    <3>3. status[nextId] = "absent"
      BY <1>0, <3>2 DEF TableInv
    <3>4. Promise!Accept(nextId)
      BY <1>0, <3>1, <3>2, <3>3 DEF EnqueueInsert, Promise!Accept, StateOf, TypeOK, history
    <3> QED BY <3>2, <3>4 DEF Promise!Next
  <2>2. CASE \E e \in Enqueuers : EnqueueAbort(e) \/ \E i \in Instances : EnqueueCount(e, i)
    BY <1>1, <2>2 DEF EnqueueAbort, EnqueueCount, table, history
  <2> QED BY <1>4, <2>1, <2>2 DEF Enqueue
<1>5. CASE DrainOnce
  <2>1. CASE \E ok \in BOOLEAN : DrainReturn(ok)
    <3>1. PICK ok \in BOOLEAN : DrainReturn(ok)
      BY <2>1
    <3>2. CASE ok
      <4>1. PICK r \in Rows : r = current
        BY <1>0, <3>1 DEF DrainReturn, PassInv, TypeOK
      <4>2. status[r] # "absent" /\ oks[r] <= faults
        BY <1>0, <3>1, <4>1 DEF DrainReturn, PassInv, ConfirmInv, InFlight
      <4>3. Promise!HandOver(r)
        BY <1>0, <3>1, <3>2, <4>1, <4>2 DEF DrainReturn, Promise!HandOver, StateOf, TypeOK, table
      <4> QED BY <4>3 DEF Promise!Next
    <3>3. CASE ~ok
      BY <1>1, <3>1, <3>3 DEF DrainReturn, table
    <3> QED BY <3>2, <3>3
  <2>2. CASE DrainMark
    <3>1. current \in Rows /\ status[current] # "absent" /\ UNCHANGED <<oks, notices, faults>>
      BY <1>0, <2>2 DEF DrainMark, WriteResult, PassInv, TypeOK, history
    <3>2. \/ UNCHANGED status
          \/ status' = [status EXCEPT ![current] = "sent"]
          \/ status' = [status EXCEPT ![current] = "failed"]
      BY <2>2 DEF DrainMark, WriteResult, WriteSent, WriteError
    <3> QED BY <1>1, <1>2, <3>1, <3>2 DEF Promise!Next
  <2>3. CASE DrainMarkFails
    <3>1. /\ current \in Rows /\ status[current] # "absent"
          /\ UNCHANGED <<oks, notices>> /\ faults' = faults + 1
      BY <1>0, <2>3 DEF DrainMarkFails, PassInv, TypeOK
    <3>2. \/ UNCHANGED status
          \/ status' = [status EXCEPT ![current] = "sent"]
          \/ status' = [status EXCEPT ![current] = "failed"]
      BY <2>3 DEF DrainMarkFails, WriteResult, WriteSent, WriteError
    <3> QED BY <1>3, <1>9, <3>1, <3>2 DEF Promise!Next
  <2>4. CASE DrainSelect \/ \E r \in Rows : DrainSkip(r) \/ DrainCall(r)
    BY <1>1, <2>4 DEF DrainSelect, DrainSkip, DrainCall, table, history
  <2> QED BY <1>5, <2>1, <2>2, <2>3, <2>4 DEF DrainOnce
<1>6. CASE ExpireOnce
  <2>1. CASE ExpireNotify
    <3>1. PICK m \in Rows : m = xmarked
      BY <1>0, <2>1 DEF ExpireNotify, TypeOK
    <3>2. /\ status[m] \notin {"absent", "pending"} /\ notices[m] = 0
          /\ notices' = [notices EXCEPT ![m] = @ + 1]
          /\ UNCHANGED <<table, oks, faults>>
      BY <1>0, <2>1, <3>1 DEF ExpireNotify, SweepInv
    <3>3. \A r \in Rows : notices'[r] > 0 <=> (r = m \/ notices[r] > 0)
      BY <1>0, <3>2 DEF TypeOK
    <3>4. StateOf(m) = "closed" /\ ~(notices[m] > 0)
      BY <3>2 DEF StateOf
    <3>5. \A r \in Rows : StateOf(r)' = StateOf(r)
      BY <3>2 DEF StateOf, table
    <3>6. Promise!Tell(m)
      BY <3>2, <3>3, <3>4, <3>5 DEF Promise!Tell
    <3> QED BY <3>6 DEF Promise!Next
  <2>2. CASE \E r \in Rows : ExpireMark(r)
    <3>1. PICK r \in Rows : ExpireMark(r)
      BY <2>2
    <3>2. /\ status[r] # "absent" /\ status' = [status EXCEPT ![r] = "expired"]
          /\ UNCHANGED <<oks, notices, faults>>
      BY <1>0, <3>1 DEF ExpireMark, IsFirst, SweepInv, history
    <3> QED BY <1>2, <3>2 DEF Promise!Next
  <2>3. CASE \E r \in Rows : ExpireMarkFails(r)
    <3>1. PICK r \in Rows : ExpireMarkFails(r)
      BY <2>3
    <3>2. /\ status[r] # "absent" /\ UNCHANGED <<oks, notices>> /\ faults' = faults + 1
          /\ status' = status \/ status' = [status EXCEPT ![r] = "expired"]
      BY <1>0, <3>1 DEF ExpireMarkFails, IsFirst, SweepInv
    <3> QED BY <1>3, <1>9, <3>2 DEF Promise!Next
  <2>4. CASE ExpireSelect
    BY <1>1, <2>4 DEF ExpireSelect, table, history
  <2> QED BY <1>6, <2>1, <2>2, <2>3, <2>4 DEF ExpireOnce
<1>7. CASE Environment
  <2>1. CASE \E k \in Keys \cup {NoKey} : Restart(k)
    BY <1>3, <2>1 DEF Restart, Promise!Next, table
  <2>2. CASE \/ \E r \in Rows : TTLElapses(r)
             \/ \E i \in Instances, up \in BOOLEAN : SetConnected(i, up)
    BY <1>1, <2>2 DEF TTLElapses, SetConnected, table, history
  <2> QED BY <1>7, <2>1, <2>2 DEF Environment
<1>8. CASE UNCHANGED vars
  BY <1>1, <1>8 DEF vars, table, history
<1> QED BY <1>4, <1>5, <1>6, <1>7, <1>8 DEF Next

\* The table, its drainer and its expirer implement the promise: every
\* message is closed once and for good, copies beyond the first are paid for
\* by faults, and an expiry is told once, after the close.
THEOREM OutboxKeepsPromise == Spec => KeepsPromise
<1>1. OutboxInv /\ OutboxInv' /\ [Next]_vars => [Promise!Next]_(Promise!vars)
  BY StepPromise
<1> QED BY InitPromise, <1>1, OutboxSafe, PTL DEF Spec, KeepsPromise, Promise!Spec

-----------------------------------------------------------------------------
(* The delivery: what a worker leaves behind *)

\* A worker that has returned is idle and has no message; the table is as it
\* was, and only the drainer's pass has noticed.
LEMMA Returns ==
  ASSUME NEW w \in Workers, NEW result, Return(w, result)
  PROVE  /\ at' = [at EXCEPT ![w] = "idle"]
         /\ work' = [work EXCEPT ![w] = NoMessage]
         /\ (w = Drainer /\ DrainReturn(result = "nil")) \/ UNCHANGED vars
         /\ UNCHANGED table
<1>1. CASE w = Drainer
  BY <1>1 DEF Return, DrainReturn
<1>2. CASE w # Drainer
  BY <1>2 DEF Return, Reply, vars
<1> QED BY <1>1, <1>2

-----------------------------------------------------------------------------
(* Every step is one of the outbox, or leaves the outbox alone *)

\* Handlers, HandleFor and the drainer change the outbox by its own actions.
LEMMA StepOutbox ==
  ASSUME WorkInv, [DNext]_dvars
  PROVE  [Next]_vars
<1>1. CASE \E h \in Enqueuers : Handler(h)
  <2> PICK h \in Enqueuers : Handler(h)
    BY <1>1
  <2>1. CASE QueueCount(h)
    <3>1. Home[work[h]] \in Instances
      BY <2>1, DeliveryAssumption DEF QueueCount, WorkInv, Workers
    <3> QED BY <2>1, <3>1 DEF QueueCount, Next, Enqueue
  <2>2. CASE QueueInsert(h)
    BY <2>2 DEF QueueInsert, Next, Enqueue
  <2>3. CASE QueueFails(h)
    BY <2>3 DEF QueueFails, Next, Enqueue
  <2>4. CASE QueueFull(h) \/ \E m \in Messages : Post(h, m)
    BY <2>4 DEF QueueFull, Post
  <2> QED BY <2>1, <2>2, <2>3, <2>4 DEF Handler
<1>2. CASE \E w \in Workers : HandleFor(w)
  <2> PICK w \in Workers : HandleFor(w)
    BY <1>2
  <2>1. ASSUME NEW result, Return(w, result) PROVE [Next]_vars
    <3>1. (result = "nil") \in BOOLEAN
      OBVIOUS
    <3>2. UNCHANGED vars \/ DrainReturn(result = "nil")
      BY <2>1, Returns
    <3> QED BY <3>1, <3>2 DEF Next, DrainOnce
  <2>2. UNCHANGED vars \/ \E result : Return(w, result)
    BY DEF HandleFor, DedupSelect, DedupInsert, DedupFails, ReadFlag, ReadFlagFails, CheckAndRecord, SaveHistory, SaveFails,
           SendOk, SendFails
  <2> QED BY <2>1, <2>2
<1>3. CASE \E r \in Rows : DrainBegin(r)
  BY <1>3 DEF DrainBegin, Next, DrainOnce
<1>4. CASE \E m \in Messages : WindowElapses(m) \/ Purge(m)
  BY <1>4 DEF WindowElapses, Purge
<1>5. CASE \E k \in Keys \cup {NoKey} : DRestart(k)
  BY <1>5 DEF DRestart, Next, Environment
<1>6. CASE OutboxStep
  BY <1>6 DEF OutboxStep, Next, DrainOnce, ExpireOnce, Environment
<1>7. CASE UNCHANGED dvars \/ \E i \in Instances, on \in BOOLEAN : SetSpamguard(i, on)
  BY <1>7 DEF dvars, SetSpamguard
<1> QED BY <1>1, <1>2, <1>3, <1>4, <1>5, <1>6, <1>7 DEF DNext

-----------------------------------------------------------------------------
(* The invariant *)

\* At first no worker works and no message is out.
LEMMA InitDelivery == DInit => DeliveryInv
BY DeliveryAssumption DEF DInit, Init, DeliveryInv, WorkInv, CopyInv, Sends

\* Rows only come from an INSERT, which moves the sequence on.
LEMMA NoNewRow ==
  ASSUME OutboxInv, OutboxInv', nextId' = nextId, NEW r \in Rows, status'[r] # "absent"
  PROVE  status[r] # "absent"
BY DEF OutboxInv, TableInv

\* A worker moves between steps that do not send, with its message or none.
LEMMA HandlerInv ==
  ASSUME DeliveryInv, OutboxInv, OutboxInv', NEW h \in Enqueuers, Handler(h)
  PROVE  DeliveryInv'
<1>0. WorkInv /\ CopyInv /\ h \in Workers
  BY DEF DeliveryInv, Workers
<1>1. UNCHANGED <<seen, wire, excused>>
  BY DEF Handler, Post, QueueFull, QueueCount, QueueInsert, QueueFails, guard, bounds
<1>2. \/ \E m \in Messages, place \in {"dedup", "count"} :
           at' = [at EXCEPT ![h] = place] /\ work' = [work EXCEPT ![h] = m]
      \/ at' = [at EXCEPT ![h] = "idle"] /\ work' = [work EXCEPT ![h] = NoMessage]
      \/ at[h] = "count" /\ at' = [at EXCEPT ![h] = "insert"] /\ work' = work
      \/ at[h] \in {"count", "insert"} /\ at' = [at EXCEPT ![h] = "dedup"] /\ work' = work
  BY DEF Handler, Post, QueueFull, QueueCount, QueueInsert, QueueFails, Reply, Goto
<1>3. /\ carries' \in [Rows -> Messages \cup {NoMessage}]
      /\ \A r \in Rows : status'[r] # "absent" => carries'[r] \in Messages
  <2>1. CASE QueueInsert(h)
    BY <1>0, <2>1 DEF QueueInsert, EnqueueInsert, WorkInv, OutboxInv, TypeOK
  <2>2. CASE ~QueueInsert(h)
    <3>1. UNCHANGED <<carries, nextId>>
      BY <2>2 DEF Handler, Post, QueueFull, QueueCount, QueueFails, EnqueueCount, EnqueueAbort,
                  vars, table
    <3> QED BY <1>0, <3>1, NoNewRow DEF WorkInv
  <2> QED BY <2>1, <2>2
<1>4. WorkInv'
  BY <1>0, <1>1, <1>2, <1>3 DEF WorkInv
<1>5. \A w \in Workers, m \in Messages :
        Sends(w, m)' => Sends(w, m) /\ at'[w] = at[w]
  BY <1>0, <1>2 DEF Sends, WorkInv
<1>6. CopyInv'
  BY <1>0, <1>1, <1>5 DEF CopyInv
<1> QED BY <1>4, <1>6 DEF DeliveryInv

\* The worker, if it goes on, keeps its message and its place among the
\* senders; the idempotency row and the wire are as they were.
LEMMA MovesOn ==
  ASSUME WorkInv, CopyInv, NEW w \in Workers, UNCHANGED <<carries, nextId, seen, wire, excused>>,
         OutboxInv, OutboxInv',
         \/ at' = [at EXCEPT ![w] = "idle"] /\ work' = [work EXCEPT ![w] = NoMessage]
         \/ /\ at[w] \in {"guard", "check", "save"} /\ work' = work
            /\ \E place \in {"check", "save", "send"} : at' = [at EXCEPT ![w] = place]
  PROVE  DeliveryInv'
<1>1. \A r \in Rows : status'[r] # "absent" => carries'[r] \in Messages
  BY NoNewRow DEF WorkInv
<1>2. WorkInv'
  BY <1>1 DEF WorkInv
<1>3. \A v \in Workers, m \in Messages :
        Sends(v, m)' => Sends(v, m) /\ (at'[v] # "mark" => at[v] # "mark")
  BY DEF Sends, WorkInv
<1>4. CopyInv'
  BY <1>3 DEF CopyInv
<1> QED BY <1>2, <1>4 DEF DeliveryInv

\* HandleFor, step by step: the mark admits one sender, the send ends it.
LEMMA HandleForInv ==
  ASSUME DeliveryInv, OutboxInv, OutboxInv', NEW w \in Workers, HandleFor(w)
  PROVE  DeliveryInv'
<1>0. WorkInv /\ CopyInv
  BY DEF DeliveryInv
<1>1. CASE DedupSelect(w)
  <2>1. CASE \E result : Return(w, result) /\ UNCHANGED excused
    <3>1. UNCHANGED <<carries, nextId, seen, wire, excused>>
      BY <1>1, <2>1, Returns DEF DedupSelect, table
    <3> QED BY <1>0, <2>1, <3>1, Returns, MovesOn
  <2>2. CASE ~\E result : Return(w, result) /\ UNCHANGED excused
    <3>1. /\ at[w] = "dedup" /\ seen[work[w]] # "fresh"
          /\ at' = [at EXCEPT ![w] = "mark"]
          /\ excused' = IF Overlaps(w) THEN excused \cup {work[w]} ELSE excused
          /\ UNCHANGED <<work, carries, nextId, seen, wire>>
      BY <1>1, <2>2 DEF DedupSelect, Goto, Known, vars, table
    <3>2. work[w] \in Messages
      BY <1>0, <3>1 DEF WorkInv
    <3>3. \A r \in Rows : status'[r] # "absent" => carries'[r] \in Messages
      BY <1>0, <3>1, NoNewRow DEF WorkInv
    <3>4. WorkInv'
      BY <1>0, <3>1, <3>3 DEF WorkInv
    <3>5. \A v \in Workers \ {w}, m \in Messages : Sends(v, m)' <=> Sends(v, m)
      BY <1>0, <3>1 DEF Sends, WorkInv
    \* No other sender: one past the mark has left a fresh row, one at the
    \* mark is an overlap.
    <3>6. \A m \in Messages \ excused', v \in Workers \ {w} :
            Sends(w, m)' => ~Sends(v, m) /\ wire[m] = 0
      <4> SUFFICES ASSUME NEW m \in Messages \ excused', NEW v \in Workers \ {w}, Sends(w, m)'
                   PROVE  ~Sends(v, m) /\ wire[m] = 0
        OBVIOUS
      <4>1. m = work[w] /\ ~Overlaps(w) /\ m \notin excused
        BY <1>0, <3>1 DEF Sends, WorkInv
      <4>2. ~(at[v] = "mark" /\ work[v] = m)
        BY <4>1 DEF Overlaps
      <4>3. wire[m] = 0
        BY <1>0, <3>1, <4>1 DEF CopyInv, WorkInv
      <4> QED BY <1>0, <3>1, <4>1, <4>2, <4>3 DEF CopyInv, Sends
    <3>7. \A m \in Messages \ excused' : Sends(w, m)' => wire[m] = 0
      <4> SUFFICES ASSUME NEW m \in Messages \ excused', Sends(w, m)' PROVE wire[m] = 0
        OBVIOUS
      <4>1. m = work[w] /\ m \notin excused
        BY <1>0, <3>1 DEF Sends, WorkInv
      <4> QED BY <1>0, <3>1, <4>1 DEF CopyInv, WorkInv
    <3>8. at'[w] = "mark" /\ (\A v \in Workers \ {w} : at'[v] = at[v]) /\ excused \subseteq excused'
      BY <1>0, <3>1 DEF WorkInv
    <3>9. CopyInv'
      BY <1>0, <3>1, <3>5, <3>6, <3>7, <3>8 DEF CopyInv
    <3> QED BY <3>4, <3>9 DEF DeliveryInv
  <2> QED BY <2>1, <2>2
<1>2. CASE DedupInsert(w)
  <2>1. /\ at[w] = "mark" /\ work[w] \in Messages
        /\ at' = [at EXCEPT ![w] = "guard"] /\ seen' = Marked(work[w])
        /\ UNCHANGED <<work, carries, nextId, wire, excused>>
    BY <1>0, <1>2 DEF DedupInsert, Goto, WorkInv, vars, table
  <2>2. \A r \in Rows : status'[r] # "absent" => carries'[r] \in Messages
    BY <1>0, <2>1, NoNewRow DEF WorkInv
  <2>3. WorkInv'
    BY <1>0, <2>1, <2>2 DEF WorkInv, Marked
  <2>4. \A v \in Workers, m \in Messages : Sends(v, m)' <=> Sends(v, m)
    BY <1>0, <2>1 DEF Sends, WorkInv
  <2>5. \A m \in Messages : seen'[m] = IF m = work[w] /\ seen[m] = "absent" THEN "fresh" ELSE seen[m]
    BY <1>0, <2>1 DEF WorkInv, Marked
  <2>6. \A v \in Workers, m \in Messages :
          Sends(v, m)' /\ at'[v] # "mark" => v = w \/ (Sends(v, m) /\ at[v] # "mark")
    BY <1>0, <2>1, <2>4 DEF WorkInv
  <2>7. \A m \in Messages : Sends(w, m) => m = work[w]
    BY DEF Sends
  <2>8. CopyInv'
    BY <1>0, <2>1, <2>4, <2>5, <2>6, <2>7 DEF CopyInv, WorkInv
  <2> QED BY <2>3, <2>8 DEF DeliveryInv
<1>3. CASE DedupFails(w)
  <2>1. /\ at[w] \in {"dedup", "mark"} /\ work[w] \in Messages
        /\ \E place \in {"mark", "guard"} : at' = [at EXCEPT ![w] = place]
        /\ excused' = excused \cup {work[w]}
        /\ UNCHANGED <<work, carries, nextId, seen, wire>>
    BY <1>0, <1>3 DEF DedupFails, Goto, WorkInv, vars, table
  <2>2. \A r \in Rows : status'[r] # "absent" => carries'[r] \in Messages
    BY <1>0, <2>1, NoNewRow DEF WorkInv
  <2>3. WorkInv'
    BY <1>0, <2>1, <2>2 DEF WorkInv
  <2>4. \A v \in Workers, m \in Messages \ excused' :
          Sends(v, m)' => Sends(v, m) /\ at'[v] = at[v]
    BY <1>0, <2>1 DEF Sends, WorkInv
  <2>5. CopyInv'
    BY <1>0, <2>1, <2>4 DEF CopyInv
  <2> QED BY <2>3, <2>5 DEF DeliveryInv
<1>4. CASE ReadFlag(w) \/ ReadFlagFails(w) \/ CheckAndRecord(w) \/ SaveHistory(w) \/ SaveFails(w)
  <2>1. UNCHANGED <<carries, seen, wire, excused>>
    BY <1>4 DEF ReadFlag, ReadFlagFails, CheckAndRecord, SaveHistory, SaveFails
  <2>2. \/ \E result : Return(w, result)
        \/ /\ at[w] \in {"guard", "check", "save"} /\ work' = work /\ UNCHANGED vars
           /\ \E place \in {"check", "save", "send"} : at' = [at EXCEPT ![w] = place]
    BY <1>4 DEF ReadFlag, ReadFlagFails, CheckAndRecord, SaveHistory, SaveFails, Goto
  <2>3. nextId' = nextId
    BY <2>2, Returns DEF vars, table
  <2> QED BY <1>0, <2>1, <2>2, <2>3, Returns, MovesOn
<1>5. CASE SendOk(w) \/ SendFails(w)
  <2>1. /\ at[w] = "send" /\ work[w] \in Messages
        /\ wire' = wire \/ wire' = [wire EXCEPT ![work[w]] = @ + 1]
        /\ UNCHANGED <<carries, seen, excused>>
        /\ \E result : Return(w, result)
    BY <1>0, <1>5 DEF SendOk, SendFails, Transmit, WorkInv
  <2>2. /\ at' = [at EXCEPT ![w] = "idle"] /\ work' = [work EXCEPT ![w] = NoMessage]
        /\ nextId' = nextId
    BY <2>1, Returns DEF table
  <2>3. \A r \in Rows : status'[r] # "absent" => carries'[r] \in Messages
    BY <1>0, <2>1, <2>2, NoNewRow DEF WorkInv
  <2>4. wire' \in [Messages -> Nat] /\ \A m \in Messages :
          wire'[m] = wire[m] \/ (m = work[w] /\ wire'[m] = wire[m] + 1)
    BY <1>0, <2>1 DEF WorkInv
  <2>5. WorkInv'
    BY <1>0, <2>1, <2>2, <2>3, <2>4 DEF WorkInv
  <2>6. \A v \in Workers, m \in Messages :
          Sends(v, m)' => v # w /\ Sends(v, m) /\ at'[v] = at[v]
    BY <1>0, <2>2 DEF Sends, WorkInv
  <2>7. Sends(w, work[w]) /\ at[w] # "mark"
    BY <2>1 DEF Sends
  <2>8. CopyInv'
    <3> SUFFICES ASSUME NEW m \in Messages \ excused
                 PROVE  /\ wire'[m] <= 1
                        /\ \A v, u \in Workers : Sends(v, m)' /\ Sends(u, m)' => v = u
                        /\ \A v \in Workers : Sends(v, m)' => wire'[m] = 0
                        /\ \A v \in Workers : Sends(v, m)' /\ at'[v] # "mark" => seen[m] = "fresh"
                        /\ wire'[m] > 0 => seen[m] = "fresh"
                        /\ seen[m] # "stale"
      BY <2>1 DEF CopyInv
    <3>1. CASE m = work[w]
      BY <1>0, <2>4, <2>6, <2>7, <3>1 DEF CopyInv, WorkInv
    <3>2. CASE m # work[w]
      BY <1>0, <2>4, <2>6, <3>2 DEF CopyInv
    <3> QED BY <3>1, <3>2
  <2> QED BY <2>5, <2>8 DEF DeliveryInv
<1> QED BY <1>1, <1>2, <1>3, <1>4, <1>5 DEF HandleFor

\* The row of a pass is in the table, and so carries a message.
LEMMA DrainBeginInv ==
  ASSUME DeliveryInv, OutboxInv, OutboxInv', NEW r \in Rows, DrainBegin(r)
  PROVE  DeliveryInv'
<1>0. WorkInv /\ CopyInv
  BY DEF DeliveryInv
<1>1. /\ r \in batch /\ nextId' = nextId /\ at[Drainer] = "idle"
      /\ at' = [at EXCEPT ![Drainer] = "dedup"]
      /\ work' = [work EXCEPT ![Drainer] = carries[r]]
      /\ UNCHANGED <<carries, seen, wire, excused>>
  BY DEF DrainBegin, DrainCall, IsFirst, table
<1>2. carries[r] \in Messages
  BY <1>0, <1>1 DEF OutboxInv, PassInv, WorkInv
<1>3. \A s \in Rows : status'[s] # "absent" => carries'[s] \in Messages
  BY <1>0, <1>1, NoNewRow DEF WorkInv
<1>4. WorkInv'
  BY <1>0, <1>1, <1>2, <1>3 DEF WorkInv
<1>5. \A w \in Workers, m \in Messages : Sends(w, m)' => Sends(w, m) /\ at'[w] = at[w]
  BY <1>0, <1>1 DEF Sends, WorkInv
<1>6. CopyInv'
  BY <1>0, <1>1, <1>5 DEF CopyInv
<1> QED BY <1>4, <1>6 DEF DeliveryInv

\* What the window does to a row excuses its message.
LEMMA WindowInv ==
  ASSUME DeliveryInv, NEW m \in Messages, WindowElapses(m) \/ Purge(m)
  PROVE  DeliveryInv'
<1>0. WorkInv /\ CopyInv
  BY DEF DeliveryInv
<1>1. /\ UNCHANGED <<carries, status, at, work, wire>>
      /\ seen' \in [Messages -> {"absent", "fresh", "stale"}]
      /\ excused \subseteq excused'
      /\ \A n \in Messages : n # m => seen'[n] = seen[n]
      /\ m \in excused' \/ seen[m] = "stale"
  BY <1>0 DEF WindowElapses, Purge, WorkInv, vars, table
<1>2. WorkInv'
  BY <1>0, <1>1 DEF WorkInv
<1>3. m \in excused'
  BY <1>0, <1>1 DEF CopyInv
<1>4. CopyInv'
  BY <1>0, <1>1, <1>3 DEF CopyInv, Sends
<1> QED BY <1>2, <1>4 DEF DeliveryInv

\* The operator switches a flag.
Besides == \E i \in Instances, on \in BOOLEAN : SetSpamguard(i, on)

\* A crash leaves no sender behind.
LEMMA DRestartInv ==
  ASSUME DeliveryInv, NEW k \in Keys \cup {NoKey}, DRestart(k)
  PROVE  DeliveryInv'
<1>0. WorkInv /\ CopyInv
  BY DEF DeliveryInv
<1>1. /\ UNCHANGED <<carries, status, seen, wire, excused>>
      /\ at' = [w \in Workers |-> "idle"] /\ work' = [w \in Workers |-> NoMessage]
  BY DEF DRestart, Restart, table
<1>2. WorkInv'
  BY <1>0, <1>1 DEF WorkInv
<1>3. \A w \in Workers, m \in Messages : ~Sends(w, m)'
  BY <1>1 DEF Sends
<1>4. CopyInv'
  BY <1>0, <1>1, <1>3 DEF CopyInv
<1> QED BY <1>2, <1>4 DEF DeliveryInv

\* The outbox by itself and the operator move no worker and create no row.
LEMMA OutboxStepInv ==
  ASSUME DeliveryInv, OutboxInv, OutboxInv', Besides \/ OutboxStep \/ UNCHANGED dvars
  PROVE  DeliveryInv'
<1>0. WorkInv /\ CopyInv
  BY DEF DeliveryInv
<1>1. UNCHANGED <<carries, at, work, seen, wire, excused>>
  BY DEF Besides, SetSpamguard, OutboxStep, dvars, delivery
<1>2. nextId' = nextId
  BY DEF Besides, SetSpamguard, OutboxStep, DrainSelect, DrainMark, DrainMarkFails, ExpireSelect, ExpireNotify,
         DrainSkip, ExpireMark, ExpireMarkFails, TTLElapses, SetConnected, dvars, vars, table
<1>3. \A r \in Rows : status'[r] # "absent" => carries'[r] \in Messages
  BY <1>0, <1>1, <1>2, NoNewRow DEF WorkInv
<1>4. WorkInv'
  BY <1>0, <1>1, <1>3 DEF WorkInv
<1>5. CopyInv'
  BY <1>0, <1>1 DEF CopyInv, Sends
<1> QED BY <1>4, <1>5 DEF DeliveryInv

\* Both invariants together are inductive.
LEMMA NextDelivery ==
  OutboxInv /\ DeliveryInv /\ [DNext]_dvars => OutboxInv' /\ DeliveryInv'
<1> SUFFICES ASSUME OutboxInv, DeliveryInv, [DNext]_dvars PROVE OutboxInv' /\ DeliveryInv'
  OBVIOUS
<1>1. OutboxInv'
  BY StepOutbox, NextInv DEF DeliveryInv
<1>2. DeliveryInv'
  <2>1. CASE \E h \in Enqueuers : Handler(h)
    BY <1>1, <2>1, HandlerInv
  <2>2. CASE \E w \in Workers : HandleFor(w)
    BY <1>1, <2>2, HandleForInv
  <2>3. CASE \E r \in Rows : DrainBegin(r)
    BY <1>1, <2>3, DrainBeginInv
  <2>4. CASE \E m \in Messages : WindowElapses(m) \/ Purge(m)
    BY <2>4, WindowInv
  <2>5. CASE \E k \in Keys \cup {NoKey} : DRestart(k)
    BY <2>5, DRestartInv
  <2>6. CASE Besides \/ OutboxStep \/ UNCHANGED dvars
    BY <1>1, <2>6, OutboxStepInv
  <2> QED BY <2>1, <2>2, <2>3, <2>4, <2>5, <2>6 DEF DNext, Besides
<1> QED BY <1>1, <1>2

-----------------------------------------------------------------------------
(* Types, claims and histories: the invariants behind the other properties *)

Places == {"idle", "count", "insert", "dedup", "mark", "guard", "check", "save", "send"}
Codes == {200, 202, 422, 500, 503}

\* The handlers and the outbox agree on who counts and who sends.
FlowInv ==
  /\ WorkInv
  /\ \A w \in Workers : at[w] = "idle" <=> work[w] = NoMessage
  /\ given \in [Messages -> Nat] /\ excused \subseteq Messages
  /\ enabled \in [Instances -> BOOLEAN] /\ unguarded \subseteq Messages
  /\ toggles \in 0 .. MaxToggles
  /\ replies \subseteq Messages \X Codes
  /\ posts \in 0 .. MaxPosts /\ dberrs \in 0 .. MaxDbErrors
  /\ \A h \in Enqueuers : counted[h] = IF at[h] = "insert" THEN Home[work[h]] ELSE NoInstance
  /\ phase = "call" <=> at[Drainer] # "idle"
  /\ phase = "call" => work[Drainer] = carries[current]

\* What became of a message that may be claimed delivered.
Accounted(m) == wire[m] > 0 \/ given[m] > 0 \/ Sending(m) \/ faults > 0

\* Whoever says that a message is delivered can account for it: the row of
\* bridge_dedup, the reply 200 and the confirmation to the drainer.
ClaimInv ==
  /\ \A m \in Messages : seen[m] = "fresh" \/ <<m, 200>> \in replies => Accounted(m)
  /\ \A r \in Rows, m \in Messages : oks[r] > 0 /\ carries[r] = m => Accounted(m)

\* HandleFor moves on, or returns: because it knows the message, or with a
\* copy sent or the message given up.
LEMMA HandleForShape ==
  ASSUME FlowInv, NEW w \in Workers, HandleFor(w)
  PROVE  /\ work[w] \in Messages /\ carries' = carries /\ posts' = posts
         /\ dberrs' = dberrs \/ (dberrs < MaxDbErrors /\ dberrs' = dberrs + 1)
         /\ excused' \subseteq Messages
         /\ UNCHANGED <<enabled, toggles>> /\ unguarded' \in {unguarded, unguarded \cup {work[w]}}
         /\ seen' = seen \/ (at[w] = "mark" /\ at' = [at EXCEPT ![w] = "guard"] /\ seen' = Marked(work[w]))
         /\ \/ /\ at[w] \in {"dedup", "mark", "guard", "check", "save"} /\ work' = work
               /\ \E place \in {"mark", "guard", "check", "save", "send"} : at' = [at EXCEPT ![w] = place]
               /\ UNCHANGED <<vars, replies, wire, given>>
            \/ \E result \in {"nil", "blocked", "error"} :
                 /\ Return(w, result) /\ at[w] \in {"dedup", "check", "send"} /\ seen' = seen
                 /\ \/ at[w] = "dedup" /\ seen[work[w]] = "fresh" /\ UNCHANGED <<wire, given>>
                    \/ wire' = [wire EXCEPT ![work[w]] = @ + 1] /\ given' = given
                    \/ /\ given' = [given EXCEPT ![work[w]] = @ + 1]
                       /\ wire' = wire \/ wire' = [wire EXCEPT ![work[w]] = @ + 1]
<1>0. at[w] # "idle" => work[w] \in Messages
  BY DEF FlowInv, WorkInv
<1>1. CASE DedupSelect(w)
  BY <1>0, <1>1 DEF DedupSelect, Goto, Known, flag, bounds, FlowInv
<1>2. CASE DedupInsert(w)
  BY <1>0, <1>2 DEF DedupInsert, Goto, flag, bounds, FlowInv
<1>3. CASE DedupFails(w)
  BY <1>0, <1>3 DEF DedupFails, Goto, flag, bounds, FlowInv
<1>4. CASE ReadFlag(w)
  BY <1>0, <1>4 DEF ReadFlag, Goto, bounds, FlowInv
<1>5. CASE ReadFlagFails(w)
  BY <1>0, <1>5 DEF ReadFlagFails, Goto, bounds, FlowInv
<1>6. CASE CheckAndRecord(w)
  BY <1>0, <1>6 DEF CheckAndRecord, Goto, flag, bounds, FlowInv
<1>7. CASE SaveHistory(w)
  BY <1>0, <1>7 DEF SaveHistory, Goto, flag, bounds, FlowInv
<1>8. CASE SaveFails(w)
  BY <1>0, <1>8 DEF SaveFails, Goto, flag, bounds, FlowInv
<1>9. CASE SendOk(w)
  BY <1>0, <1>9 DEF SendOk, Transmit, flag, bounds, FlowInv
<1>10. CASE SendFails(w)
  BY <1>0, <1>10 DEF SendFails, Transmit, flag, bounds, FlowInv
<1> QED BY <1>1, <1>2, <1>3, <1>4, <1>5, <1>6, <1>7, <1>8, <1>9, <1>10 DEF HandleFor

\* A return is told to whoever called: the outbox, or the client.
LEMMA ReturnShape ==
  ASSUME FlowInv, OutboxInv, NEW w \in Workers, NEW result \in {"nil", "blocked", "error"},
         Return(w, result), work[w] \in Messages
  PROVE  /\ at' = [at EXCEPT ![w] = "idle"] /\ work' = [work EXCEPT ![w] = NoMessage]
         /\ UNCHANGED <<status, nextId, counted, current, faults>>
         /\ \/ /\ w = Drainer /\ phase = "call" /\ phase' # "call" /\ replies' = replies
               /\ current \in Rows
               /\ oks' = oks \/ (result = "nil" /\ oks' = [oks EXCEPT ![current] = @ + 1])
            \/ /\ w # Drainer /\ phase' = phase /\ oks' = oks
               /\ replies' = replies \cup {<<work[w], Code[result]>>} /\ Code[result] \in Codes
<1>1. CASE w = Drainer
  <2>1. DrainReturn(result = "nil") /\ replies' = replies
        /\ at' = [at EXCEPT ![w] = "idle"] /\ work' = [work EXCEPT ![w] = NoMessage]
    BY <1>1 DEF Return
  <2>2. current \in Rows
    BY <2>1 DEF DrainReturn, OutboxInv, PassInv, TypeOK
  <2> QED BY <1>1, <2>1, <2>2 DEF DrainReturn, table
<1>2. CASE w # Drainer
  BY <1>2 DEF Return, Reply, Code, Codes, vars, table, drainer, history
<1> QED BY <1>1, <1>2

\* Who calls: a handler takes a message, or leaves COUNT and INSERT.
LEMMA HandlerShape ==
  ASSUME FlowInv, NEW h \in Enqueuers, Handler(h)
  PROVE  /\ h \in Workers /\ h # Drainer
         /\ UNCHANGED <<phase, current, oks, faults, seen, guard, flag, wire, given, excused, dberrs>>
         /\ posts' = posts \/ (posts < MaxPosts /\ posts' = posts + 1)
         /\ at[h] \in {"idle", "count", "insert"}
         /\ carries' = carries \/ (nextId \in Rows /\ carries' = [carries EXCEPT ![nextId] = work[h]])
         /\ \/ /\ \E m \in Messages : work' = [work EXCEPT ![h] = m]
               /\ \E place \in {"dedup", "count"} : at' = [at EXCEPT ![h] = place]
               /\ at[h] = "idle" /\ UNCHANGED <<counted, replies>>
            \/ /\ at' = [at EXCEPT ![h] = "idle"] /\ work' = [work EXCEPT ![h] = NoMessage]
               /\ work[h] \in Messages
               /\ \E code \in {202, 503} : replies' = replies \cup {<<work[h], code>>}
               /\ \/ at[h] = "insert" /\ counted' = [counted EXCEPT ![h] = NoInstance]
                  \/ at[h] = "count" /\ counted' = counted
            \/ /\ at[h] = "count" /\ at' = [at EXCEPT ![h] = "insert"] /\ UNCHANGED <<work, replies>>
               /\ counted' = [counted EXCEPT ![h] = Home[work[h]]]
            \/ /\ at' = [at EXCEPT ![h] = "dedup"] /\ UNCHANGED <<work, replies>>
               /\ \/ at[h] = "insert" /\ counted' = [counted EXCEPT ![h] = NoInstance]
                  \/ at[h] = "count" /\ counted' = counted
<1>0. h \in Workers /\ h # Drainer /\ (at[h] # "idle" => work[h] \in Messages)
  BY DeliveryAssumption DEF Workers, FlowInv, WorkInv
<1>1. CASE \E m \in Messages : Post(h, m)
  BY <1>0, <1>1 DEF Post, vars, drainer, history, guard
<1>2. CASE QueueFull(h)
  BY <1>0, <1>2 DEF QueueFull, Reply, vars, drainer, history, guard, bounds
<1>3. CASE QueueCount(h)
  BY <1>0, <1>3 DEF QueueCount, Goto, EnqueueCount, drainer, history, guard, bounds
<1>4. CASE QueueInsert(h)
  BY <1>0, <1>4 DEF QueueInsert, Reply, EnqueueInsert, drainer, history, guard, bounds
<1>5. CASE QueueFails(h)
  BY <1>0, <1>5 DEF QueueFails, Goto, EnqueueAbort, vars, drainer, history, guard, bounds
<1> QED BY <1>1, <1>2, <1>3, <1>4, <1>5 DEF Handler

\* At first nothing is claimed, and nothing is under way.
LEMMA InitFlow == DInit => FlowInv /\ ClaimInv
<1> SUFFICES ASSUME DInit PROVE FlowInv /\ ClaimInv
  OBVIOUS
<1>1. WorkInv
  BY InitDelivery DEF DeliveryInv
<1>2. Drainer \in Workers
  BY DEF Workers
<1>3. FlowInv
  BY <1>1, <1>2, DeliveryAssumption DEF DInit, Init, FlowInv, Workers
<1>4. ClaimInv
  BY DEF DInit, Init, ClaimInv
<1> QED BY <1>3, <1>4

\* A handler only moves itself, and never a worker that may send.
LEMMA HandlerFlow ==
  ASSUME FlowInv, WorkInv', OutboxInv, NEW h \in Enqueuers, Handler(h)
  PROVE  FlowInv'
<1>1. Drainer \in Workers /\ Enqueuers \subseteq Workers /\ NoMessage \notin Messages /\ MaxPosts \in Nat
  BY DeliveryAssumption DEF Workers
<1>2. /\ at \in [Workers -> Places] /\ work \in [Workers -> Messages \cup {NoMessage}]
      /\ counted \in [Enqueuers -> Instances \cup {NoInstance}]
      /\ carries \in [Rows -> Messages \cup {NoMessage}]
  BY DEF FlowInv, WorkInv, Places, OutboxInv, TypeOK
<1>3. \A w \in Workers : at'[w] = "idle" <=> work'[w] = NoMessage
  BY <1>1, <1>2, HandlerShape DEF FlowInv
<1>4. given' \in [Messages -> Nat] /\ excused' \subseteq Messages /\ dberrs' \in 0 .. MaxDbErrors
      /\ enabled' \in [Instances -> BOOLEAN] /\ unguarded' \subseteq Messages
      /\ toggles' \in 0 .. MaxToggles /\ posts' \in 0 .. MaxPosts
  BY <1>1, HandlerShape DEF FlowInv, flag
<1>5. replies' \subseteq Messages \X Codes
  BY <1>1, HandlerShape DEF FlowInv, Codes
<1>6. \A g \in Enqueuers : counted'[g] = IF at'[g] = "insert" THEN Home[work'[g]] ELSE NoInstance
  BY <1>1, <1>2, HandlerShape DEF FlowInv
<1>7. phase' = phase /\ current' = current /\ at'[Drainer] = at[Drainer] /\ work'[Drainer] = work[Drainer]
  BY <1>1, <1>2, HandlerShape
<1>8. phase' = "call" => work'[Drainer] = carries'[current']
  <2> SUFFICES ASSUME phase = "call" PROVE work[Drainer] = carries'[current]
    BY <1>7
  <2>1. current \in Rows /\ current # nextId
    BY DEF OutboxInv, TypeOK, PassInv, TableInv, Rows, NoRow
  <2> QED BY <1>2, <2>1, HandlerShape DEF FlowInv
<1> QED BY <1>3, <1>4, <1>5, <1>6, <1>7, <1>8 DEF FlowInv

\* Nor does HandleFor move another worker than its own.
LEMMA HandleForFlow ==
  ASSUME FlowInv, WorkInv', OutboxInv, NEW w \in Workers, HandleFor(w)
  PROVE  FlowInv'
<1>1. Drainer \in Workers /\ Enqueuers \subseteq Workers /\ NoMessage \notin Messages /\ MaxDbErrors \in Nat
  BY DeliveryAssumption DEF Workers
<1>2. /\ at \in [Workers -> Places] /\ work \in [Workers -> Messages \cup {NoMessage}]
      /\ work[w] \in Messages /\ given \in [Messages -> Nat]
  BY HandleForShape DEF FlowInv, WorkInv, Places
<1>3. excused' \subseteq Messages /\ dberrs' \in 0 .. MaxDbErrors /\ posts' \in 0 .. MaxPosts /\ carries' = carries
      /\ enabled' \in [Instances -> BOOLEAN] /\ unguarded' \subseteq Messages
      /\ toggles' \in 0 .. MaxToggles
  BY <1>1, <1>2, HandleForShape DEF FlowInv
<1>4. CASE /\ at[w] \in {"dedup", "mark", "guard", "check", "save"} /\ work' = work
           /\ \E place \in {"mark", "guard", "check", "save", "send"} : at' = [at EXCEPT ![w] = place]
           /\ UNCHANGED <<vars, replies, wire, given>>
  <2>1. UNCHANGED <<counted, phase, current>>
    BY <1>4 DEF vars, drainer
  <2> QED BY <1>1, <1>2, <1>3, <1>4, <2>1 DEF FlowInv
<1>5. ASSUME NEW result \in {"nil", "blocked", "error"}, Return(w, result),
             at[w] \in {"dedup", "check", "send"},
             given' = given \/ given' = [given EXCEPT ![work[w]] = @ + 1]
      PROVE  FlowInv'
  <2>1. /\ at' = [at EXCEPT ![w] = "idle"] /\ work' = [work EXCEPT ![w] = NoMessage]
        /\ UNCHANGED <<counted, current>>
    BY <1>2, <1>5, ReturnShape
  <2>2. \A v \in Workers : at'[v] = "idle" <=> work'[v] = NoMessage
    BY <1>1, <1>2, <2>1 DEF FlowInv
  <2>3. given' \in [Messages -> Nat]
    BY <1>2, <1>5
  <2>4. replies' \subseteq Messages \X Codes
    BY <1>2, <1>5, ReturnShape DEF FlowInv
  <2>5. \A g \in Enqueuers : counted'[g] = IF at'[g] = "insert" THEN Home[work'[g]] ELSE NoInstance
    BY <1>1, <1>2, <1>5, <2>1 DEF FlowInv
  <2>6. /\ phase' = "call" <=> at'[Drainer] # "idle"
        /\ phase' = "call" => work'[Drainer] = carries'[current']
    BY <1>1, <1>2, <1>3, <1>5, <2>1, ReturnShape DEF FlowInv
  <2> QED BY <1>3, <2>2, <2>3, <2>4, <2>5, <2>6 DEF FlowInv
<1> QED BY <1>4, <1>5, HandleForShape

\* The outbox by itself neither calls nor returns; a crash ends every call.
LEMMA OtherFlow ==
  ASSUME FlowInv, WorkInv', OutboxInv,
         \/ \E r \in Rows : DrainBegin(r)
         \/ \E m \in Messages : WindowElapses(m) \/ Purge(m)
         \/ \E k \in Keys \cup {NoKey} : DRestart(k)
         \/ Besides \/ OutboxStep \/ UNCHANGED dvars
  PROVE  FlowInv'
<1>1. Drainer \in Workers /\ Drainer \notin Enqueuers /\ Enqueuers \subseteq Workers /\ NoMessage \notin Messages
  BY DeliveryAssumption DEF Workers
<1>2. at \in [Workers -> Places] /\ work \in [Workers -> Messages \cup {NoMessage}]
  BY DEF FlowInv, WorkInv, Places
<1>3. ASSUME NEW r \in Rows, DrainBegin(r) PROVE FlowInv'
  <2>1. /\ at' = [at EXCEPT ![Drainer] = "dedup"] /\ work' = [work EXCEPT ![Drainer] = carries[r]]
        /\ phase' = "call" /\ current' = r /\ status[r] # "absent"
        /\ UNCHANGED <<carries, counted, flag, posts, dberrs, given, replies, excused>>
    BY <1>3 DEF DrainBegin, DrainCall, IsFirst, OutboxInv, PassInv, bounds
  <2>2. carries[r] \in Messages
    BY <2>1 DEF FlowInv, WorkInv
  <2> QED BY <1>1, <1>2, <2>1, <2>2 DEF FlowInv, flag
<1>4. ASSUME NEW m \in Messages, WindowElapses(m) \/ Purge(m) PROVE FlowInv'
  <2>1. UNCHANGED <<carries, at, work, counted, phase, current, flag, posts, dberrs, given, replies>>
        /\ excused' \subseteq Messages
    BY <1>4 DEF WindowElapses, Purge, vars, drainer, bounds, FlowInv
  <2> QED BY <2>1 DEF FlowInv, flag
<1>5. ASSUME NEW k \in Keys \cup {NoKey}, DRestart(k) PROVE FlowInv'
  BY <1>1, <1>5 DEF DRestart, Restart, FlowInv, flag, bounds
<1>6. CASE OutboxStep
  <2>1. UNCHANGED <<carries, at, work, flag, posts, dberrs, given, replies, excused>>
    BY <1>6 DEF OutboxStep, delivery, bounds
  <2>2. /\ counted' = counted
        /\ phase' = "call" <=> phase = "call"
        /\ phase' = "call" => current' = current
    BY <1>6 DEF OutboxStep, DrainSelect, DrainMark, DrainMarkFails, ExpireSelect, ExpireNotify,
                DrainSkip, ExpireMark, ExpireMarkFails, TTLElapses, SetConnected, WriteResult, Advance,
                drainer
  <2> QED BY <2>1, <2>2 DEF FlowInv, flag
<1>7. CASE UNCHANGED dvars
  BY <1>7 DEF dvars, delivery, flag, bounds, vars, drainer, FlowInv
<1>8. CASE Besides
  BY <1>8, DeliveryAssumption DEF Besides, SetSpamguard, bounds, vars, drainer, FlowInv
<1> QED BY <1>3, <1>4, <1>5, <1>6, <1>7, <1>8

\* What accounts for a message keeps doing so: a sender leaves a copy, a
\* message given up, or a crash.
LEMMA AccountedStays ==
  ASSUME FlowInv, OutboxInv, [DNext]_dvars, NEW m \in Messages, Accounted(m)
  PROVE  Accounted(m)'
<1>0. /\ at \in [Workers -> Places] /\ work \in [Workers -> Messages \cup {NoMessage}]
      /\ wire \in [Messages -> Nat] /\ given \in [Messages -> Nat] /\ faults \in Nat
  BY DEF FlowInv, WorkInv, Places, OutboxInv, TypeOK
<1>1. ASSUME NEW h \in Enqueuers, Handler(h) PROVE Accounted(m)'
  <2>1. ASSUME NEW w \in Workers, Sends(w, m) PROVE Sends(w, m)'
    <3>1. at[w] \notin {"idle", "count", "insert"} /\ w # h
      BY <1>1, <2>1, HandlerShape DEF Sends
    <3>2. at'[w] = at[w] /\ work'[w] = work[w]
      BY <1>0, <1>1, <3>1, HandlerShape
    <3> QED BY <2>1, <3>2 DEF Sends
  <2>2. UNCHANGED <<wire, given, faults>>
    BY <1>1, HandlerShape
  <2> QED BY <2>1, <2>2 DEF Accounted, Sending
<1>2. ASSUME NEW w \in Workers, HandleFor(w) PROVE Accounted(m)'
  <2>0. work[w] \in Messages
    BY <1>2, HandleForShape
  <2>1. CASE /\ at[w] \in {"dedup", "mark", "guard", "check", "save"} /\ work' = work
             /\ \E place \in {"mark", "guard", "check", "save", "send"} : at' = [at EXCEPT ![w] = place]
             /\ UNCHANGED <<vars, replies, wire, given>>
    <3>1. \A v \in Workers : Sends(v, m) => Sends(v, m)'
      BY <1>0, <2>1 DEF Sends
    <3> QED BY <2>1, <3>1 DEF Accounted, Sending, vars, history
  <2>2. ASSUME NEW result \in {"nil", "blocked", "error"}, Return(w, result),
               at[w] \in {"dedup", "check", "send"},
               \/ at[w] = "dedup" /\ UNCHANGED <<wire, given>>
               \/ wire' = [wire EXCEPT ![work[w]] = @ + 1] /\ given' = given
               \/ /\ given' = [given EXCEPT ![work[w]] = @ + 1]
                  /\ wire' = wire \/ wire' = [wire EXCEPT ![work[w]] = @ + 1]
        PROVE  Accounted(m)'
    <3>1. /\ at' = [at EXCEPT ![w] = "idle"] /\ work' = [work EXCEPT ![w] = NoMessage]
          /\ faults' = faults
      BY <2>0, <2>2, ReturnShape
    <3>2. \A v \in Workers \ {w} : Sends(v, m) => Sends(v, m)'
      BY <1>0, <3>1 DEF Sends
    <3>3. wire'[m] >= wire[m] /\ given'[m] >= given[m] /\ wire'[m] \in Nat /\ given'[m] \in Nat
      BY <1>0, <2>0, <2>2
    <3>4. Sends(w, m) => wire'[m] > 0 \/ given'[m] > 0
      BY <1>0, <2>0, <2>2 DEF Sends
    <3>5. wire[m] > 0 => wire'[m] > 0
      BY <1>0, <3>3
    <3>6. given[m] > 0 => given'[m] > 0
      BY <1>0, <3>3
    <3> QED BY <3>1, <3>2, <3>4, <3>5, <3>6 DEF Accounted, Sending
  <2> QED BY <1>2, <2>1, <2>2, HandleForShape
<1>3. ASSUME NEW r \in Rows, DrainBegin(r) PROVE Accounted(m)'
  <2>1. /\ at[Drainer] = "idle" /\ UNCHANGED <<wire, given, faults>>
        /\ \A v \in Workers : v # Drainer => at'[v] = at[v] /\ work'[v] = work[v]
    BY <1>0, <1>3 DEF DrainBegin, DrainCall, history
  <2>2. \A v \in Workers : Sends(v, m) => Sends(v, m)'
    BY <2>1 DEF Sends
  <2> QED BY <2>1, <2>2 DEF Accounted, Sending
<1>4. CASE \E n \in Messages : WindowElapses(n) \/ Purge(n)
  BY <1>4 DEF WindowElapses, Purge, vars, history, Accounted, Sending, Sends
<1>5. CASE \E k \in Keys \cup {NoKey} : DRestart(k)
  BY <1>0, <1>5 DEF DRestart, Restart, Accounted
<1>6. CASE Besides \/ OutboxStep \/ UNCHANGED dvars
  <2>1. UNCHANGED <<at, work, wire, given>>
    BY <1>6 DEF Besides, SetSpamguard, OutboxStep, delivery, dvars
  <2>2. faults' = faults \/ faults' = faults + 1
    BY <1>6 DEF Besides, SetSpamguard, OutboxStep, DrainSelect, DrainMark, DrainMarkFails, ExpireSelect, ExpireNotify,
                DrainSkip, ExpireMark, ExpireMarkFails, TTLElapses, SetConnected, history, dvars, vars
  <2> QED BY <1>0, <2>1, <2>2 DEF Accounted, Sending, Sends
<1> QED BY <1>1, <1>2, <1>3, <1>4, <1>5, <1>6 DEF DNext, Besides

\* A new claim is made by a worker that has sent the message, given it up, or
\* found the row another one left.
LEMMA ClaimStep ==
  ASSUME FlowInv, OutboxInv, ClaimInv, [DNext]_dvars
  PROVE  ClaimInv'
<1>0. /\ at \in [Workers -> Places] /\ work \in [Workers -> Messages \cup {NoMessage}]
      /\ wire \in [Messages -> Nat] /\ given \in [Messages -> Nat] /\ seen \in [Messages -> {"absent", "fresh", "stale"}]
      /\ oks \in [Rows -> Nat] /\ carries \in [Rows -> Messages \cup {NoMessage}]
  BY DEF FlowInv, WorkInv, Places, OutboxInv, TypeOK
<1>1. \A m \in Messages : Accounted(m) => Accounted(m)'
  BY AccountedStays
<1>2. ASSUME \A m \in Messages : seen'[m] = "fresh" => seen[m] = "fresh" \/ Accounted(m)',
             \A m \in Messages : <<m, 200>> \in replies' => <<m, 200>> \in replies \/ Accounted(m)',
             \A r \in Rows : oks'[r] > 0 =>
               \/ oks[r] > 0 /\ (carries'[r] = carries[r] \/ status[r] = "absent")
               \/ \A m \in Messages : carries'[r] = m => Accounted(m)'
      PROVE  ClaimInv'
  <2>1. \A r \in Rows : oks[r] > 0 => status[r] # "absent"
    BY DEF OutboxInv, TableInv
  <2>2. \A r \in Rows, m \in Messages : oks'[r] > 0 /\ carries'[r] = m => Accounted(m)'
    BY <1>1, <1>2, <2>1 DEF ClaimInv
  <2>3. \A m \in Messages : seen'[m] = "fresh" \/ <<m, 200>> \in replies' => Accounted(m)'
    BY <1>1, <1>2 DEF ClaimInv
  <2> QED BY <2>2, <2>3 DEF ClaimInv
<1>3. ASSUME NEW h \in Enqueuers, Handler(h) PROVE ClaimInv'
  <2>1. oks' = oks /\ seen' = seen
    BY <1>3, HandlerShape
  <2>2. \A m \in Messages : <<m, 200>> \in replies' => <<m, 200>> \in replies
    BY <1>3, HandlerShape
  <2>3. \A r \in Rows : carries'[r] = carries[r] \/ status[r] = "absent"
    <3>1. carries' = carries \/ (nextId \in Rows /\ carries' = [carries EXCEPT ![nextId] = work[h]])
      BY <1>3, HandlerShape
    <3>2. nextId \in Rows => status[nextId] = "absent"
      BY DEF OutboxInv, TableInv, TypeOK, Rows
    <3> QED BY <1>0, <3>1, <3>2
  <2> QED BY <1>2, <2>1, <2>2, <2>3
<1>4. ASSUME NEW w \in Workers, HandleFor(w) PROVE ClaimInv'
  <2>0. work[w] \in Messages /\ carries' = carries
    BY <1>4, HandleForShape
  <2>1. CASE /\ at[w] \in {"dedup", "mark", "guard", "check", "save"} /\ work' = work
             /\ \E place \in {"mark", "guard", "check", "save", "send"} : at' = [at EXCEPT ![w] = place]
             /\ UNCHANGED <<vars, replies, wire, given>>
    <3>1. oks' = oks /\ replies' = replies
      BY <2>1 DEF vars, history
    <3>2. \A m \in Messages : seen'[m] = "fresh" => seen[m] = "fresh" \/ (m = work[w] /\ at[w] = "mark" /\ at'[w] = "guard")
      BY <1>0, <1>4, <2>0, HandleForShape DEF Marked
    <3>3. at[w] = "mark" /\ at'[w] = "guard" => Sends(w, work[w])'
      BY <2>1 DEF Sends
    <3>4. \A m \in Messages : m = work[w] /\ Sends(w, work[w])' => Accounted(m)'
      BY <2>1 DEF Accounted, Sending, Sends
    <3> QED BY <1>2, <2>0, <3>1, <3>2, <3>3, <3>4
  <2>2. ASSUME NEW result \in {"nil", "blocked", "error"}, Return(w, result), seen' = seen,
               \/ at[w] = "dedup" /\ seen[work[w]] = "fresh" /\ UNCHANGED <<wire, given>>
               \/ wire' = [wire EXCEPT ![work[w]] = @ + 1] /\ given' = given
               \/ /\ given' = [given EXCEPT ![work[w]] = @ + 1]
                  /\ wire' = wire \/ wire' = [wire EXCEPT ![work[w]] = @ + 1]
        PROVE  ClaimInv'
    <3>1. \A m \in Messages : m = work[w] => Accounted(m)'
      <4>1. CASE seen[work[w]] = "fresh"
        BY <1>1, <2>0, <4>1 DEF ClaimInv
      <4>2. CASE wire' = [wire EXCEPT ![work[w]] = @ + 1]
        BY <1>0, <2>0, <4>2 DEF Accounted
      <4>3. CASE given' = [given EXCEPT ![work[w]] = @ + 1]
        BY <1>0, <2>0, <4>3 DEF Accounted
      <4> QED BY <2>2, <4>1, <4>2, <4>3
    <3>2. CASE w = Drainer
      <4>1. replies' = replies /\ current \in Rows /\ work[w] = carries[current]
            /\ (oks' = oks \/ oks' = [oks EXCEPT ![current] = @ + 1])
        BY <2>0, <2>2, <3>2, ReturnShape DEF FlowInv
      <4>2. \A r \in Rows : oks'[r] > 0 => oks[r] > 0 \/ carries[r] = work[w]
        BY <1>0, <4>1
      <4> QED BY <1>2, <2>0, <2>2, <3>1, <4>1, <4>2
    <3>3. CASE w # Drainer
      <4>1. oks' = oks /\ replies' = replies \cup {<<work[w], Code[result]>>}
        BY <2>0, <2>2, <3>3, ReturnShape
      <4>2. \A m \in Messages : <<m, 200>> \in replies' => <<m, 200>> \in replies \/ m = work[w]
        BY <4>1
      <4> QED BY <1>2, <2>0, <2>2, <3>1, <4>1, <4>2
    <3> QED BY <3>2, <3>3
  <2> QED BY <1>4, <2>1, <2>2, HandleForShape
<1>5. CASE \/ \E r \in Rows : DrainBegin(r)
           \/ \E k \in Keys \cup {NoKey} : DRestart(k)
           \/ Besides \/ OutboxStep \/ UNCHANGED dvars
  <2>1. UNCHANGED <<seen, replies, carries>>
    BY <1>5 DEF DrainBegin, DRestart, Besides, SetSpamguard, OutboxStep, delivery, dvars
  <2>2. oks' = oks
    BY <1>5 DEF Besides, SetSpamguard, DrainBegin, DrainCall, DRestart, Restart, OutboxStep, DrainSelect, DrainMark, DrainMarkFails,
                ExpireSelect, ExpireNotify, DrainSkip, ExpireMark, ExpireMarkFails, TTLElapses,
                SetConnected, history, dvars, vars
  <2> QED BY <1>2, <2>1, <2>2
<1>6. ASSUME NEW n \in Messages, WindowElapses(n) \/ Purge(n) PROVE ClaimInv'
  <2>1. UNCHANGED <<replies, carries, oks>>
    BY <1>6 DEF WindowElapses, Purge, vars, history
  <2>2. \A m \in Messages : seen'[m] = "fresh" => seen[m] = "fresh"
    BY <1>0, <1>6 DEF WindowElapses, Purge
  <2> QED BY <1>2, <2>1, <2>2
<1> QED BY <1>3, <1>4, <1>5, <1>6 DEF DNext, Besides

-----------------------------------------------------------------------------
(* The histories of the spamguard *)

AllTexts == {Content[m] : m \in Messages}
Histories == {h \in Seq(AllTexts) : Len(h) <= 2}

\* The message has passed the guard, or a copy of it is out.
Past(m) == wire[m] > 0 \/ \E w \in Workers : work[w] = m /\ at[w] \in {"save", "send"}

\* The guard has not let m go by unseen, and the contact has two texts at most.
Judged(m) == faults = 0 /\ m \notin unguarded /\ Cardinality(Texts(Home[m])) <= 2

HistoryInv ==
  /\ recent \in [Instances -> Histories] /\ saved \in [Instances -> Histories]
  /\ saving \in [Workers -> Histories]
  /\ \A w \in Workers : saving[w] # <<>> <=> at[w] = "save"
  /\ \A w \in Workers : at[w] = "check" => Content[work[w]] # NoText
  /\ faults = 0 => \A i \in Instances :
       /\ \A k \in DOMAIN recent[i] : recent[i][k] \in Texts(i)
       /\ Len(recent[i]) = 2 => recent[i][1] # recent[i][2]

\* The text of a message that has passed is in the history, and no other
\* message with that text has passed.
PastInv ==
  \A m \in Messages : Judged(m) /\ Past(m) =>
    /\ Repeats(Home[m], Content[m])
    /\ \A n \in Messages \ unguarded :
         Past(n) /\ Home[n] = Home[m] /\ Content[n] = Content[m] => n = m

\* What Remember makes of the history of a contact; the others keep theirs.
LEMMA Remembered ==
  ASSUME recent \in [Instances -> Histories], NEW i \in Instances, NEW c \in AllTexts,
         recent' = Remember(i, c)
  PROVE  /\ recent' \in [Instances -> Histories]
         /\ \A j \in Instances \ {i} : recent'[j] = recent[j]
         /\ Len(recent'[i]) = (IF recent[i] = <<>> THEN 1 ELSE 2)
         /\ DOMAIN recent'[i] = 1 .. Len(recent'[i]) /\ recent'[i][1] = c
         /\ recent[i] # <<>> => recent'[i][2] = recent[i][1]
<1>1. PICK r : r = SubSeq(<<c>> \o recent[i], 1, IF recent[i] = <<>> THEN 1 ELSE 2)
  OBVIOUS
<1>2. recent' = [recent EXCEPT ![i] = r]
  BY <1>1 DEF Remember
<1>3. recent[i] \in Histories
  OBVIOUS
<1>4. /\ r \in Histories /\ Len(r) = (IF recent[i] = <<>> THEN 1 ELSE 2)
      /\ DOMAIN r = 1 .. Len(r) /\ r[1] = c /\ (recent[i] # <<>> => r[2] = recent[i][1])
  <2> DEFINE h == recent[i]
             n == IF h = <<>> THEN 1 ELSE 2
             s == <<c>> \o h
  <2>1. h \in Seq(AllTexts) /\ Len(h) \in Nat /\ (h # <<>> => Len(h) >= 1) /\ (h = <<>> => Len(h) = 0)
    BY <1>3, EmptySeq DEF Histories
  <2>2. <<c>> \in Seq(AllTexts) /\ Len(<<c>>) = 1 /\ <<c>>[1] = c
    OBVIOUS
  <2>3. r = SubSeq(s, 1, n)
    BY <1>1
  <2> HIDE DEF h
  <2>4. /\ s \in Seq(AllTexts) /\ Len(s) = 1 + Len(h)
        /\ \A k \in 1 .. 1 + Len(h) : s[k] = IF k <= 1 THEN <<c>>[k] ELSE h[k - 1]
    BY <2>1, <2>2, ConcatProperties
  <2> HIDE DEF s
  <2>5. n \in Int /\ 1 <= n /\ n <= 2 /\ n <= Len(s) /\ \A k \in 1 .. n : s[k] \in AllTexts
    BY <2>1, <2>4
  <2> HIDE DEF n
  <2>6. r \in Seq(AllTexts) /\ Len(r) = n /\ \A k \in 1 .. n : r[k] = s[k]
    <3>1. /\ SubSeq(s, 1, n) \in Seq(AllTexts)
          /\ Len(SubSeq(s, 1, n)) = IF 1 <= n THEN n - 1 + 1 ELSE 0
          /\ \A k \in 1 .. n - 1 + 1 : SubSeq(s, 1, n)[k] = s[1 + k - 1]
      BY <2>5, SubSeqProperties
    <3> QED BY <2>3, <2>5, <3>1
  <2>7. r[1] = c /\ (h # <<>> => r[2] = h[1])
    BY <2>1, <2>2, <2>4, <2>5, <2>6 DEF n
  <2>8. r \in Histories /\ DOMAIN r = 1 .. Len(r)
    BY <2>5, <2>6 DEF Histories
  <2>9. Len(r) = (IF h = <<>> THEN 1 ELSE 2)
    BY <2>6 DEF n
  <2> QED BY <2>7, <2>8, <2>9 DEF h
<1> QED BY <1>2, <1>4

\* Three different texts are more than two.
LEMMA ThreeTexts ==
  ASSUME NEW i \in Instances, Cardinality(Texts(i)) <= 2, NEW a \in Texts(i), NEW b \in Texts(i), NEW c \in Texts(i)
  PROVE  a = b \/ a = c \/ b = c
<1>1. IsFiniteSet(Texts(i))
  <2>1. IsFiniteSet({n \in Messages : Home[n] = i})
    BY DeliveryAssumption, FS_Subset
  <2>2. IsFiniteSet({Content[m] : m \in {n \in Messages : Home[n] = i}})
    <3> DEFINE S == {n \in Messages : Home[n] = i}
               T == {Content[m] : m \in S}
               f == [m \in S |-> Content[m]]
    <3>1. f \in Surjection(S, T)
      BY DEF Surjection
    <3> HIDE DEF f
    <3> QED BY <2>1, <3>1, FS_Surjection
  <2> QED BY <2>2, FS_Subset DEF Texts
<1> SUFFICES ASSUME a # b, a # c, b # c PROVE FALSE
  OBVIOUS
<1> DEFINE two == {a} \cup {b}
           three == two \cup {c}
<1>2. IsFiniteSet({a}) /\ Cardinality({a}) = 1
  BY <1>1, FS_Singleton
<1>3. IsFiniteSet(two) /\ Cardinality(two) = 2
  <2> DEFINE one == {a}
  <2>1. IsFiniteSet(one) /\ Cardinality(one) = 1 /\ b \notin one
    BY <1>2
  <2> HIDE DEF one
  <2>2. Cardinality(one \cup {b}) = Cardinality(one) + 1
    BY ONLY <2>1, FS_AddElement
  <2>3. IsFiniteSet(one \cup {b})
    BY ONLY <2>1, FS_AddElement
  <2> QED BY <2>1, <2>2, <2>3 DEF one
<1>4. c \notin two /\ three \subseteq Texts(i)
  OBVIOUS
<1> HIDE DEF two
<1>5. Cardinality(three) = 3
  <2>1. Cardinality(two \cup {c}) = Cardinality(two) + 1
    BY ONLY <1>3, <1>4, FS_AddElement
  <2> QED BY <1>3, <2>1
<1> HIDE DEF three
<1>6. Cardinality(three) <= Cardinality(Texts(i))
  BY <1>1, <1>4, FS_Subset
<1>7. Cardinality(Texts(i)) \in Nat
  BY <1>1, FS_CardinalityType
<1> QED BY <1>5, <1>6, <1>7

\* HandleFor records a text and saves the history, has nothing to record, or
\* leaves the guard alone.
LEMMA GuardShape ==
  ASSUME FlowInv, NEW w \in Workers, HandleFor(w)
  PROVE  /\ work[w] \in Messages /\ (faults' = 0 => faults = 0)
         /\ unguarded \subseteq unguarded'
         /\ \/ /\ at[w] = "check" /\ at' = [at EXCEPT ![w] = "save"] /\ work' = work /\ wire' = wire
               /\ unguarded' = unguarded /\ ~Repeats(Home[work[w]], Content[work[w]])
               /\ recent' = Remember(Home[work[w]], Content[work[w]]) /\ saved' = saved
               /\ saving' = [saving EXCEPT ![w] = recent'[Home[work[w]]]]
            \/ /\ at[w] = "save" /\ at' = [at EXCEPT ![w] = "send"] /\ work' = work /\ wire' = wire
               /\ recent' = recent /\ saving' = [saving EXCEPT ![w] = <<>>]
               /\ saved' = saved \/ saved' = [saved EXCEPT ![Home[work[w]]] = saving[w]]
            \/ /\ at[w] = "guard" /\ at' = [at EXCEPT ![w] = "send"] /\ work' = work /\ wire' = wire
               /\ work[w] \in unguarded' /\ UNCHANGED guard
            \/ /\ at[w] = "guard" /\ at' = [at EXCEPT ![w] = "check"] /\ work' = work /\ wire' = wire
               /\ Content[work[w]] # NoText /\ UNCHANGED <<guard, unguarded>>
            \/ /\ at[w] \notin {"guard", "save"} /\ UNCHANGED <<guard, unguarded>>
               /\ \E place \in {"mark", "guard", "idle"} : at' = [at EXCEPT ![w] = place]
               /\ work' = work \/ work' = [work EXCEPT ![w] = NoMessage]
               /\ wire' = wire \/ (at[w] = "send" /\ wire' = [wire EXCEPT ![work[w]] = @ + 1])
<1>0. /\ at[w] # "idle" => work[w] \in Messages
      /\ \A result : Return(w, result) =>
           /\ at' = [at EXCEPT ![w] = "idle"] /\ work' = [work EXCEPT ![w] = NoMessage]
           /\ faults' = faults
  BY Returns DEF FlowInv, WorkInv, DrainReturn, vars, history
<1>1. CASE DedupSelect(w)
  BY <1>0, <1>1 DEF DedupSelect, Goto, vars, history, flag
<1>2. CASE DedupInsert(w) \/ DedupFails(w)
  BY <1>0, <1>2 DEF DedupInsert, DedupFails, Goto, vars, history, flag
<1>3. CASE CheckAndRecord(w)
  BY <1>0, <1>3 DEF CheckAndRecord, Goto, vars, history, guard, flag
<1>4. CASE SaveHistory(w) \/ SaveFails(w)
  BY <1>0, <1>4 DEF SaveHistory, SaveFails, Goto, vars, history, flag
<1>5. CASE SendOk(w) \/ SendFails(w)
  BY <1>0, <1>5 DEF SendOk, SendFails, Transmit, flag
<1>6. CASE ReadFlag(w) \/ ReadFlagFails(w)
  BY <1>0, <1>6 DEF ReadFlag, ReadFlagFails, Goto, vars, history, guard
<1> QED BY <1>1, <1>2, <1>3, <1>4, <1>5, <1>6 DEF HandleFor

\* Neither before the guard's history nor past it.
Outside(place) == place \notin {"check", "save", "send"}

\* The other steps leave the guard alone and send nothing, or are a crash.
LEMMA QuietShape ==
  ASSUME FlowInv, OutboxInv, [DNext]_dvars, ~\E w \in Workers : HandleFor(w)
  PROVE  \/ /\ UNCHANGED <<guard, wire, unguarded>> /\ (faults' = 0 => faults = 0)
            /\ \A w \in Workers :
                 \/ at'[w] = at[w] /\ work'[w] = work[w]
                 \/ Outside(at[w]) /\ Outside(at'[w])
         \/ /\ faults' # 0 /\ saved' = saved /\ wire' = wire
            /\ recent' \in {saved, [i \in Instances |-> <<>>]}
            /\ saving' = [w \in Workers |-> <<>>] /\ at' = [w \in Workers |-> "idle"]
<1>0. /\ at \in [Workers -> Places] /\ work \in [Workers -> Messages \cup {NoMessage}]
      /\ faults \in Nat
  BY DEF FlowInv, WorkInv, Places, OutboxInv, TypeOK
<1>1. ASSUME NEW h \in Enqueuers, Handler(h)
      PROVE  /\ UNCHANGED <<guard, wire, unguarded>> /\ (faults' = 0 => faults = 0)
             /\ \A w \in Workers :
                  \/ at'[w] = at[w] /\ work'[w] = work[w]
                  \/ Outside(at[w]) /\ Outside(at'[w])
  BY <1>0, <1>1, HandlerShape DEF flag, Outside
<1>2. CASE \E r \in Rows : DrainBegin(r)
  BY <1>0, <1>2 DEF DrainBegin, DrainCall, history, flag, Outside
<1>3. CASE \E m \in Messages : WindowElapses(m) \/ Purge(m)
  BY <1>3 DEF WindowElapses, Purge, vars, history, flag
<1>4. CASE \E k \in Keys \cup {NoKey} : DRestart(k)
  <2>1. faults' # 0
    BY <1>0, <1>4 DEF DRestart, Restart
  <2> QED BY <1>4, <2>1 DEF DRestart
<1>5. CASE OutboxStep \/ UNCHANGED dvars
  <2>1. UNCHANGED <<guard, at, work, wire, unguarded>>
    BY <1>5 DEF OutboxStep, delivery, dvars, flag
  <2>2. faults' = faults \/ faults' = faults + 1
    BY <1>5 DEF OutboxStep, DrainSelect, DrainMark, DrainMarkFails, ExpireSelect, ExpireNotify,
                DrainSkip, ExpireMark, ExpireMarkFails, TTLElapses, SetConnected, history, dvars, vars
  <2> QED BY <1>0, <2>1, <2>2
<1>6. CASE Besides
  BY <1>6 DEF Besides, SetSpamguard, vars, history
<1> QED BY <1>1, <1>2, <1>3, <1>4, <1>5, <1>6 DEF DNext, Besides

\* No text has been recorded at first.
LEMMA InitHistory == DInit => HistoryInv /\ PastInv
<1> SUFFICES ASSUME DInit PROVE HistoryInv /\ PastInv
  OBVIOUS
<1>1. <<>> \in Histories /\ DOMAIN <<>> = {} /\ Len(<<>>) = 0
  BY EmptySeq DEF Histories
<1>2. HistoryInv
  BY <1>1 DEF DInit, HistoryInv
<1>3. PastInv
  BY DEF DInit, PastInv, Past
<1> QED BY <1>2, <1>3

\* The histories stay short, and the one in memory without repetition.
LEMMA HistoryStep ==
  ASSUME FlowInv, OutboxInv, HistoryInv, [DNext]_dvars
  PROVE  HistoryInv'
<1>0. /\ at \in [Workers -> Places] /\ work \in [Workers -> Messages \cup {NoMessage}]
      /\ recent \in [Instances -> Histories] /\ saved \in [Instances -> Histories]
      /\ saving \in [Workers -> Histories] /\ <<>> \in Histories
  BY EmptySeq DEF FlowInv, WorkInv, Places, HistoryInv, Histories
<1>1. CASE ~\E w \in Workers : HandleFor(w)
  <2>1. CASE /\ UNCHANGED <<guard, wire, unguarded>> /\ (faults' = 0 => faults = 0)
             /\ \A w \in Workers :
                  \/ at'[w] = at[w] /\ work'[w] = work[w]
                  \/ Outside(at[w]) /\ Outside(at'[w])
    BY <2>1 DEF HistoryInv, guard, Outside
  <2>2. CASE /\ faults' # 0 /\ saved' = saved /\ wire' = wire
             /\ recent' \in {saved, [i \in Instances |-> <<>>]}
             /\ saving' = [w \in Workers |-> <<>>] /\ at' = [w \in Workers |-> "idle"]
    BY <1>0, <2>2 DEF HistoryInv
  <2> QED BY <1>1, <2>1, <2>2, QuietShape
<1>2. ASSUME NEW w \in Workers, HandleFor(w) PROVE HistoryInv'
  <2> DEFINE m == work[w]
             i == Home[work[w]]
             c == Content[work[w]]
  <2>0. m \in Messages /\ i \in Instances /\ c \in AllTexts /\ (faults' = 0 => faults = 0)
    BY <1>2, GuardShape, DeliveryAssumption DEF AllTexts
  <2>1. CASE /\ at[w] = "check" /\ at' = [at EXCEPT ![w] = "save"] /\ work' = work /\ wire' = wire
             /\ unguarded' = unguarded /\ ~Repeats(Home[work[w]], Content[work[w]])
             /\ recent' = Remember(Home[work[w]], Content[work[w]]) /\ saved' = saved
             /\ saving' = [saving EXCEPT ![w] = recent'[Home[work[w]]]]
    <3> DEFINE h == recent[i]
               r == recent'[i]
    <3>1. h \in Histories /\ recent' \in [Instances -> Histories]
          /\ \A j \in Instances \ {i} : recent'[j] = recent[j]
      BY <1>0, <2>0, <2>1, Remembered
    <3>2. /\ r \in Histories /\ Len(r) = (IF h = <<>> THEN 1 ELSE 2)
          /\ DOMAIN r = 1 .. Len(r) /\ r[1] = c /\ (h # <<>> => r[2] = h[1])
      BY <1>0, <2>0, <2>1, <3>1, Remembered
    <3>3. r # <<>>
      BY <3>2, EmptySeq
    <3>4. c \in Texts(i)
      BY <2>0, <2>1 DEF Texts, HistoryInv
    <3>5. h # <<>> => 1 \in DOMAIN h /\ h[1] # c
      <4>1. h # <<>> => 1 \in DOMAIN h
        BY <3>1, EmptySeq DEF Histories
      <4> QED BY <2>1, <4>1 DEF Repeats
    <3> HIDE DEF h, r
    <3>6. recent' \in [Instances -> Histories] /\ saving' \in [Workers -> Histories] /\ recent'[i] = r
      BY <1>0, <2>0, <2>1, <3>1 DEF r
    <3>7. \A v \in Workers : saving'[v] # <<>> <=> at'[v] = "save"
      BY <1>0, <2>1, <3>3, <3>6 DEF HistoryInv
    <3>8. ASSUME faults' = 0, NEW j \in Instances
          PROVE  /\ \A k \in DOMAIN recent'[j] : recent'[j][k] \in Texts(j)
                 /\ Len(recent'[j]) = 2 => recent'[j][1] # recent'[j][2]
      <4>0. /\ \A k \in DOMAIN recent[j] : recent[j][k] \in Texts(j)
            /\ Len(recent[j]) = 2 => recent[j][1] # recent[j][2]
        BY <2>0, <3>8 DEF HistoryInv
      <4>1. CASE j # i
        BY <3>1, <4>0, <4>1
      <4>2. CASE j = i
        <5>1. recent'[j] = r /\ \A k \in DOMAIN h : h[k] \in Texts(i)
          BY <3>6, <4>0, <4>2 DEF h
        <5>2. \A k \in DOMAIN r : r[k] \in Texts(i)
          BY <3>2, <3>4, <3>5, <5>1
        <5>3. Len(r) = 2 => r[1] # r[2]
          BY <3>2, <3>5
        <5> QED BY <4>2, <5>1, <5>2, <5>3
      <4> QED BY <4>1, <4>2
    <3> QED BY <1>0, <2>1, <3>6, <3>7, <3>8 DEF HistoryInv
  <2>2. CASE /\ at[w] = "save" /\ at' = [at EXCEPT ![w] = "send"] /\ work' = work /\ wire' = wire
             /\ recent' = recent /\ saving' = [saving EXCEPT ![w] = <<>>]
             /\ saved' = saved \/ saved' = [saved EXCEPT ![Home[work[w]]] = saving[w]]
    BY <1>0, <2>0, <2>2 DEF HistoryInv
  <2>3. CASE /\ at[w] = "guard" /\ at' = [at EXCEPT ![w] = "send"] /\ work' = work
             /\ UNCHANGED guard
    BY <1>0, <2>0, <2>3 DEF HistoryInv, guard
  <2>4. CASE /\ at[w] = "guard" /\ at' = [at EXCEPT ![w] = "check"] /\ work' = work
             /\ Content[work[w]] # NoText /\ UNCHANGED guard
    BY <1>0, <2>0, <2>4 DEF HistoryInv, guard
  <2>5. CASE /\ at[w] \notin {"guard", "save"} /\ UNCHANGED guard
             /\ \E place \in {"mark", "guard", "idle"} : at' = [at EXCEPT ![w] = place]
             /\ work' = work \/ work' = [work EXCEPT ![w] = NoMessage]
    <3>1. \A v \in Workers : at'[v] = "check" => at[v] = "check" /\ work'[v] = work[v]
      BY <1>0, <2>5
    <3> QED BY <1>0, <2>0, <2>5, <3>1 DEF HistoryInv, guard
  <2> QED BY <1>2, <2>1, <2>2, <2>3, <2>4, <2>5, GuardShape
<1> QED BY <1>1, <1>2

\* A text that is recorded stays as long as the contact has no third one.
LEMMA PastStep ==
  ASSUME FlowInv, OutboxInv, HistoryInv, PastInv, [DNext]_dvars
  PROVE  PastInv'
<1>0. /\ at \in [Workers -> Places] /\ work \in [Workers -> Messages \cup {NoMessage}]
      /\ wire \in [Messages -> Nat] /\ recent \in [Instances -> Histories]
  BY DEF FlowInv, WorkInv, Places, HistoryInv
<1>1. ASSUME recent' = recent, faults' = 0 => faults = 0, unguarded \subseteq unguarded',
             \A m \in Messages : m \notin unguarded' /\ Past(m)' => Past(m)
      PROVE  PastInv'
  <2>1. \A m \in Messages : Judged(m)' => Judged(m)
    BY <1>1 DEF Judged
  <2>2. \A m \in Messages : Judged(m)' => m \notin unguarded'
    BY DEF Judged
  <2> QED BY <1>1, <2>1, <2>2 DEF PastInv, Repeats
<1>2. CASE ~\E w \in Workers : HandleFor(w)
  <2>1. CASE /\ UNCHANGED <<guard, wire, unguarded>> /\ (faults' = 0 => faults = 0)
             /\ \A w \in Workers :
                  \/ at'[w] = at[w] /\ work'[w] = work[w]
                  \/ Outside(at[w]) /\ Outside(at'[w])
    BY <1>1, <2>1 DEF Past, guard, Outside
  <2>2. CASE faults' # 0
    BY <2>2 DEF PastInv, Judged
  <2> QED BY <1>2, <2>1, <2>2, QuietShape
<1>3. ASSUME NEW w \in Workers, HandleFor(w) PROVE PastInv'
  <2>0. work[w] \in Messages /\ Home[work[w]] \in Instances /\ (faults' = 0 => faults = 0)
    BY <1>3, GuardShape, DeliveryAssumption
  <2>1. CASE /\ at[w] = "check" /\ at' = [at EXCEPT ![w] = "save"] /\ work' = work /\ wire' = wire
             /\ unguarded' = unguarded /\ ~Repeats(Home[work[w]], Content[work[w]])
             /\ recent' = Remember(Home[work[w]], Content[work[w]])
    <3> SUFFICES ASSUME NEW m \in Messages, Judged(m)', Past(m)'
                 PROVE  /\ Repeats(Home[m], Content[m])'
                        /\ \A n \in Messages \ unguarded :
                             Past(n)' /\ Home[n] = Home[m] /\ Content[n] = Content[m] => n = m
      BY <2>1 DEF PastInv
    <3> DEFINE c == Content[work[w]]
               i == Home[work[w]]
               h == recent[i]
               r == recent'[i]
    <3>0. c \in AllTexts
      BY <2>0 DEF AllTexts
    <3>1. /\ Len(r) = (IF h = <<>> THEN 1 ELSE 2)
          /\ DOMAIN r = 1 .. Len(r) /\ r[1] = c /\ (h # <<>> => r[2] = h[1])
      BY <1>0, <2>0, <2>1, <3>0, Remembered
    <3>2. \A j \in Instances \ {i} : recent'[j] = recent[j]
      BY <1>0, <2>0, <2>1, <3>0, Remembered
    <3> HIDE DEF r
    <3>3. \A n \in Messages : Past(n)' => Past(n) \/ n = work[w]
      BY <1>0, <2>1 DEF Past
    <3>4. Judged(m)
      BY <2>0, <2>1 DEF Judged
    <3>5. ASSUME NEW n \in Messages, Past(n), Judged(n) PROVE ~(Home[n] = i /\ Content[n] = c)
      BY <2>1, <3>5 DEF PastInv
    <3>6. CASE Home[m] # i
      <4>1. Past(m) /\ m # work[w] /\ recent'[Home[m]] = recent[Home[m]]
        BY <1>0, <3>2, <3>3, <3>6, DeliveryAssumption
      <4>2. Repeats(Home[m], Content[m])'
        BY <3>4, <4>1 DEF PastInv, Repeats
      <4> QED BY <3>3, <3>4, <3>6, <4>1, <4>2 DEF PastInv
    <3>7. CASE Home[m] = i /\ Content[m] = c
      <4>1. recent'[i] = r /\ 1 \in DOMAIN r
        BY <3>1 DEF r
      <4>2. Repeats(Home[m], Content[m])'
        BY <3>1, <3>7, <4>1 DEF Repeats
      <4>3. \A n \in Messages \ unguarded : Home[n] = i /\ Content[n] = c => Judged(n)
        BY <3>4, <3>7 DEF Judged
      <4>4. \A n \in Messages \ unguarded : Past(n)' /\ Home[n] = i /\ Content[n] = c => n = work[w]
        BY <3>3, <3>5, <4>3
      <4> QED BY <2>1, <3>4, <3>7, <4>2, <4>4 DEF Judged
    <3>8. CASE Home[m] = i /\ Content[m] # c
      <4>1. Past(m) /\ m # work[w]
        BY <3>3, <3>8
      <4>2. PICK k \in DOMAIN h : h[k] = Content[m]
        BY <3>4, <3>8, <4>1 DEF PastInv, Repeats
      <4>3. h \in Seq(AllTexts) /\ Len(h) <= 2 /\ DOMAIN h = 1 .. Len(h) /\ Len(h) \in Nat
        BY <1>0, <2>0 DEF Histories
      <4>4. h # <<>>
        BY <4>2, <4>3, EmptySeq
      <4>5. \A j \in DOMAIN h : h[j] \in Texts(i) /\ h[j] # c
        BY <2>0, <2>1, <3>4 DEF HistoryInv, Judged, Repeats
      <4>6. Len(h) = 2 => h[1] # h[2]
        BY <2>0, <3>4 DEF HistoryInv, Judged
      <4>7. c \in Texts(i) /\ Cardinality(Texts(i)) <= 2
        BY <2>0, <2>1, <3>4, <3>8 DEF Texts, Judged, HistoryInv
      <4>8. k = 1
        <5> SUFFICES ASSUME k # 1 PROVE FALSE
          OBVIOUS
        <5> HIDE DEF h, c, i
        <5>1. Len(h) = 2 /\ 1 \in DOMAIN h /\ 2 \in DOMAIN h
          BY <4>2, <4>3
        <5>2. h[1] \in Texts(i) /\ h[2] \in Texts(i) /\ h[1] # c /\ h[2] # c /\ h[1] # h[2]
          BY <4>5, <4>6, <5>1
        <5> QED BY <2>0, <4>7, <5>2, ThreeTexts DEF i
      <4>9. recent'[i] = r /\ 2 \in DOMAIN r /\ r[2] = Content[m]
        BY <3>1, <4>2, <4>4, <4>8 DEF r
      <4>10. Repeats(Home[m], Content[m])'
        BY <3>8, <4>9 DEF Repeats
      <4> QED BY <3>3, <3>4, <3>8, <4>1, <4>10 DEF PastInv
    <3> QED BY <3>6, <3>7, <3>8
  <2>2. CASE /\ at[w] = "save" /\ at' = [at EXCEPT ![w] = "send"] /\ work' = work /\ wire' = wire
             /\ recent' = recent /\ unguarded \subseteq unguarded'
    BY <1>0, <1>1, <2>0, <2>2 DEF Past
  <2>3. CASE /\ at[w] = "guard" /\ at' = [at EXCEPT ![w] = "send"] /\ work' = work /\ wire' = wire
             /\ work[w] \in unguarded' /\ unguarded \subseteq unguarded' /\ UNCHANGED guard
    <3>1. \A m \in Messages : m \notin unguarded' /\ Past(m)' => Past(m)
      BY <1>0, <2>3 DEF Past
    <3> QED BY <1>1, <2>0, <2>3, <3>1 DEF guard
  <2>4. CASE /\ at[w] = "guard" /\ at' = [at EXCEPT ![w] = "check"] /\ work' = work /\ wire' = wire
             /\ UNCHANGED <<guard, unguarded>>
    BY <1>0, <1>1, <2>0, <2>4 DEF Past, guard
  <2>5. CASE /\ at[w] \notin {"guard", "save"} /\ UNCHANGED <<guard, unguarded>>
             /\ \E place \in {"mark", "guard", "idle"} : at' = [at EXCEPT ![w] = place]
             /\ work' = work \/ work' = [work EXCEPT ![w] = NoMessage]
             /\ wire' = wire \/ (at[w] = "send" /\ wire' = [wire EXCEPT ![work[w]] = @ + 1])
    <3>1. \A m \in Messages : wire'[m] > 0 => wire[m] > 0 \/ (m = work[w] /\ at[w] = "send")
      BY <1>0, <2>0, <2>5
    <3>2. \A m \in Messages : Past(m)' => Past(m)
      BY <1>0, <2>5, <3>1 DEF Past
    <3> QED BY <1>1, <2>0, <2>5, <3>2 DEF guard
  <2> QED BY <1>3, <2>1, <2>2, <2>3, <2>4, <2>5, GuardShape
<1> QED BY <1>2, <1>3

CallsInv == FlowInv /\ ClaimInv /\ HistoryInv /\ PastInv

\* The four are inductive beside the two above.
LEMMA NextCalls ==
  ASSUME OutboxInv, DeliveryInv', CallsInv, [DNext]_dvars
  PROVE  CallsInv'
<1>0. FlowInv /\ ClaimInv /\ HistoryInv /\ PastInv /\ WorkInv'
  BY DEF CallsInv, DeliveryInv
<1>1. FlowInv'
  BY <1>0, HandlerFlow, HandleForFlow, OtherFlow DEF DNext, Besides
<1>2. ClaimInv'
  BY <1>0, ClaimStep
<1>3. HistoryInv'
  BY <1>0, HistoryStep
<1>4. PastInv'
  BY <1>0, PastStep
<1> QED BY <1>1, <1>2, <1>3, <1>4 DEF CallsInv

-----------------------------------------------------------------------------
(* The theorems *)

\* Whatever handlers, drainer, expirer, time and crashes do, a message that is
\* not excused has one sender or one copy, never both and never two
\* (SeenIncomingMsg called by HandleFor); the invariant of the outbox holds
\* with its real callers.
THEOREM DeliverySafe == DSpec => [](OutboxInv /\ DeliveryInv)
<1>1. DInit => OutboxInv /\ DeliveryInv
  BY InitInv, InitDelivery DEF DInit
<1> QED BY <1>1, NextDelivery, PTL DEF DSpec

\* Handlers and drainer use the outbox only as Outbox lets any caller: every
\* behaviour of the composition is one of Outbox, so its safety theorems hold
\* of it (HandleForRaw called by DrainOnce, Enqueue by the webhook handler).
THEOREM DeliveryKeepsOutbox == DSpec => Spec
<1>1. DInit => Init
  BY DEF DInit
<1>2. DeliveryInv /\ [DNext]_dvars => [Next]_vars
  BY StepOutbox DEF DeliveryInv
<1> QED BY <1>1, <1>2, DeliverySafe, PTL DEF DSpec, Spec

\* So the promise of the outbox is kept when the webhook handlers, HandleFor and
\* DrainOnce drive it: what the drainer hands to HandleFor is closed for good,
\* its expiry told once, and a copy beyond the first paid for by a fault.
THEOREM DeliveryKeepsPromise == DSpec => KeepsPromise
BY DeliveryKeepsOutbox, OutboxKeepsPromise

\* One copy of a message goes on the wire for any number of POSTs, drainer
\* passes and retries, unless its idempotency row is too old, unreachable or
\* raced for (SeenIncomingMsg).
THEOREM OneCopy == DSpec => []OneCopyUnlessExcused
<1>1. DeliveryInv => OneCopyUnlessExcused
  BY DEF DeliveryInv, CopyInv, OneCopyUnlessExcused
<1> QED BY <1>1, DeliverySafe, PTL

\* Who calls HandleFor and what it has told them, the histories of the
\* spamguard and the texts that have passed it, are as the code means them.
THEOREM CallsSafe == DSpec => []CallsInv
<1>1. DInit => CallsInv
  BY InitFlow, InitHistory DEF CallsInv
<1>2. OutboxInv /\ DeliveryInv' /\ CallsInv /\ [DNext]_dvars => CallsInv'
  BY NextCalls
<1> QED BY <1>1, <1>2, DeliverySafe, PTL DEF DSpec

\* Every variable of the delivery keeps its type; the outbox knows which
\* handler is between COUNT and INSERT and whether the drainer is in a call.
THEOREM DeliveryTypes == DSpec => []DeliveryTypeOK
<1>1. CallsInv => DeliveryTypeOK
  BY DEF CallsInv, FlowInv, WorkInv, HistoryInv, Histories, Codes, DeliveryTypeOK
<1> QED BY <1>1, CallsSafe, PTL

\* A message that is claimed delivered without a copy on the wire was given up
\* by HandleFor, is being sent, or fell to a crash (webhook handler, HandleFor
\* and DrainOnce together).
THEOREM ClaimsAccountedFor == DSpec => []ClaimAccountedFor
<1>1. OutboxInv /\ CallsInv => ClaimAccountedFor
  <2> SUFFICES ASSUME OutboxInv, ClaimInv, NEW m \in Messages, Claimed(m), wire[m] = 0
               PROVE  given[m] > 0 \/ Sending(m) \/ faults > 0
    BY DEF CallsInv, ClaimAccountedFor
  <2>1. \A r \in Rows : status[r] = "sent" => oks[r] > 0
    BY DEF OutboxInv, StatusIsEarned
  <2>2. Accounted(m)
    BY <2>1 DEF Claimed, ClaimInv
  <2> QED BY <2>2 DEF Accounted
<1> QED BY <1>1, CallsSafe, DeliverySafe, PTL

\* Two messages with the same text do not both reach a contact that has two
\* texts at most, however the workers overlap (CheckAndRecord).
THEOREM OneText == DSpec => []OneTextPerContact
<1>1. CallsInv => OneTextPerContact
  BY DEF CallsInv, PastInv, Judged, Past, OneTextPerContact
<1> QED BY <1>1, CallsSafe, PTL
=============================================================================
