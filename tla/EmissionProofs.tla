---------------------------- MODULE EmissionProofs ----------------------------
(***************************************************************************)
(* Theorems about Emission, for any number of sends, events and failures   *)
(* and any thresholds.  Three things are followed one by one: the counts   *)
(* between memory and table, each event between its goroutine and the      *)
(* receiver, and the alerts between one evaluation and the next.           *)
(***************************************************************************)
EXTENDS Emission, FiniteSetTheorems, SequenceTheorems, TLAPS

-----------------------------------------------------------------------------
(* The inductive invariant *)

\* Nothing counted is lost, and what the last flush left behind came late.
CountInv ==
  /\ memory \in Nat /\ flushing \in Nat /\ table \in Nat
  /\ counted \in Nat /\ doubled \in Nat /\ tardy \in Nat /\ failures \in Nat
  /\ loop \in {"tick", "flush", "last", "ended"}
  /\ flushing > 0 => loop \in {"flush", "last"}
  /\ CountsConserved
  /\ loop = "last" /\ failures = 0 => memory <= tardy
  /\ LastFlushTakesAll

Kinds == Alerts \cup {"backend_started", "backend_restarting"}
EventSet == [kind : Kinds, at : {"url", "silent", "unread", "post", "sleep", "done", "dropped"}, tries : Nat]

\* An event that sleeps has an attempt left, one that was dropped has none, and
\* each attempt of theirs is a failed call; copies are answers, lost or not.
EventsInv ==
  /\ events \in Seq(EventSet) /\ received \in Seq(Nat) /\ lost \in Seq(Nat)
  /\ Len(received) = Len(events) /\ Len(lost) = Len(events)
  /\ owed \subseteq DOMAIN events /\ addressed \in BOOLEAN
  /\ \A i \in DOMAIN events :
       /\ events[i].at \in {"url", "silent", "unread", "post"} => events[i].tries = 0
       /\ events[i].at = "silent" => ~addressed
       /\ events[i].at = "unread" => failures > 0
       /\ events[i].at \in {"sleep", "dropped"} => events[i].tries > 0
       /\ failures >= (IF events[i].at = "done" THEN 0 ELSE events[i].tries)
       /\ events[i].at = "sleep" => events[i].kind \in Critical /\ events[i].tries \in 1 .. Retries
       /\ events[i].at = "dropped" /\ events[i].kind \in Critical => events[i].tries = Retries + 1
       /\ received[i] = lost[i] + (IF events[i].at = "done" THEN 1 ELSE 0)

\* The stop is announced before it goes on, and it waits for the answer.
AnnounceInv ==
  /\ phase \in {"up", "stopping", "notifying", "grace", "exited"} /\ hurried \in BOOLEAN
  /\ phase \in {"notifying", "grace", "exited"} => Of("backend_restarting") # {}
  /\ phase \in {"grace", "exited"} /\ ~hurried =>
       \E i \in Of("backend_restarting") : events[i].at \notin {"url", "post"}

\* An alert has come up once more than it has gone, or as often.
AlertInv ==
  /\ active \subseteq Alerts /\ downs \in [Alerts -> Nat]
  /\ AlertOncePerRise

EmissionInv == CountInv /\ EventsInv /\ AnnounceInv /\ AlertInv

-----------------------------------------------------------------------------
(* Sequences of events *)

\* A finite set as a sequence: each of its elements once.
LEMMA SeqOfSet ==
  ASSUME NEW S, IsFiniteSet(S)
  PROVE  /\ SetToSeq(S) \in Seq(S)
         /\ \A x \in S : \E k \in DOMAIN SetToSeq(S) : SetToSeq(S)[k] = x
         /\ \A j, k \in DOMAIN SetToSeq(S) : SetToSeq(S)[j] = SetToSeq(S)[k] => j = k
<1> DEFINE n == Cardinality(S)
           f == SetToSeq(S)
<1>1. n \in Nat /\ ExistsBijection(1 .. n, S)
  BY FS_CardinalityType
<1>2. \E g \in [1 .. n -> S] : IsInjective(g)
  BY <1>1 DEF ExistsBijection, Bijection, Injection
<1>3. f \in [1 .. n -> S] /\ IsInjective(f)
  BY <1>2 DEF SetToSeq
<1>4. f \in Injection(1 .. n, S)
  BY <1>3 DEF Injection
<1>5. IsFiniteSet(1 .. n) /\ Cardinality(1 .. n) = n
  BY <1>1, FS_Interval
<1>6. f \in Surjection(1 .. n, S)
  BY <1>4, <1>5, FS_Injection
<1>7. f \in Seq(S)
  BY <1>1, <1>3
<1> HIDE DEF f
<1> QED BY <1>3, <1>6, <1>7 DEF IsInjective, Surjection, f

\* An emit leaves the events there are alone and adds one of each kind it is
\* given.
LEMMA EmitAdds ==
  ASSUME EventsInv, NEW kinds \in Seq(Kinds), Emit(kinds)
  PROVE  /\ events' \in Seq(EventSet) /\ received' \in Seq(Nat) /\ lost' \in Seq(Nat)
         /\ Len(events') = Len(events) + Len(kinds)
         /\ Len(received') = Len(events') /\ Len(lost') = Len(events')
         /\ \A i \in DOMAIN events :
              events'[i] = events[i] /\ received'[i] = received[i] /\ lost'[i] = lost[i]
         /\ \A k \in DOMAIN kinds :
              /\ events'[Len(events) + k] = [kind |-> kinds[k], at |-> "url", tries |-> 0]
              /\ received'[Len(events) + k] = 0 /\ lost'[Len(events) + k] = 0
<1> DEFINE new == [i \in DOMAIN kinds |-> EventOf(kinds[i])]
           zero == [i \in DOMAIN kinds |-> 0]
<1>1. DOMAIN kinds = 1 .. Len(kinds) /\ Len(kinds) \in Nat /\ \A k \in DOMAIN kinds : kinds[k] \in Kinds
  OBVIOUS
<1>2. new \in Seq(EventSet) /\ Len(new) = Len(kinds)
  BY <1>1 DEF EventOf, EventSet
<1>3. zero \in Seq(Nat) /\ Len(zero) = Len(kinds)
  BY <1>1
<1>4. events' = events \o new /\ received' = received \o zero /\ lost' = lost \o zero
  BY DEF Emit
<1>5. \A k \in DOMAIN kinds : new[k] = [kind |-> kinds[k], at |-> "url", tries |-> 0] /\ zero[k] = 0
  BY DEF EventOf
<1> HIDE DEF new, zero
<1>6. /\ events' \in Seq(EventSet) /\ Len(events') = Len(events) + Len(kinds)
      /\ \A i \in 1 .. Len(events) + Len(kinds) :
           events'[i] = IF i <= Len(events) THEN events[i] ELSE new[i - Len(events)]
  <2>1. events \in Seq(EventSet) /\ Len(events) = Len(events)
    BY DEF EventsInv
  <2>2. /\ events \o new \in Seq(EventSet) /\ Len(events \o new) = Len(events) + Len(new)
        /\ \A i \in 1 .. Len(events) + Len(new) :
             (events \o new)[i] = IF i <= Len(events) THEN events[i] ELSE new[i - Len(events)]
    BY <2>1, <1>2, ConcatProperties, Zenon
  <2> QED BY <1>4, <1>2, <2>1, <2>2, Zenon
<1>7. /\ received' \in Seq(Nat) /\ Len(received') = Len(events) + Len(kinds)
      /\ \A i \in 1 .. Len(events) + Len(kinds) :
           received'[i] = IF i <= Len(events) THEN received[i] ELSE zero[i - Len(events)]
  <2>1. received \in Seq(Nat) /\ Len(received) = Len(events)
    BY DEF EventsInv
  <2>2. /\ received \o zero \in Seq(Nat) /\ Len(received \o zero) = Len(received) + Len(zero)
        /\ \A i \in 1 .. Len(received) + Len(zero) :
             (received \o zero)[i] = IF i <= Len(received) THEN received[i] ELSE zero[i - Len(received)]
    BY <2>1, <1>3, ConcatProperties, Zenon
  <2> QED BY <1>4, <1>3, <2>1, <2>2, Zenon
<1>8. /\ lost' \in Seq(Nat) /\ Len(lost') = Len(events) + Len(kinds)
      /\ \A i \in 1 .. Len(events) + Len(kinds) :
           lost'[i] = IF i <= Len(events) THEN lost[i] ELSE zero[i - Len(events)]
  <2>1. lost \in Seq(Nat) /\ Len(lost) = Len(events)
    BY DEF EventsInv
  <2>2. /\ lost \o zero \in Seq(Nat) /\ Len(lost \o zero) = Len(lost) + Len(zero)
        /\ \A i \in 1 .. Len(lost) + Len(zero) :
             (lost \o zero)[i] = IF i <= Len(lost) THEN lost[i] ELSE zero[i - Len(lost)]
    BY <2>1, <1>3, ConcatProperties, Zenon
  <2> QED BY <1>4, <1>3, <2>1, <2>2, Zenon
<1>9. DOMAIN events = 1 .. Len(events) /\ Len(events) \in Nat
  BY DEF EventsInv
<1>10. ASSUME NEW i \in DOMAIN events
       PROVE  events'[i] = events[i] /\ received'[i] = received[i] /\ lost'[i] = lost[i]
  BY <1>1, <1>6, <1>7, <1>8, <1>9
<1>11. ASSUME NEW k \in DOMAIN kinds
       PROVE  /\ events'[Len(events) + k] = [kind |-> kinds[k], at |-> "url", tries |-> 0]
              /\ received'[Len(events) + k] = 0 /\ lost'[Len(events) + k] = 0
  <2>1. /\ Len(events) + k \in 1 .. Len(events) + Len(kinds) /\ ~(Len(events) + k <= Len(events))
        /\ (Len(events) + k) - Len(events) = k
    BY <1>1, <1>9
  <2> QED BY <1>5, <1>6, <1>7, <1>8, <2>1
<1> QED BY <1>6, <1>7, <1>8, <1>10, <1>11

\* An emit keeps what is known of every event.
LEMMA EmitEvents ==
  ASSUME EventsInv, failures \in Nat, NEW kinds \in Seq(Kinds), Emit(kinds), failures' = failures
  PROVE  EventsInv'
<1>1. \A i \in DOMAIN events' : i \in DOMAIN events \/ \E k \in DOMAIN kinds : i = Len(events) + k
  <2>1. /\ DOMAIN events' = 1 .. Len(events) + Len(kinds) /\ DOMAIN events = 1 .. Len(events)
        /\ DOMAIN kinds = 1 .. Len(kinds) /\ Len(events) \in Nat /\ Len(kinds) \in Nat
    BY EmitAdds DEF EventsInv
  <2>2. ASSUME NEW i \in 1 .. Len(events) + Len(kinds), i \notin 1 .. Len(events)
        PROVE  i - Len(events) \in 1 .. Len(kinds) /\ i = Len(events) + (i - Len(events))
    BY <2>1, <2>2
  <2> QED BY <2>1, <2>2
<1>2. ASSUME NEW i \in DOMAIN events'
      PROVE  /\ events'[i].at \in {"url", "silent", "unread", "post"} => events'[i].tries = 0
             /\ events'[i].at = "silent" => ~addressed
             /\ events'[i].at = "unread" => failures > 0
             /\ events'[i].at \in {"sleep", "dropped"} => events'[i].tries > 0
             /\ failures >= (IF events'[i].at = "done" THEN 0 ELSE events'[i].tries)
             /\ events'[i].at = "sleep" => events'[i].kind \in Critical /\ events'[i].tries \in 1 .. Retries
             /\ events'[i].at = "dropped" /\ events'[i].kind \in Critical => events'[i].tries = Retries + 1
             /\ received'[i] = lost'[i] + (IF events'[i].at = "done" THEN 1 ELSE 0)
  <2>1. CASE i \in DOMAIN events
    BY <2>1, EmitAdds DEF EventsInv
  <2>2. ASSUME NEW k \in DOMAIN kinds, i = Len(events) + k
        PROVE  events'[i].at = "url" /\ events'[i].tries = 0 /\ received'[i] = 0 /\ lost'[i] = 0
    <3>1. /\ events'[Len(events) + k] = [kind |-> kinds[k], at |-> "url", tries |-> 0]
          /\ received'[Len(events) + k] = 0 /\ lost'[Len(events) + k] = 0
      BY EmitAdds
    <3> QED BY <2>2, <3>1
  <2> QED BY <1>1, <2>1, <2>2
<1>3. owed' \subseteq DOMAIN events'
  <2>1. owed' = owed /\ owed \subseteq DOMAIN events
    BY DEF Emit, EventsInv
  <2>2. /\ DOMAIN events' = 1 .. Len(events) + Len(kinds) /\ DOMAIN events = 1 .. Len(events)
        /\ Len(events) \in Nat /\ Len(kinds) \in Nat
    BY EmitAdds DEF EventsInv
  <2> QED BY <2>1, <2>2
<1>4. addressed' = addressed /\ addressed \in BOOLEAN
  BY DEF Emit, EventsInv
<1> QED BY <1>2, <1>3, <1>4, EmitAdds DEF EventsInv

\* An emit adds the events of a kind that it is given.
LEMMA EmitOf ==
  ASSUME EventsInv, NEW kinds \in Seq(Kinds), Emit(kinds), NEW kind
  PROVE  /\ Of(kind)' = Of(kind) \cup {Len(events) + k : k \in {j \in DOMAIN kinds : kinds[j] = kind}}
         /\ \A k \in DOMAIN kinds : Len(events) + k \notin Of(kind)
<1>1. /\ DOMAIN events' = 1 .. Len(events) + Len(kinds) /\ DOMAIN events = 1 .. Len(events)
      /\ DOMAIN kinds = 1 .. Len(kinds) /\ Len(events) \in Nat /\ Len(kinds) \in Nat
  BY EmitAdds DEF EventsInv
<1>2. \A i \in 1 .. Len(events) + Len(kinds) :
        i \in 1 .. Len(events) \/ \E k \in 1 .. Len(kinds) : i = Len(events) + k
  <2>1. ASSUME NEW i \in 1 .. Len(events) + Len(kinds), i \notin 1 .. Len(events)
        PROVE  i - Len(events) \in 1 .. Len(kinds) /\ i = Len(events) + (i - Len(events))
    BY <1>1, <2>1
  <2> QED BY <2>1
<1>3. \A k \in 1 .. Len(kinds) : Len(events) + k \in DOMAIN events' /\ Len(events) + k \notin DOMAIN events
  BY <1>1
<1>4. \A i \in DOMAIN events : i \in DOMAIN events' /\ events'[i].kind = events[i].kind
  BY <1>1, EmitAdds
<1>5. ASSUME NEW k \in DOMAIN kinds PROVE events'[Len(events) + k].kind = kinds[k]
  <2>1. events'[Len(events) + k] = [kind |-> kinds[k], at |-> "url", tries |-> 0]
    BY EmitAdds
  <2> QED BY <2>1
<1>6. ASSUME NEW i
      PROVE  i \in Of(kind)' <=>
               i \in Of(kind) \/ \E k \in DOMAIN kinds : kinds[k] = kind /\ i = Len(events) + k
  BY <1>1, <1>2, <1>3, <1>4, <1>5 DEF Of
<1> QED BY <1>1, <1>3, <1>6 DEF Of

-----------------------------------------------------------------------------
(* The counts *)

\* Counting, once for what it counts.
LEMMA CountCounts ==
  ASSUME CountInv, Count, failures' = failures
  PROVE  CountInv'
BY DEF CountInv, Count, CountsConserved, LastFlushTakesAll

\* Who leaves the tracker alone, whether or not its call fails.
LEMMA CountStays ==
  ASSUME CountInv, UNCHANGED usage, failures' = failures \/ Fails
  PROVE  CountInv'
BY DEF CountInv, usage, Fails, CountsConserved, LastFlushTakesAll

\* A flush moves the counts, and doubles them when its answer is lost.
LEMMA CountFlush ==
  ASSUME CountInv, Flush
  PROVE  CountInv'
<1>1. CASE FlushBegins
  BY <1>1 DEF CountInv, FlushBegins, NextFlush, CountsConserved, LastFlushTakesAll
<1>2. CASE Upsert
  BY <1>2 DEF CountInv, Upsert, Rebuffered, Fails, CountsConserved, LastFlushTakesAll
<1>3. CASE FlushEnds
  BY <1>3 DEF CountInv, FlushEnds, CountsConserved, LastFlushTakesAll
<1> QED BY <1>1, <1>2, <1>3 DEF Flush

-----------------------------------------------------------------------------
(* An event and its goroutine *)

\* A function on the first numbers is a sequence.
LEMMA FunctionIsSeq ==
  ASSUME NEW n \in Nat, NEW S, NEW f \in [1 .. n -> S]
  PROVE  f \in Seq(S) /\ Len(f) = n
<1>1. f \in Seq(S)
  OBVIOUS
<1>2. DOMAIN f = 1 .. n /\ DOMAIN f = 1 .. Len(f) /\ Len(f) \in Nat
  BY <1>1, LenProperties
<1> QED BY <1>1, <1>2

\* The sequences of events, of what was received and of what was lost go
\* together.
LEMMA Domains ==
  ASSUME EventsInv
  PROVE  /\ Len(events) \in Nat /\ DOMAIN events = 1 .. Len(events)
         /\ received \in [DOMAIN events -> Nat] /\ lost \in [DOMAIN events -> Nat]
         /\ events \in [DOMAIN events -> EventSet]
BY DEF EventsInv

\* The goroutine of one event leaves the others alone.
LEMMA MoveEvents ==
  ASSUME EventsInv, NEW i \in DOMAIN events, NEW tries \in Nat,
         NEW place \in {"url", "silent", "unread", "post", "sleep", "done", "dropped"},
         events' = Moved(i, place, tries)
  PROVE  /\ events' \in Seq(EventSet) /\ Len(events') = Len(events) /\ DOMAIN events' = DOMAIN events
         /\ events'[i].at = place /\ events'[i].tries = tries /\ events'[i].kind = events[i].kind
         /\ \A j \in DOMAIN events \ {i} : events'[j] = events[j]
<1> DEFINE e == [events[i] EXCEPT !.at = place, !.tries = tries]
<1>1. events[i] \in EventSet
  BY Domains
<1>2. e \in EventSet /\ e.at = place /\ e.tries = tries /\ e.kind = events[i].kind
  BY <1>1 DEF EventSet
<1>3. events' = [events EXCEPT ![i] = e]
  BY DEF Moved
<1> HIDE DEF e
<1>4. events' \in Seq(EventSet) /\ Len(events') = Len(events) /\ DOMAIN events' = DOMAIN events
  BY <1>2, <1>3 DEF EventsInv
<1>5. events'[i] = e /\ \A j \in DOMAIN events \ {i} : events'[j] = events[j]
  BY <1>3
<1> QED BY <1>2, <1>4, <1>5

\* What a move must keep of the event it moves for the rest to follow.
LEMMA MoveKeeps ==
  ASSUME EventsInv, NEW i \in DOMAIN events, NEW tries \in Nat,
         NEW place \in {"url", "silent", "unread", "post", "sleep", "done", "dropped"},
         events' = Moved(i, place, tries),
         received' \in [DOMAIN events -> Nat], lost' \in [DOMAIN events -> Nat],
         \A j \in DOMAIN events \ {i} : received'[j] = received[j] /\ lost'[j] = lost[j],
         owed' \subseteq DOMAIN events, addressed' = addressed,
         failures \in Nat, failures' \in {failures, failures + 1},
         place \in {"url", "silent", "unread", "post"} => tries = 0,
         place = "silent" => ~addressed, place = "unread" => failures' > 0,
         place \in {"sleep", "dropped"} => tries > 0,
         failures' >= (IF place = "done" THEN 0 ELSE tries),
         place = "sleep" => events[i].kind \in Critical /\ tries \in 1 .. Retries,
         place = "dropped" /\ events[i].kind \in Critical => tries = Retries + 1,
         received'[i] = lost'[i] + (IF place = "done" THEN 1 ELSE 0)
  PROVE  EventsInv'
<1>1. /\ events' \in Seq(EventSet) /\ Len(events') = Len(events) /\ DOMAIN events' = DOMAIN events
      /\ events'[i].at = place /\ events'[i].tries = tries /\ events'[i].kind = events[i].kind
      /\ \A j \in DOMAIN events \ {i} : events'[j] = events[j]
  BY MoveEvents
<1>2. received' \in Seq(Nat) /\ lost' \in Seq(Nat) /\ Len(received') = Len(events) /\ Len(lost') = Len(events)
  <2>1. received' \in [1 .. Len(events) -> Nat] /\ lost' \in [1 .. Len(events) -> Nat] /\ Len(events) \in Nat
    BY Domains
  <2> QED BY <2>1, FunctionIsSeq
<1>3. ASSUME NEW j \in DOMAIN events'
      PROVE  /\ events'[j].at \in {"url", "silent", "unread", "post"} => events'[j].tries = 0
             /\ events'[j].at = "silent" => ~addressed
             /\ events'[j].at = "unread" => failures' > 0
             /\ events'[j].at \in {"sleep", "dropped"} => events'[j].tries > 0
             /\ failures' >= (IF events'[j].at = "done" THEN 0 ELSE events'[j].tries)
             /\ events'[j].at = "sleep" => events'[j].kind \in Critical /\ events'[j].tries \in 1 .. Retries
             /\ events'[j].at = "dropped" /\ events'[j].kind \in Critical => events'[j].tries = Retries + 1
             /\ received'[j] = lost'[j] + (IF events'[j].at = "done" THEN 1 ELSE 0)
  <2>1. CASE j = i
    BY <1>1, <2>1
  <2>2. CASE j # i
    <3>1. j \in DOMAIN events /\ events[j].tries \in Nat /\ events'[j] = events[j]
      BY <1>1, <2>2, Domains DEF EventSet
    <3>2. received'[j] = received[j] /\ lost'[j] = lost[j]
      BY <2>2, <3>1
    <3>3. /\ events[j].at = "unread" => failures > 0
          /\ failures >= (IF events[j].at = "done" THEN 0 ELSE events[j].tries)
      BY <3>1 DEF EventsInv
    <3>4. /\ events[j].at = "unread" => failures' > 0
          /\ failures' >= (IF events[j].at = "done" THEN 0 ELSE events[j].tries)
      BY <3>1, <3>3
    <3>5. /\ events[j].at \in {"url", "silent", "unread", "post"} => events[j].tries = 0
          /\ events[j].at = "silent" => ~addressed
          /\ events[j].at \in {"sleep", "dropped"} => events[j].tries > 0
          /\ events[j].at = "sleep" => events[j].kind \in Critical /\ events[j].tries \in 1 .. Retries
          /\ events[j].at = "dropped" /\ events[j].kind \in Critical => events[j].tries = Retries + 1
          /\ received[j] = lost[j] + (IF events[j].at = "done" THEN 1 ELSE 0)
      BY <3>1 DEF EventsInv
    <3> QED BY <3>1, <3>2, <3>4, <3>5
  <2> QED BY <2>1, <2>2
<1>4. addressed' = addressed /\ addressed \in BOOLEAN /\ owed' \subseteq DOMAIN events'
  BY <1>1 DEF EventsInv
<1>5. \A j \in DOMAIN events' : events'[j].at = "silent" => ~addressed'
  BY <1>3, <1>4
<1> QED BY <1>1, <1>2, <1>3, <1>4, <1>5 DEF EventsInv

\* It looks for the address, posts, and counts.
LEMMA GoroutineEvents ==
  ASSUME CountInv, EventsInv, NEW i \in 1 .. MaxEvents, Goroutine(i)
  PROVE  EventsInv'
<1>1. CASE FindURL(i)
  <2>1. /\ i \in DOMAIN events /\ events[i].at = "url" /\ received' = received /\ lost' = lost
        /\ owed' = owed /\ addressed' = addressed /\ failures \in Nat
    BY <1>1 DEF FindURL, At, CountInv
  <2>2. \/ events' = Moved(i, "post", 0) /\ failures' = failures
        \/ events' = Moved(i, "silent", 0) /\ failures' = failures /\ ~addressed
        \/ events' = Moved(i, "unread", 0) /\ failures' = failures + 1
    BY <1>1 DEF FindURL, Fails
  <2>3. received[i] = lost[i] /\ owed \subseteq DOMAIN events
    BY <2>1, Domains DEF EventsInv
  <2>4. received' \in [DOMAIN events -> Nat] /\ lost' \in [DOMAIN events -> Nat] /\ lost[i] \in Nat
    BY <2>1, Domains
  <2>5. CASE events' = Moved(i, "post", 0) /\ failures' = failures
    BY <2>1, <2>3, <2>4, <2>5, MoveKeeps
  <2>6. CASE events' = Moved(i, "silent", 0) /\ failures' = failures /\ ~addressed
    BY <2>1, <2>3, <2>4, <2>6, MoveKeeps
  <2>7. CASE events' = Moved(i, "unread", 0) /\ failures' = failures + 1
    BY <2>1, <2>3, <2>4, <2>7, MoveKeeps
  <2> QED BY <2>2, <2>5, <2>6, <2>7
<1>2. CASE Post(i)
  <2> DEFINE t == events[i].tries + 1
  <2>1. i \in DOMAIN events /\ events[i].at \in {"post", "sleep"} /\ t \in Nat
    <3>1. i \in DOMAIN events /\ events[i].at \in {"post", "sleep"}
      BY <1>2 DEF Post, At
    <3> QED BY <3>1, Domains DEF EventSet
  <2>2. received[i] \in Nat /\ lost[i] \in Nat /\ received[i] = lost[i]
    <3>1. received[i] \in Nat /\ lost[i] \in Nat
      BY <2>1, Domains
    <3>2. received[i] = lost[i] + 0
      BY <2>1 DEF EventsInv
    <3> QED BY <3>1, <3>2
  <2>3. received' = [received EXCEPT ![i] = @ + 1] \/ received' = [received EXCEPT ![i] = @ + 0]
    BY <1>2 DEF Post, Answered
  <2>4. \/ /\ received' = [received EXCEPT ![i] = @ + 1] /\ lost' = lost
           /\ events' = Moved(i, "done", t) /\ failures' = failures
        \/ /\ received' = [received EXCEPT ![i] = @ + 0] /\ lost' = lost
           /\ events' = Moved(i, AfterFailure(i), t) /\ failures' = failures + 1
        \/ /\ received' = [received EXCEPT ![i] = @ + 1] /\ lost' = [lost EXCEPT ![i] = @ + 1]
           /\ events' = Moved(i, AfterFailure(i), t) /\ failures' = failures + 1
    BY <1>2 DEF Post, Answered, AfterSuccess, Fails
  <2>5. owed' \subseteq DOMAIN events /\ addressed' = addressed
    BY <1>2, <2>1 DEF Post, Answered, EventsInv
  <2>6. /\ AfterFailure(i) \in {"sleep", "dropped"}
        /\ AfterFailure(i) = "sleep" => events[i].kind \in Critical /\ t \in 1 .. Retries
        /\ AfterFailure(i) = "dropped" /\ events[i].kind \in Critical => t = Retries + 1
    <3>1. Retries \in Nat /\ events[i].tries \in Nat
      BY <2>1, Domains, EmissionAssumption DEF EventSet
    <3>2. events[i].tries \in 0 .. Retries
      <4>1. CASE events[i].at = "post"
        <5>1. events[i].tries = 0
          BY <2>1, <4>1 DEF EventsInv
        <5> QED BY <3>1, <5>1
      <4>2. CASE events[i].at = "sleep"
        <5>1. events[i].tries \in 1 .. Retries
          BY <2>1, <4>2 DEF EventsInv
        <5> QED BY <3>1, <5>1
      <4> QED BY <2>1, <4>1, <4>2
    <3> QED BY <3>1, <3>2 DEF AfterFailure
  <2>7. failures \in Nat /\ failures + 1 >= t /\ t > 0
    <3>1. failures \in Nat /\ events[i].tries \in Nat
      BY <2>1, Domains DEF CountInv, EventSet
    <3>2. failures >= events[i].tries
      BY <2>1 DEF EventsInv
    <3> QED BY <3>1, <3>2
  <2> HIDE DEF t
  <2>8. CASE /\ received' = [received EXCEPT ![i] = @ + 1] /\ lost' = lost
             /\ events' = Moved(i, "done", t) /\ failures' = failures
    <3>1. received' \in [DOMAIN events -> Nat] /\ received'[i] = received[i] + 1
          /\ \A j \in DOMAIN events \ {i} : received'[j] = received[j]
      BY <2>1, <2>8, Domains
    <3> QED BY <2>1, <2>2, <2>5, <2>7, <2>8, <3>1, MoveKeeps, Domains
  <2>9. CASE /\ events' = Moved(i, AfterFailure(i), t) /\ failures' = failures + 1
             /\ \E n \in {0, 1} :
                  received' = [received EXCEPT ![i] = @ + n] /\ lost' = [lost EXCEPT ![i] = @ + n]
    <3>1. /\ received' \in [DOMAIN events -> Nat] /\ lost' \in [DOMAIN events -> Nat] /\ received'[i] = lost'[i]
          /\ \A j \in DOMAIN events \ {i} : received'[j] = received[j] /\ lost'[j] = lost[j]
      BY <2>1, <2>2, <2>9, Domains
    <3>2. received'[i] = lost'[i] + 0
      BY <2>1, <3>1
    <3> QED BY <2>1, <2>5, <2>6, <2>7, <2>9, <3>1, <3>2, MoveKeeps
  <2>10. lost = [lost EXCEPT ![i] = @ + 0]
    BY <2>1, <2>2, Domains
  <2> QED BY <2>4, <2>8, <2>9, <2>10
<1>3. CASE CountEvent(i)
  BY <1>3 DEF CountEvent, EventsInv
<1> QED BY <1>1, <1>2, <1>3 DEF Goroutine

-----------------------------------------------------------------------------
(* The announcement of the stop *)

\* An event keeps its kind, and its end.
LEMMA GoroutineKeeps ==
  ASSUME CountInv, EventsInv, NEW i \in 1 .. MaxEvents, Goroutine(i)
  PROVE  /\ \A kind : Of(kind)' = Of(kind)
         /\ \A j \in DOMAIN events : events[j].at \notin {"url", "post"} => events'[j].at \notin {"url", "post"}
         /\ failures' \in {failures, failures + 1}
<1>1. CASE FindURL(i)
  <2>1. /\ i \in DOMAIN events /\ events[i].at = "url"
        /\ \E place \in {"post", "silent", "unread"} : events' = Moved(i, place, 0)
    BY <1>1 DEF FindURL, At
  <2>2. /\ DOMAIN events' = DOMAIN events /\ events'[i].kind = events[i].kind
        /\ \A j \in DOMAIN events \ {i} : events'[j] = events[j]
    BY <2>1, MoveEvents
  <2>3. failures' \in {failures, failures + 1}
    BY <1>1 DEF FindURL, Fails
  <2> QED BY <2>1, <2>2, <2>3 DEF Of
<1>2. CASE Post(i)
  <2>1. i \in DOMAIN events /\ events[i].at \in {"post", "sleep"}
    BY <1>2 DEF Post, At
  <2>2. \E place \in {"done", "sleep", "dropped"} : events' = Moved(i, place, events[i].tries + 1)
    BY <1>2 DEF Post, AfterSuccess, AfterFailure
  <2>3. events[i].tries + 1 \in Nat
    BY <2>1, Domains DEF EventSet
  <2>4. /\ DOMAIN events' = DOMAIN events /\ events'[i].kind = events[i].kind
        /\ \A j \in DOMAIN events \ {i} : events'[j] = events[j]
        /\ events'[i].at \in {"done", "sleep", "dropped"}
    BY <2>1, <2>2, <2>3, MoveEvents
  <2>5. failures' = failures \/ failures' = failures + 1
    BY <1>2, Zenon DEF Post, Fails
  <2> QED BY <2>1, <2>4, <2>5 DEF Of
<1>3. CASE CountEvent(i)
  BY <1>3 DEF CountEvent, Of
<1> QED BY <1>1, <1>2, <1>3 DEF Goroutine

\* An emit only adds to the events of a kind, and ends none.
LEMMA EmitKeeps ==
  ASSUME EventsInv, NEW kinds \in Seq(Kinds), Emit(kinds)
  PROVE  /\ \A kind : Of(kind) \subseteq Of(kind)'
         /\ \A j \in DOMAIN events : events[j].at \notin {"url", "post"} => events'[j].at \notin {"url", "post"}
<1>1. ASSUME NEW kind PROVE Of(kind) \subseteq Of(kind)'
  BY EmitOf
<1>2. \A j \in DOMAIN events : events'[j] = events[j]
  BY EmitAdds
<1> QED BY <1>1, <1>2

\* Whatever happens to the events, the announcement stays made and answered.
LEMMA AnnounceStays ==
  ASSUME AnnounceInv, phase' = phase, hurried' = hurried,
         Of("backend_restarting") \subseteq Of("backend_restarting")',
         \A j \in DOMAIN events : events[j].at \notin {"url", "post"} => events'[j].at \notin {"url", "post"}
  PROVE  AnnounceInv'
<1>1. \A j \in Of("backend_restarting") : j \in DOMAIN events
  BY DEF Of
<1> QED BY <1>1 DEF AnnounceInv

\* The stop is announced, waited for, and done.
LEMMA AnnounceShutdown ==
  ASSUME EventsInv, AnnounceInv, Shutdown
  PROVE  AnnounceInv'
<1>1. CASE BroadcastBackendRestarting
  <2>1. <<"backend_restarting">> \in Seq(Kinds) /\ Emit(<<"backend_restarting">>)
    BY <1>1 DEF BroadcastBackendRestarting, Kinds
  <2>2. Len(events) + 1 \in Of("backend_restarting")'
    <3> DEFINE kinds == <<"backend_restarting">>
    <3>1. 1 \in {j \in DOMAIN kinds : kinds[j] = "backend_restarting"}
      OBVIOUS
    <3>2. kinds \in Seq(Kinds) /\ Emit(kinds)
      BY <2>1
    <3> HIDE DEF kinds
    <3> QED BY <3>1, <3>2, EmitOf
  <2> QED BY <1>1, <2>2 DEF BroadcastBackendRestarting, AnnounceInv
<1>2. CASE BroadcastReturns
  <2>1. phase = "notifying" /\ phase' = "grace" /\ failures' = failures /\ events' = events
        /\ \/ (\A i \in Of("backend_restarting") : Returned(i)) /\ hurried' = hurried
           \/ hurried' = TRUE
    BY <1>2 DEF BroadcastReturns, webhook
  <2>2. Of("backend_restarting")' = Of("backend_restarting")
    BY <2>1 DEF Of
  <2>3. PICK i \in Of("backend_restarting") : TRUE
    BY <2>1 DEF AnnounceInv
  <2>4. Returned(i) => events[i].at \notin {"url", "post"}
    BY DEF Returned
  <2> QED BY <2>1, <2>2, <2>3, <2>4 DEF AnnounceInv
<1>3. CASE Exit
  BY <1>3 DEF Exit, AnnounceInv, webhook, Of
<1> QED BY <1>1, <1>2, <1>3 DEF Shutdown

-----------------------------------------------------------------------------
(* The alerts *)

\* There are three alerts.
LEMMA AlertsFinite == IsFiniteSet(Alerts)
<1>1. IsFiniteSet({} \cup {"high_velocity"})
  BY FS_EmptySet, FS_AddElement
<1>2. IsFiniteSet(({} \cup {"high_velocity"}) \cup {"burst_outreach"})
  BY <1>1, FS_AddElement
<1>3. IsFiniteSet((({} \cup {"high_velocity"}) \cup {"burst_outreach"}) \cup {"low_delivery"})
  BY <1>2, FS_AddElement
<1>4. Alerts = (({} \cup {"high_velocity"}) \cup {"burst_outreach"}) \cup {"low_delivery"}
  BY DEF Alerts
<1> QED BY <1>3, <1>4

\* An evaluation emits the alerts that have come up, each once, and counts
\* those that have gone.
LEMMA AlertEvaluate ==
  ASSUME EventsInv, AlertInv, Evaluate
  PROVE  AlertInv'
<1> DEFINE kinds == SetToSeq(NewAlerts)
<1>1. Current \subseteq Alerts /\ NewAlerts \subseteq Alerts /\ IsFiniteSet(NewAlerts)
  <2>1. NewAlerts \subseteq Alerts /\ Current \subseteq Alerts
    BY DEF Current, NewAlerts
  <2> QED BY <2>1, AlertsFinite, FS_Subset
<1>2. /\ kinds \in Seq(NewAlerts)
      /\ \A a \in NewAlerts : \E k \in DOMAIN kinds : kinds[k] = a
      /\ \A j, k \in DOMAIN kinds : kinds[j] = kinds[k] => j = k
  BY <1>1, SeqOfSet
<1>3. kinds \in Seq(Kinds) /\ Emit(kinds) /\ \A k \in DOMAIN kinds : kinds[k] \in NewAlerts
  <2>1. kinds \in Seq(Kinds)
    BY <1>1, <1>2, SeqMonotonic DEF Kinds
  <2> QED BY <1>2, <2>1 DEF Evaluate
<1> HIDE DEF kinds
<1>4. active' = Current /\ downs' = [a \in Alerts |-> IF a \in active \ Current THEN downs[a] + 1 ELSE downs[a]]
  BY DEF Evaluate
<1>5. ASSUME NEW a \in Alerts
      PROVE  Cardinality(Of(a)') = downs'[a] + (IF a \in active' THEN 1 ELSE 0)
  <2>1. IsFiniteSet(Of(a)) /\ Cardinality(Of(a)) \in Nat
    <3>1. Len(events) \in Nat /\ Of(a) \subseteq 1 .. Len(events)
      BY Domains DEF Of
    <3>2. IsFiniteSet(1 .. Len(events))
      BY <3>1, FS_Interval
    <3> QED BY <3>1, <3>2, FS_Subset, FS_CardinalityType
  <2>2. Cardinality(Of(a)) = downs[a] + (IF a \in active THEN 1 ELSE 0) /\ downs[a] \in Nat
    BY DEF AlertInv, AlertOncePerRise
  <2>3. CASE a \in NewAlerts
    <3>1. PICK k \in DOMAIN kinds : kinds[k] = a
      BY <1>2, <2>3
    <3>2. Of(a)' = Of(a) \cup {Len(events) + k} /\ Len(events) + k \notin Of(a)
      <4>1. {j \in DOMAIN kinds : kinds[j] = a} = {k}
        BY <1>2, <3>1
      <4> QED BY <1>3, <3>1, <4>1, EmitOf
    <3>3. Cardinality(Of(a)') = Cardinality(Of(a)) + 1
      BY <2>1, <3>2, FS_AddElement
    <3>4. a \in Current /\ a \notin active
      BY <2>3 DEF NewAlerts
    <3> QED BY <1>4, <2>1, <2>2, <3>3, <3>4
  <2>4. CASE a \notin NewAlerts
    <3>1. {j \in DOMAIN kinds : kinds[j] = a} = {}
      BY <1>3, <2>4
    <3>2. Of(a)' = Of(a)
      <4>1. {Len(events) + j : j \in {}} = {}
        OBVIOUS
      <4>2. Of(a)' = Of(a) \cup {Len(events) + j : j \in {m \in DOMAIN kinds : kinds[m] = a}}
        BY <1>3, EmitOf
      <4> QED BY <3>1, <4>1, <4>2
    <3>3. a \in Current => a \in active
      BY <2>4 DEF NewAlerts
    <3> QED BY <1>4, <2>1, <2>2, <3>2, <3>3
  <2> QED BY <2>3, <2>4
<1>6. downs' \in [Alerts -> Nat]
  BY <1>4 DEF AlertInv
<1> QED BY <1>1, <1>4, <1>5, <1>6 DEF AlertInv, AlertOncePerRise

\* Other events do not touch the alerts.
LEMMA AlertStays ==
  ASSUME AlertInv, active' = active, downs' = downs, \A a \in Alerts : Of(a)' = Of(a)
  PROVE  AlertInv'
BY DEF AlertInv, AlertOncePerRise

\* An emit of another kind does not touch them either.
LEMMA EmitOther ==
  ASSUME EventsInv, NEW kind \in Kinds \ Alerts, Emit(<<kind>>)
  PROVE  \A a \in Alerts : Of(a)' = Of(a)
<1>1. <<kind>> \in Seq(Kinds) /\ DOMAIN <<kind>> = {1} /\ <<kind>>[1] = kind
  OBVIOUS
<1>2. ASSUME NEW a \in Alerts PROVE Of(a)' = Of(a)
  <2>1. {j \in DOMAIN <<kind>> : <<kind>>[j] = a} = {}
    BY <1>1
  <2>2. {Len(events) + j : j \in {}} = {}
    OBVIOUS
  <2>3. Of(a)' = Of(a) \cup {Len(events) + j : j \in {m \in DOMAIN <<kind>> : <<kind>>[m] = a}}
    BY <1>1, EmitOf
  <2> QED BY <2>1, <2>2, <2>3
<1> QED BY <1>2

-----------------------------------------------------------------------------
(* Every step *)

\* Nothing is counted, emitted or announced yet.
LEMMA InitInv == Init => EmissionInv
<1> SUFFICES ASSUME Init PROVE EmissionInv
  OBVIOUS
<1>1. CountInv
  BY DEF Init, CountInv, CountsConserved, LastFlushTakesAll
<1>2. EventsInv
  BY DEF Init, EventsInv
<1>3. AnnounceInv
  BY DEF Init, AnnounceInv
<1>4. AlertInv
  <2>1. \A a : Of(a) = {}
    BY DEF Init, Of
  <2> QED BY <2>1, FS_EmptySet DEF Init, AlertInv, AlertOncePerRise
<1> QED BY <1>1, <1>2, <1>3, <1>4 DEF EmissionInv

\* Steps that leave the events alone.
LEMMA QuietStep ==
  ASSUME EmissionInv, UNCHANGED <<events, received, addressed, lost, owed, active, downs, phase, hurried>>,
         CountInv', failures' \in {failures, failures + 1}
  PROVE  EmissionInv'
<1>1. EventsInv'
  <2>1. failures \in Nat /\ \A i \in DOMAIN events : events[i].tries \in Nat
    BY Domains DEF EmissionInv, CountInv, EventSet
  <2> QED BY <2>1 DEF EmissionInv, EventsInv
<1>2. \A kind : Of(kind)' = Of(kind)
  BY DEF Of
<1>3. AnnounceInv'
  BY <1>2, AnnounceStays DEF EmissionInv
<1>4. AlertInv'
  BY <1>2, AlertStays DEF EmissionInv
<1> QED BY <1>1, <1>3, <1>4 DEF EmissionInv

\* Steps that emit events, and do not count.
LEMMA EmitStep ==
  ASSUME EmissionInv, NEW kinds \in Seq(Kinds), Emit(kinds), UNCHANGED <<usage, failures>>,
         AlertInv', AnnounceInv'
  PROVE  EmissionInv'
<1>1. CountInv'
  BY CountStays DEF EmissionInv
<1>2. EventsInv'
  BY EmitEvents DEF EmissionInv, CountInv
<1> QED BY <1>1, <1>2 DEF EmissionInv

\* Every step, and none, keeps the invariant.
LEMMA StepInv ==
  ASSUME EmissionInv, [Next]_vars
  PROVE  EmissionInv'
<1>0. CountInv /\ EventsInv /\ AnnounceInv /\ AlertInv
  BY DEF EmissionInv
<1>1. ASSUME NEW jid \in JIDs, NEW ok \in BOOLEAN, Send(jid, ok) PROVE EmissionInv'
  <2>1. CountInv'
    BY <1>0, <1>1, CountCounts, CountStays DEF Send
  <2> QED BY <1>1, <2>1, QuietStep DEF Send, webhook
<1>2. CASE TimePasses \/ UNCHANGED vars
  <2>1. UNCHANGED <<usage, failures, events, received, addressed, lost, owed, active, downs, phase, hurried>>
    BY <1>2 DEF TimePasses, vars, banwatch, webhook
  <2>2. CountInv'
    BY <1>0, <2>1, CountStays
  <2> QED BY <2>1, <2>2, QuietStep
<1>3. CASE Evaluate
  <2> DEFINE kinds == SetToSeq(NewAlerts)
  <2>1. kinds \in Seq(Kinds) /\ Emit(kinds) /\ UNCHANGED <<usage, failures>> /\ phase' = phase /\ hurried' = hurried
    <3>1. NewAlerts \subseteq Kinds /\ NewAlerts \subseteq Alerts
      BY DEF NewAlerts, Current, Kinds
    <3>2. kinds \in Seq(NewAlerts)
      BY <3>1, AlertsFinite, FS_Subset, SeqOfSet
    <3> QED BY <1>3, <3>1, <3>2, SeqMonotonic DEF Evaluate
  <2>2. AlertInv'
    BY <1>0, <1>3, AlertEvaluate
  <2> HIDE DEF kinds
  <2>3. AnnounceInv'
    BY <1>0, <2>1, EmitKeeps, AnnounceStays
  <2> QED BY <2>1, <2>2, <2>3, EmitStep
<1>4. CASE Flush
  <2>1. CountInv'
    BY <1>0, <1>4, CountFlush
  <2>2. /\ UNCHANGED <<events, received, addressed, lost, owed, active, downs, phase, hurried>>
        /\ failures' \in {failures, failures + 1}
    BY <1>4 DEF Flush, FlushBegins, Upsert, FlushEnds, Fails, banwatch, webhook
  <2> QED BY <2>1, <2>2, QuietStep
<1>5. ASSUME NEW i \in 1 .. MaxEvents, Goroutine(i) PROVE EmissionInv'
  <2>1. EventsInv'
    BY <1>0, <1>5, GoroutineEvents
  <2>2. /\ \A kind : Of(kind)' = Of(kind)
        /\ \A j \in DOMAIN events : events[j].at \notin {"url", "post"} => events'[j].at \notin {"url", "post"}
    BY <1>0, <1>5, GoroutineKeeps
  <2>3. UNCHANGED <<phase, hurried, active, downs>>
    BY <1>5 DEF Goroutine, FindURL, Post, CountEvent, banwatch
  <2>4. CountInv'
    BY <1>0, <1>5, CountCounts, CountStays DEF Goroutine, FindURL, Post, CountEvent
  <2>5. AnnounceInv'
    BY <1>0, <2>2, <2>3, AnnounceStays
  <2>6. AlertInv'
    BY <1>0, <2>2, <2>3, AlertStays
  <2> QED BY <2>1, <2>4, <2>5, <2>6 DEF EmissionInv
<1>6. CASE BroadcastBackendStarted
  <2>1. /\ <<"backend_started">> \in Seq(Kinds) /\ Emit(<<"backend_started">>)
        /\ UNCHANGED <<usage, failures, phase, active, downs, hurried>>
    BY <1>6 DEF BroadcastBackendStarted, Kinds, banwatch
  <2>2. AlertInv'
    <3>1. "backend_started" \in Kinds \ Alerts
      BY DEF Kinds, Alerts
    <3> QED BY <1>0, <2>1, <3>1, EmitOther, AlertStays
  <2>3. AnnounceInv'
    BY <1>0, <2>1, EmitKeeps, AnnounceStays
  <2> QED BY <2>1, <2>2, <2>3, EmitStep
<1>7. CASE Stop
  <2>1. UNCHANGED <<events, received, addressed, lost, owed, active, downs, hurried, usage, failures>> /\ phase = "up" /\ phase' = "stopping"
    BY <1>7 DEF Stop, banwatch, webhook
  <2>2. CountInv'
    BY <1>0, <2>1, CountStays
  <2>3. EventsInv' /\ \A kind : Of(kind)' = Of(kind)
    BY <1>0, <2>1 DEF EventsInv, Of
  <2>4. AnnounceInv'
    BY <1>0, <2>1 DEF AnnounceInv
  <2>5. AlertInv'
    BY <1>0, <2>1, <2>3, AlertStays
  <2> QED BY <2>2, <2>3, <2>4, <2>5 DEF EmissionInv
<1>8. CASE Shutdown
  <2>1. AnnounceInv'
    BY <1>0, <1>8, AnnounceShutdown
  <2>2. CASE BroadcastBackendRestarting
    <3>1. /\ <<"backend_restarting">> \in Seq(Kinds) /\ Emit(<<"backend_restarting">>)
          /\ UNCHANGED <<usage, failures, active, downs, hurried>>
      BY <2>2 DEF BroadcastBackendRestarting, Kinds, banwatch
    <3>2. "backend_restarting" \in Kinds \ Alerts
      BY DEF Kinds, Alerts
    <3>3. AlertInv'
      BY <1>0, <3>1, <3>2, EmitOther, AlertStays
    <3> QED BY <2>1, <3>1, <3>3, EmitStep
  <2>3. CASE BroadcastReturns \/ Exit
    <3>1. UNCHANGED <<events, received, addressed, lost, owed, active, downs, usage, failures>>
      BY <2>3 DEF BroadcastReturns, Exit, banwatch, webhook
    <3>2. CountInv'
      BY <1>0, <3>1, CountStays
    <3>3. EventsInv' /\ \A kind : Of(kind)' = Of(kind)
      BY <1>0, <3>1 DEF EventsInv, Of
    <3>4. AlertInv'
      BY <1>0, <3>1, <3>3, AlertStays
    <3> QED BY <2>1, <3>2, <3>3, <3>4 DEF EmissionInv
  <2> QED BY <1>8, <2>2, <2>3 DEF Shutdown
<1> QED BY <1>1, <1>2, <1>3, <1>4, <1>5, <1>6, <1>7, <1>8 DEF Next

-----------------------------------------------------------------------------
(* Theorems *)

\* The invariant holds however sends, events, flushes and the stop interleave.
THEOREM EmissionSafe == Spec => []EmissionInv
BY InitInv, StepInv, PTL DEF Spec

\* The bucket holds sends that were made, each once.
BucketInv ==
  /\ sent \in 0 .. MaxSends
  /\ window \subseteq [n : 1 .. sent, jid : JIDs, ok : BOOLEAN, age : 0 .. 3]
  /\ \A e, f \in window : e.n = f.n => e = f

\* A new send has the next number, time and compaction leave the numbers alone.
LEMMA BucketStep ==
  ASSUME BucketInv, [Next]_vars
  PROVE  BucketInv'
<1>0. MaxSends \in Nat /\ sent \in Nat
  BY EmissionAssumption DEF BucketInv
<1>1. ASSUME NEW jid \in JIDs, NEW ok \in BOOLEAN, Send(jid, ok) PROVE BucketInv'
  <2> DEFINE x == [n |-> sent', jid |-> jid, ok |-> ok, age |-> 0]
  <2>1. sent' = sent + 1 /\ sent < MaxSends /\ window' \subseteq window \cup {x}
    BY <1>1 DEF Send, Compacted
  <2>2. sent' \in 0 .. MaxSends /\ 1 .. sent \subseteq 1 .. sent' /\ sent' \in 1 .. sent'
    BY <1>0, <2>1
  <2>3. window \subseteq [n : 1 .. sent', jid : JIDs, ok : BOOLEAN, age : 0 .. 3]
    BY <2>2 DEF BucketInv
  <2>4. x \in [n : 1 .. sent', jid : JIDs, ok : BOOLEAN, age : 0 .. 3] /\ x.n = sent'
    BY <2>2
  <2>5. \A e \in window : e.n # sent'
    BY <1>0, <2>1 DEF BucketInv
  <2> HIDE DEF x
  <2> QED BY <2>1, <2>2, <2>3, <2>4, <2>5 DEF BucketInv
<1>2. CASE TimePasses
  <2> DEFINE Older(e) == [e EXCEPT !.age = IF @ > 2 THEN @ ELSE @ + 1]
  <2>1. \A e \in window : Older(e) \in [n : 1 .. sent, jid : JIDs, ok : BOOLEAN, age : 0 .. 3] /\ Older(e).n = e.n
    BY DEF BucketInv
  <2>2. window' = {Older(e) : e \in window} /\ sent' = sent
    BY <1>2 DEF TimePasses
  <2> HIDE DEF Older
  <2> QED BY <2>1, <2>2 DEF BucketInv
<1>3. CASE Evaluate
  <2>1. window' \subseteq window /\ sent' = sent
    BY <1>3 DEF Evaluate, Compacted
  <2> QED BY <2>1 DEF BucketInv
<1>4. ASSUME UNCHANGED <<window, sent>> PROVE BucketInv'
  BY <1>4 DEF BucketInv
<1>5. ASSUME UNCHANGED banwatch PROVE BucketInv'
  BY <1>4, <1>5 DEF banwatch
<1> QED BY <1>1, <1>2, <1>3, <1>5 DEF Next, vars, Flush, FlushBegins, Upsert, FlushEnds, Goroutine, FindURL, Post,
        CountEvent, BroadcastBackendStarted, Stop, Shutdown, BroadcastBackendRestarting, BroadcastReturns, Exit

\* Sends, alerts, events, counts and the phases of the way out keep their types.
THEOREM TypeCorrect == Spec => []EmissionTypeOK
<1>1. Init => BucketInv
  BY EmissionAssumption DEF Init, BucketInv
<1>2. EmissionInv /\ BucketInv => EmissionTypeOK
  BY DEF EmissionInv, CountInv, EventsInv, AnnounceInv, AlertInv, BucketInv, EmissionTypeOK, EventSet, Kinds
<1> QED BY <1>1, <1>2, BucketStep, EmissionSafe, PTL DEF Spec

\* What was counted is in memory, being written or in the table (Flush).
THEOREM NothingUncounted == Spec => []CountsConserved
<1>1. EmissionInv => CountsConserved
  BY DEF EmissionInv, CountInv
<1> QED BY EmissionSafe, <1>1, PTL

\* Only what comes after the last flush began is still in memory at its end
\* (Tracker.loop).
THEOREM LastFlush == Spec => []LastFlushTakesAll
<1>1. EmissionInv => LastFlushTakesAll
  BY DEF EmissionInv, CountInv
<1> QED BY EmissionSafe, <1>1, PTL

\* An alert that stays up is emitted once (evaluate).
THEOREM OncePerRise == Spec => []AlertOncePerRise
<1>1. EmissionInv => AlertOncePerRise
  BY DEF EmissionInv, AlertInv
<1> QED BY EmissionSafe, <1>1, PTL

\* A critical event is received or on its way, cut off by the exit, without an
\* address, or has used up its attempts, each of which failed
\* (emitCustomWebhook, postWebhookWithRetry).
THEOREM CriticalDelivered == Spec => []CriticalIsDelivered
<1>1. EmissionInv => CriticalIsDelivered
  <2> SUFFICES ASSUME EventsInv, NEW i \in DOMAIN events
               PROVE  /\ events[i].kind \in Alerts \cup {"backend_restarting"} =>
                           \/ received[i] > 0 \/ OnItsWay(i) \/ CutOff(i) \/ Untold(i)
                           \/ events[i].tries = Retries + 1 /\ Tried(i)
                      /\ received[i] <= 1 + lost[i]
    BY DEF EmissionInv, CriticalIsDelivered
  <2>1. received[i] \in Nat /\ lost[i] \in Nat /\ events[i] \in EventSet
    BY Domains
  <2>2. received[i] = lost[i] + (IF events[i].at = "done" THEN 1 ELSE 0)
    BY DEF EventsInv
  <2>3. received[i] > 0 \/ events[i].at # "done"
    BY <2>1, <2>2
  <2>4. events[i].at \in {"url", "post", "sleep"} => OnItsWay(i) \/ CutOff(i)
    BY DEF OnItsWay, CutOff, InHand
  <2>5. events[i].at \in {"silent", "unread"} => Untold(i)
    BY DEF EventsInv, Untold
  <2>6. events[i].at = "dropped" /\ events[i].kind \in Critical => events[i].tries = Retries + 1 /\ Tried(i)
    BY DEF EventsInv, Tried
  <2>7. received[i] <= 1 + lost[i]
    BY <2>1, <2>2
  <2> QED BY <2>1, <2>3, <2>4, <2>5, <2>6, <2>7 DEF EventSet, Critical
<1> QED BY EmissionSafe, <1>1, PTL

\* A process that waited for the receiver does not exit before its restart was
\* received, or tried and refused, or had no address (BroadcastBackendRestarting).
THEOREM RestartAnnounced == Spec => []RestartIsAnnounced
<1>1. EmissionInv => RestartIsAnnounced
  <2> SUFFICES ASSUME EventsInv, AnnounceInv, phase = "exited", ~hurried
               PROVE  \E i \in Of("backend_restarting") : received[i] > 0 \/ Untold(i) \/ Tried(i)
    BY DEF EmissionInv, RestartIsAnnounced
  <2>1. PICK i \in Of("backend_restarting") : events[i].at \notin {"url", "post"}
    BY DEF AnnounceInv
  <2>2. i \in DOMAIN events /\ received[i] \in Nat /\ lost[i] \in Nat /\ events[i] \in EventSet
    BY Domains DEF Of
  <2>3. events[i].at \in {"silent", "unread", "sleep", "done", "dropped"}
    BY <2>1, <2>2 DEF EventSet
  <2>4. CASE events[i].at = "done"
    BY <2>2, <2>4 DEF EventsInv
  <2>5. CASE events[i].at \in {"silent", "unread"}
    BY <2>2, <2>5 DEF EventsInv, Untold
  <2>6. CASE events[i].at \in {"sleep", "dropped"}
    BY <2>2, <2>6 DEF EventsInv, Tried
  <2> QED BY <2>3, <2>4, <2>5, <2>6
<1> QED BY EmissionSafe, <1>1, PTL

=============================================================================
