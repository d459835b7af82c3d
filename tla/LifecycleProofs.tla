-------------------------- MODULE LifecycleProofs --------------------------
(***************************************************************************)
(* Proofs about the lifecycle events, for every length of the timers and   *)
(* every number of events and failures: connected once per session, and    *)
(* reconnected only in answer to unreachable, and an outage never          *)
(* forgotten.                                                              *)
(*                                                                         *)
(* What makes the second true is OwedInv: an alarm that was sent is kept   *)
(* either by disconnectNotified or by the one goroutine that took it.      *)
(***************************************************************************)
EXTENDS Lifecycle, FiniteSetTheorems, TLAPS

\* At first nothing has been said and nothing runs.
LEMMA InitInv == Init => LifecycleInv
<1> SUFFICES ASSUME Init PROVE LifecycleInv
  OBVIOUS
<1>1. TypeOK
  <2>1. 0 \in 0 .. MaxEvents /\ 0 \in 0 .. MaxDbErrors
    BY LifecycleAssumption
  <2>2. <<>> \in Seq(Reports)
    OBVIOUS
  <2>3. /\ present \in BOOLEAN /\ paired \in BOOLEAN /\ up \in BOOLEAN /\ boot \in BOOLEAN
        /\ settled \in BOOLEAN /\ alarm \in BOOLEAN /\ told \in BOOLEAN
    BY Zenon DEF Init
  <2>4. n \in Nat /\ owed \in Int
    BY DEF Init
  <2>5. /\ queue \in Seq(Reports) /\ flags \subseteq Flags /\ running \subseteq Goroutine
        /\ events \in 0 .. MaxEvents /\ dberrs \in 0 .. MaxDbErrors
        /\ last \in Reports \cup {"none"}
    BY <2>1, <2>2 DEF Init
  <2> QED BY <2>3, <2>4, <2>5, Zenon DEF TypeOK
<1>2. NumberedInv /\ SettledInv
  BY FS_EmptySet DEF Init, NumberedInv, SettledInv
<1>3. Recovering = {} /\ Notified = 0 /\ owed = 0
  BY DEF Init, Recovering, Notified
<1> QED BY <1>1, <1>2, <1>3, FS_EmptySet DEF LifecycleInv, OwedInv

-----------------------------------------------------------------------------
(* Counting the recoveries in progress *)

\* The recoveries in progress are finitely many.
LEMMA Counts ==
  ASSUME NumberedInv
  PROVE  IsFiniteSet(Recovering) /\ Cardinality(Recovering) \in Nat
<1>1. Recovering \in SUBSET running /\ IsFiniteSet(running)
  BY DEF Recovering, NumberedInv
<1>2. IsFiniteSet(Recovering)
  BY <1>1, FS_Subset
<1> QED BY <1>2, FS_CardinalityType

\* A set that is covered by a function on S is no larger than S.
LEMMA Image ==
  ASSUME NEW S, NEW T, IsFiniteSet(S), NEW f \in [S -> T], \A t \in T : \E s \in S : f[s] = t
  PROVE  IsFiniteSet(T) /\ Cardinality(T) <= Cardinality(S)
<1>1. f \in Surjection(S, T)
  BY DEF Surjection
<1> QED BY <1>1, FS_Surjection

\* A goroutine that ends, or that has decided to post, is no recovery any more.
LEMMA EndsCounts ==
  ASSUME LifecycleInv, NEW g \in running, Ends(g)
  PROVE  /\ IsFiniteSet(running') /\ running' \subseteq running
         /\ Cardinality(Recovering') \in Nat
         /\ Cardinality(Recovering') <= Cardinality(Recovering)
<1>1. NumberedInv
  BY DEF LifecycleInv
<1>2. running' \in SUBSET running /\ IsFiniteSet(running)
  BY <1>1 DEF Ends, NumberedInv
<1>3. IsFiniteSet(running')
  BY <1>2, FS_Subset
<1>4. IsFiniteSet(Recovering) /\ Recovering' \in SUBSET Recovering
  BY <1>1, Counts DEF Recovering, Ends
<1>5. IsFiniteSet(Recovering') /\ Cardinality(Recovering') <= Cardinality(Recovering)
  BY <1>4, FS_Subset
<1> QED BY <1>2, <1>3, <1>5, FS_CardinalityType

\* A goroutine that moves on leaves the others where they are.
LEMMA GoesCounts ==
  ASSUME LifecycleInv, NEW g \in running, NEW at, NEW left \in Nat, Goes(g, at, left),
         g.at # "post", at \in {"claim", "check", "read", "grace", "post"}
  PROVE  /\ IsFiniteSet(running') /\ running' \subseteq Goroutine
         /\ \A h \in running' : h.n <= n
         /\ Cardinality(Recovering') \in Nat
         /\ Cardinality(Recovering') <= Cardinality(Recovering)
         /\ g \in Recovering /\ at = "post" =>
              Cardinality(Recovering') = Cardinality(Recovering) - 1
<1> DEFINE x == [g EXCEPT !.at = at, !.left = left]
<1>0. NumberedInv /\ running \subseteq Goroutine
  BY DEF LifecycleInv, TypeOK
<1>1. /\ x \in Goroutine /\ x.n = g.n /\ x.kind = g.kind /\ x.at = at
      /\ running' = (running \ {g}) \cup {x}
  BY <1>0 DEF Goroutine, Goes
<1>2. IsFiniteSet(running')
  BY <1>0, <1>1, FS_RemoveElement, FS_AddElement DEF NumberedInv
<1>3. \A h \in running' : h.n <= n
  BY <1>0, <1>1 DEF NumberedInv
<1>4. IsFiniteSet(Recovering) /\ Cardinality(Recovering) \in Nat
  BY <1>0, Counts
<1>5. IsFiniteSet(Recovering \ {g}) /\ Cardinality(Recovering \ {g}) \in Nat
      /\ Cardinality(Recovering \ {g}) =
           IF g \in Recovering THEN Cardinality(Recovering) - 1 ELSE Cardinality(Recovering)
  BY <1>4, FS_RemoveElement, FS_CardinalityType
<1>6. CASE x.kind = "reconnected" /\ x.at # "post" /\ g.at # "post"
  <2>1. Recovering' = (Recovering \ {g}) \cup {x} /\ g \in Recovering
    BY <1>1, <1>6 DEF Recovering
  <2> DEFINE R == Recovering \ {g}
  <2>2. IsFiniteSet(R \cup {x}) /\ Cardinality(R \cup {x}) = IF x \in R THEN Cardinality(R) ELSE Cardinality(R) + 1
    BY <1>5, FS_AddElement
  <2>3. Cardinality(Recovering') <= Cardinality(R) + 1 /\ Cardinality(Recovering') \in Nat
    BY <2>1, <2>2, <1>5
  <2> QED BY <2>1, <2>3, <1>0, <1>1, <1>2, <1>3, <1>4, <1>5, <1>6
<1>7. CASE ~(x.kind = "reconnected" /\ x.at # "post")
  <2>1. Recovering' = Recovering \ {g}
    BY <1>1, <1>7 DEF Recovering
  <2> QED BY <2>1, <1>0, <1>1, <1>2, <1>3, <1>4, <1>5
<1> QED BY <1>1, <1>6, <1>7

\* New goroutines that recover nothing.
LEMMA StartsCounts ==
  ASSUME LifecycleInv, NEW X, X \subseteq Goroutine, IsFiniteSet(X), running' = running \cup X,
         \A h \in X : h.n = n + 1 /\ h.kind # "reconnected"
  PROVE  /\ IsFiniteSet(running') /\ running' \subseteq Goroutine
         /\ \A h \in running' : h.n <= n + 1
         /\ Recovering' = Recovering
<1>1. NumberedInv /\ running \subseteq Goroutine /\ n \in Nat
  BY DEF LifecycleInv, TypeOK
<1>2. IsFiniteSet(running')
  BY <1>1, FS_Union DEF NumberedInv
<1>3. \A h \in running : h.n \in Nat /\ h.n <= n
  BY <1>1 DEF Goroutine, NumberedInv
<1> QED BY <1>1, <1>2, <1>3 DEF Recovering

-----------------------------------------------------------------------------
(* The surroundings *)

\* Steps that leave the goroutines, the flags and the count alone.
LEMMA QuietInv ==
  ASSUME LifecycleInv, TypeOK', UNCHANGED <<running, flags, n, owed>>, settled' => settled
  PROVE  LifecycleInv'
BY DEF LifecycleInv, NumberedInv, SettledInv, OwedInv, Recovering, Notified

\* Connections, API calls and the events they queue.
LEMMA SurroundingsInv ==
  ASSUME LifecycleInv, Surroundings
  PROVE  LifecycleInv'
<1>0. TypeOK
  BY DEF LifecycleInv
<1>1. /\ UNCHANGED <<running, flags, n, owed, dberrs, boot, alarm, told>>
      /\ settled' = settled \/ settled' = FALSE
      /\ last' = last \/ last' = "none"
      /\ queue' = queue \/ \E r \in Reports : queue' = Append(queue, r)
      /\ Event
  <2>1. CASE ApiRestart \/ ApiLogout \/ ApiDelete \/ ApiCreate
    BY <2>1, Zenon DEF ApiRestart, ApiLogout, ApiDelete, ApiCreate, Replace
  <2>2. CASE Drop \/ ServerLogout \/ Handshake \/ Pair \/ Strike
    BY <2>2, Zenon DEF Drop, ServerLogout, Handshake, Pair, Strike, Report, Reports,
                       connection, history
  <2> QED BY <2>1, <2>2 DEF Surroundings
<1>2. present' \in BOOLEAN /\ paired' \in BOOLEAN /\ up' \in BOOLEAN
  BY <1>0, Zenon DEF TypeOK, Surroundings, ApiRestart, ApiLogout, ApiDelete, ApiCreate, Replace,
              Drop, ServerLogout, Handshake, Pair, Strike, connection
<1>3. settled' \in BOOLEAN /\ alarm' \in BOOLEAN /\ told' \in BOOLEAN
      /\ boot' \in BOOLEAN
  BY <1>0, <1>1, Zenon DEF TypeOK
<1>4. queue' \in Seq(Reports)
  BY <1>0, <1>1 DEF TypeOK
<1>5. events' \in 0 .. MaxEvents
  BY <1>0, <1>1, LifecycleAssumption DEF TypeOK, Event
<1>6. TypeOK'
  BY <1>0, <1>1, <1>2, <1>3, <1>4, <1>5, Zenon DEF TypeOK
<1>7. settled' => settled
  BY <1>1, Zenon
<1> QED BY <1>1, <1>6, <1>7, QuietInv

\* The end of the bootstrap window.
LEMMA BootstrapEndsInv ==
  ASSUME LifecycleInv, BootstrapEnds
  PROVE  LifecycleInv'
<1>1. TypeOK'
  BY DEF LifecycleInv, TypeOK, BootstrapEnds, connection, history
<1> QED BY <1>1, QuietInv DEF BootstrapEnds, history

\* Time passes for the goroutines that sleep.
LEMMA TickInv ==
  ASSUME LifecycleInv, Tick
  PROVE  LifecycleInv'
<1> DEFINE Next1(g) == [g EXCEPT !.left = IF @ = 0 THEN 0 ELSE @ - 1]
           f == [g \in running |-> Next1(g)]
           r == [g \in Recovering |-> Next1(g)]
<1>0. /\ TypeOK /\ NumberedInv /\ SettledInv /\ OwedInv
      /\ UNCHANGED <<connection, boot, queue, flags, n, events, dberrs, history>>
  BY DEF LifecycleInv, Tick
<1>1. running' = {Next1(g) : g \in running}
  BY DEF Tick
<1>2. \A g \in running :
        /\ Next1(g) \in Goroutine
        /\ Next1(g).n = g.n /\ Next1(g).kind = g.kind /\ Next1(g).at = g.at
  BY <1>0 DEF TypeOK, Goroutine
<1> HIDE DEF Next1
<1>3. IsFiniteSet(running')
  <2>1. f \in [running -> running'] /\ \A h \in running' : \E g \in running : f[g] = h
    BY <1>1
  <2> HIDE DEF f
  <2> QED BY <1>0, <2>1, Image DEF NumberedInv
<1>4. Cardinality(Recovering') <= Cardinality(Recovering) /\ Cardinality(Recovering') \in Nat
  <2>1. Recovering' = {Next1(g) : g \in Recovering}
    BY <1>1, <1>2 DEF Recovering
  <2>2. r \in [Recovering -> Recovering'] /\ \A h \in Recovering' : \E g \in Recovering : r[g] = h
    BY <2>1
  <2> HIDE DEF r
  <2> QED BY <1>0, <2>2, Counts, Image, FS_CardinalityType
<1>5. TypeOK'
  <2>1. running' \subseteq Goroutine
    BY <1>1, <1>2
  <2> QED BY <1>0, <2>1, Zenon DEF TypeOK, connection, history
<1>6. NumberedInv'
  BY <1>0, <1>1, <1>2, <1>3 DEF NumberedInv
<1>7. SettledInv' /\ Notified' = Notified /\ owed' = owed
  BY <1>0 DEF SettledInv, Notified, history
<1>8. OwedInv'
  <2>1. Cardinality(Recovering) \in Nat /\ Notified \in Int /\ owed \in Int
    BY <1>0, Counts DEF TypeOK, Notified
  <2> QED BY <1>0, <1>4, <1>7, <2>1 DEF OwedInv
<1> QED BY <1>5, <1>6, <1>7, <1>8 DEF LifecycleInv

-----------------------------------------------------------------------------
(* onLifecycle *)

\* The UPDATE of onLifecycle fails and the event is dropped.
LEMMA HandleFailsInv ==
  ASSUME LifecycleInv, HandleFails
  PROVE  LifecycleInv'
<1>0. /\ TypeOK /\ NumberedInv /\ SettledInv /\ OwedInv
      /\ UNCHANGED <<connection, boot, flags, running, events, history>>
      /\ queue # <<>> /\ queue' = Tail(queue) /\ n' = n + 1
  BY DEF LifecycleInv, HandleFails
<1>1. queue' \in Seq(Reports) /\ n' \in Nat
  BY <1>0 DEF TypeOK
<1>2. dberrs' \in 0 .. MaxDbErrors
  BY <1>0, LifecycleAssumption DEF TypeOK, HandleFails
<1>3. TypeOK'
  BY <1>0, <1>1, <1>2, Zenon DEF TypeOK, connection, history
<1>4. NumberedInv'
  <2>1. \A g \in running : g.n \in Nat /\ g.n <= n
    BY <1>0 DEF TypeOK, Goroutine, NumberedInv
  <2> QED BY <1>0, <2>1 DEF TypeOK, NumberedInv
<1>5. SettledInv' /\ OwedInv'
  BY <1>0 DEF SettledInv, OwedInv, Recovering, Notified, history
<1> QED BY <1>3, <1>4, <1>5 DEF LifecycleInv

\* onLifecycle, one branch at a time.
LEMMA HandleInv ==
  ASSUME LifecycleInv, Handle
  PROVE  LifecycleInv'
<1> DEFINE e == Head(queue)
           x(kind, at, left) == [kind |-> kind, n |-> n + 1, at |-> at, left |-> left]
<1>0. /\ TypeOK /\ NumberedInv /\ SettledInv /\ OwedInv
      /\ queue # <<>> /\ queue' = Tail(queue) /\ n' = n + 1
      /\ UNCHANGED <<connection, boot, events, dberrs, owed>>
      /\ Remember(e)
      /\ told' = (told /\ e # "disconnected")
      /\ alarm' = (alarm /\ ~\E g \in running' \ running : g.kind = "connected")
  BY DEF LifecycleInv, Handle
<1>1. queue' \in Seq(Reports) /\ e \in Reports /\ n \in Nat /\ n' \in Nat
  BY <1>0 DEF TypeOK
<1>2. /\ settled' \in BOOLEAN /\ told' \in BOOLEAN /\ alarm' \in BOOLEAN
      /\ present' \in BOOLEAN /\ paired' \in BOOLEAN /\ up' \in BOOLEAN /\ boot' \in BOOLEAN
  BY <1>0, Zenon DEF TypeOK, Remember, connection
<1>3. last' \in Reports \cup {"none"}
  BY <1>0, <1>1 DEF TypeOK, Remember
<1>4. \A g \in running : g.n \in Nat /\ g.n <= n
  BY <1>0 DEF TypeOK, Goroutine, NumberedInv
<1>5. Cardinality(Recovering) \in Nat /\ IsFiniteSet(Recovering) /\ Recovering \subseteq running
  BY <1>0, Counts DEF Recovering
<1>6. /\ \A k \in Kinds, at \in {"sleep", "read"}, left \in Nat :
           /\ x(k, at, left) \in Goroutine
           /\ x(k, at, left).n = n + 1 /\ x(k, at, left).kind = k /\ x(k, at, left).at = at
      /\ \A y : IsFiniteSet({y})
  <2>1. \A k \in Kinds, at \in {"sleep", "read"}, left \in Nat :
          /\ x(k, at, left) \in Goroutine
          /\ x(k, at, left).n = n + 1 /\ x(k, at, left).kind = k /\ x(k, at, left).at = at
    BY <1>1 DEF Goroutine
  <2> HIDE DEF x
  <2> QED BY <2>1, FS_Singleton
<1>7. Grace \in Nat /\ Stabilize \in Nat
  BY LifecycleAssumption
\* Either the event starts goroutines that recover nothing ...
<1>8. CASE \E X : /\ X \subseteq Goroutine /\ IsFiniteSet(X) /\ running' = running \cup X
                  /\ \A h \in X : h.n = n + 1 /\ h.kind # "reconnected"
                  /\ flags' \subseteq Flags
                  /\ "disconnectNotified" \in flags' => "disconnectNotified" \in flags
                  /\ settled' => "connectedEmitted" \in flags'
  <2>1. /\ IsFiniteSet(running') /\ running' \subseteq Goroutine
        /\ \A h \in running' : h.n <= n + 1
        /\ Recovering' = Recovering
    BY <1>8, StartsCounts
  <2>2. TypeOK'
    BY <1>0, <1>1, <1>2, <1>3, <1>8, <2>1, Zenon DEF TypeOK
  <2>3. Notified \in {0, 1} /\ Notified' \in {0, 1} /\ Notified' <= Notified
    BY <1>8 DEF Notified
  <2>4. OwedInv'
    BY <1>0, <1>5, <2>1, <2>3 DEF OwedInv, TypeOK
  <2>5. NumberedInv' /\ SettledInv'
    BY <1>0, <1>8, <2>1 DEF NumberedInv, SettledInv
  <2> QED BY <2>2, <2>4, <2>5 DEF LifecycleInv
\* ... or it is the recovery, which takes the flag.
<1>9. CASE HandleRecovery /\ e = "connected"
  <2> DEFINE y == x("reconnected", "sleep", Stabilize)
  <2>1. y \in Goroutine /\ y.n = n + 1 /\ y.kind = "reconnected" /\ y.at = "sleep"
    BY <1>6, <1>7 DEF Kinds
  <2>2. running' = running \cup {y}
    BY <1>9 DEF HandleRecovery, Starts
  <2> HIDE DEF x, y
  <2>3. Recovering' = Recovering \cup {y}
    BY <2>1, <2>2 DEF Recovering
  <2>4. y \notin Recovering
    BY <1>1, <1>4, <1>5, <2>1
  <2>5. Cardinality(Recovering') = Cardinality(Recovering) + 1
    BY <1>5, <2>3, <2>4, FS_AddElement
  <2>6. Notified = 1 /\ Notified' = 0 /\ flags' \subseteq Flags /\ "connectedEmitted" \in flags'
    BY <1>0, <1>9 DEF HandleRecovery, Notified, TypeOK, Flags
  <2>7. OwedInv'
    BY <1>0, <1>5, <2>5, <2>6 DEF OwedInv, TypeOK
  <2>8. TypeOK'
    BY <1>0, <1>1, <1>2, <1>3, <2>1, <2>2, <2>6, Zenon DEF TypeOK
  <2>9. IsFiniteSet(running')
    BY <1>0, <2>2, FS_AddElement DEF NumberedInv
  <2>10. NumberedInv' /\ SettledInv'
    BY <1>0, <1>1, <1>4, <2>1, <2>2, <2>6, <2>9 DEF NumberedInv, SettledInv
  <2> QED BY <2>7, <2>8, <2>10 DEF LifecycleInv
<1>10. CASE e = "disconnected" /\ HandleDisconnected
  <2> DEFINE y == x("unreachable", "sleep", Grace)
             z == x("disconnected", "read", 0)
  <2>1. /\ y \in Goroutine /\ y.n = n + 1 /\ y.kind = "unreachable"
        /\ z \in Goroutine /\ z.n = n + 1 /\ z.kind = "disconnected"
        /\ IsFiniteSet({y}) /\ IsFiniteSet({z})
    BY <1>6, <1>7 DEF Kinds
  <2>2. running' = running \cup ({y} \cup {z})
    BY <1>10 DEF HandleDisconnected, Starts
  <2> HIDE DEF x, y, z
  <2>3. IsFiniteSet({y} \cup {z})
    BY <2>1, FS_Union
  <2>4. /\ flags' \subseteq Flags
        /\ "disconnectNotified" \in flags' => "disconnectNotified" \in flags
    BY <1>0, <1>10 DEF HandleDisconnected, TypeOK, Flags
  <2>5. ~settled'
    BY <1>0, <1>10 DEF Remember
  <2>6. {y} \cup {z} \subseteq Goroutine /\ \A h \in {y} \cup {z} : h.n = n + 1 /\ h.kind # "reconnected"
    BY <2>1
  <2> QED BY <1>8, <2>2, <2>3, <2>4, <2>5, <2>6
\* The other events start one goroutine or none.
<1>11. ASSUME NEW k \in Kinds \ {"reconnected"}, running' = Starts(k, "read", 0),
              flags' \subseteq Flags,
              "disconnectNotified" \in flags' => "disconnectNotified" \in flags,
              settled' => "connectedEmitted" \in flags'
       PROVE  LifecycleInv'
  <2> DEFINE y == x(k, "read", 0)
  <2>1. y \in Goroutine /\ y.n = n + 1 /\ y.kind = k /\ IsFiniteSet({y})
    BY <1>6, <1>11
  <2>2. running' = running \cup {y}
    BY <1>11 DEF Starts
  <2> HIDE DEF x, y
  <2>3. {y} \subseteq Goroutine /\ \A h \in {y} : h.n = n + 1 /\ h.kind # "reconnected"
    BY <1>11, <2>1
  <2> QED BY <1>8, <1>11, <2>1, <2>2, <2>3
<1>12. ASSUME running' = running, flags' \subseteq Flags,
              "disconnectNotified" \in flags' => "disconnectNotified" \in flags,
              settled' => "connectedEmitted" \in flags'
       PROVE  LifecycleInv'
  <2>1. running' = running \cup {} /\ IsFiniteSet({})
    BY <1>12, FS_EmptySet
  <2> QED BY <1>8, <1>12, <2>1
<1>13. CASE e = "connected" /\ (HandleBoot \/ HandleBlip)
  <2>1. flags \subseteq Flags
    BY <1>0 DEF TypeOK
  <2>2. /\ running' = running /\ flags' \subseteq Flags /\ "connectedEmitted" \in flags'
        /\ "disconnectNotified" \in flags' => "disconnectNotified" \in flags
    BY <1>13, <2>1 DEF HandleBoot, HandleBlip, Flags
  <2> QED BY <1>12, <2>2, Zenon
<1>14. CASE e = "connected" /\ HandleFirst
  BY <1>0, <1>11, <1>12, <1>14 DEF HandleFirst, TypeOK, Flags, Kinds
<1>15. CASE e = "logged_out" /\ HandleLoggedOut
  <2>1. ~settled'
    BY <1>0, <1>15 DEF Remember
  <2> QED BY <1>0, <1>11, <1>15, <2>1 DEF HandleLoggedOut, TypeOK, Flags, Kinds
<1>16. CASE e = "paired" /\ HandlePaired
  <2>1. settled' = settled
    BY <1>0, <1>16 DEF Remember
  <2> QED BY <1>0, <1>11, <1>16, <2>1 DEF HandlePaired, TypeOK, SettledInv, Kinds
<1>17. CASE e = "strike" /\ HandleStrike
  <2>1. settled' = settled
    BY <1>0, <1>17 DEF Remember
  <2> QED BY <1>0, <1>12, <1>17, <2>1 DEF HandleStrike, TypeOK, SettledInv
<1> QED BY <1>9, <1>10, <1>13, <1>14, <1>15, <1>16, <1>17 DEF Handle, HandleConnected

-----------------------------------------------------------------------------
(* The goroutines *)

\* The goroutines it started, one step at a time.
LEMMA EmitInv ==
  ASSUME LifecycleInv, NEW g \in running, Emit(g)
  PROVE  LifecycleInv'
<1>0. /\ TypeOK /\ NumberedInv /\ SettledInv /\ OwedInv
      /\ n \in Nat /\ owed \in Int /\ flags \subseteq Flags
  BY DEF LifecycleInv, TypeOK
<1>1. Cardinality(Recovering) \in Nat
  BY <1>0, Counts
\* All steps but Decides owe nothing new and take nothing back.
<1>2. ASSUME UNCHANGED <<quiet, history>>, dberrs' \in 0 .. MaxDbErrors, flags' \subseteq flags,
             "connectedEmitted" \in flags => "connectedEmitted" \in flags',
             Ends(g) \/ (g.at # "post" /\ \E at \in {"claim", "check", "read", "grace", "post"}, left \in Nat :
                            Goes(g, at, left))
      PROVE  LifecycleInv'
  <2>1. /\ IsFiniteSet(running') /\ running' \subseteq Goroutine
        /\ \A h \in running' : h.n <= n
        /\ Cardinality(Recovering') \in Nat
        /\ Cardinality(Recovering') <= Cardinality(Recovering)
    <3>1. CASE Ends(g)
      BY <1>0, <3>1, EndsCounts DEF TypeOK, NumberedInv
    <3>2. CASE ~Ends(g)
      BY <1>2, <3>2, GoesCounts
    <3> QED BY <3>1, <3>2
  <2>2. Notified \in {0, 1} /\ Notified' \in {0, 1} /\ Notified' <= Notified
    BY <1>2 DEF Notified
  <2>3. OwedInv'
    BY <1>0, <1>1, <1>2, <2>1, <2>2 DEF OwedInv, history
  <2>4. flags' \subseteq Flags
    BY <1>0, <1>2
  <2>5. TypeOK'
    BY <1>0, <1>2, <2>1, <2>4, Zenon DEF TypeOK, quiet, connection, history
  <2>6. NumberedInv' /\ SettledInv'
    BY <1>0, <1>2, <2>1 DEF NumberedInv, SettledInv, quiet, history
  <2> QED BY <2>3, <2>5, <2>6 DEF LifecycleInv
<1>3. ASSUME UNCHANGED dberrs PROVE dberrs' \in 0 .. MaxDbErrors
  BY <1>0, <1>3 DEF TypeOK
<1>4. CASE UnreachableWakes(g)
  BY <1>2, <1>3, <1>4 DEF UnreachableWakes
<1>5. CASE UnreachableClaims(g)
  BY <1>2, <1>3, <1>5 DEF UnreachableClaims
<1>6. CASE ReconnectedWakes(g)
  BY <1>2, <1>3, <1>6 DEF ReconnectedWakes
<1>7. CASE ReconnectedChecks(g)
  BY <1>2, <1>3, <1>7 DEF ReconnectedChecks
<1>8. CASE NobodyListens(g)
  BY <1>2, <1>3, <1>8 DEF NobodyListens
<1>9. CASE DisconnectedSleeps(g)
  BY <1>2, <1>3, <1>9, LifecycleAssumption DEF DisconnectedSleeps
<1>10. CASE ReadFails(g)
  <2>1. dberrs' \in 0 .. MaxDbErrors
    BY <1>0, <1>10, LifecycleAssumption DEF ReadFails, TypeOK
  <2> QED BY <1>2, <1>10, <2>1 DEF ReadFails
<1>11. CASE DisconnectedWakes(g)
  BY <1>2, <1>3, <1>11 DEF DisconnectedWakes
<1>12. CASE Posts(g)
  BY <1>2, <1>3, <1>12 DEF Posts
\* Decides: an alarm adds to what is owed and sets the flag, an announced
\* recovery takes one from both sides.
<1>13. CASE Decides(g)
  <2>1. /\ g.at = "read" /\ Goes(g, "post", 0)
        /\ UNCHANGED <<quiet, dberrs, last, settled>>
    BY <1>13 DEF Decides
  <2>2. /\ IsFiniteSet(running') /\ running' \subseteq Goroutine
        /\ \A h \in running' : h.n <= n
        /\ Cardinality(Recovering') \in Nat
        /\ Cardinality(Recovering') <= Cardinality(Recovering)
        /\ g \in Recovering => Cardinality(Recovering') = Cardinality(Recovering) - 1
    BY <2>1, GoesCounts
  <2>3. flags' \subseteq Flags /\ owed' \in Int /\ (settled => "connectedEmitted" \in flags')
    <3>1. flags' = flags \/ flags' = flags \cup {"disconnectNotified"}
      BY <1>13, Zenon DEF Decides
    <3>2. owed' = owed + 1 \/ owed' = owed - 1 \/ owed' = owed
      BY <1>13 DEF Decides
    <3>3. owed' \in Int
      BY <1>0, <3>2
    <3> QED BY <1>0, <3>1, <3>3 DEF Flags, SettledInv
  <2>4. alarm' \in BOOLEAN /\ told' \in BOOLEAN
    BY <1>0, <1>13, Zenon DEF Decides, TypeOK
  <2>5. TypeOK'
    BY <1>0, <2>1, <2>2, <2>3, <2>4, Zenon DEF TypeOK, quiet, connection
  <2>6. NumberedInv' /\ SettledInv'
    BY <1>0, <2>1, <2>2, <2>3 DEF NumberedInv, SettledInv, quiet
  <2>7. OwedInv'
    <3>1. CASE g.kind = "unreachable"
      <4>1. owed' = owed + 1
        BY <1>13, <3>1 DEF Decides
      <4>2. Notified \in {0, 1} /\ Notified' \in {0, 1}
        BY DEF Notified
      <4> QED BY <1>0, <1>1, <2>2, <4>1, <4>2 DEF OwedInv
    <3>2. CASE g.kind = "reconnected"
      <4>1. owed' = owed - 1 /\ flags' = flags
        BY <1>13, <3>2 DEF Decides
      <4>2. g \in Recovering
        BY <2>1, <3>2 DEF Recovering
      <4>3. Notified \in {0, 1} /\ Notified' = Notified
        BY <4>1 DEF Notified
      <4> QED BY <1>0, <1>1, <2>2, <4>1, <4>2, <4>3 DEF OwedInv
    <3>3. CASE g.kind \notin {"unreachable", "reconnected"}
      <4>1. owed' = owed /\ flags' = flags
        BY <1>13, <3>3 DEF Decides
      <4>2. Notified \in {0, 1} /\ Notified' = Notified
        BY <4>1 DEF Notified
      <4> QED BY <1>0, <1>1, <2>2, <4>1, <4>2 DEF OwedInv
    <3> QED BY <3>1, <3>2, <3>3
  <2> QED BY <2>5, <2>6, <2>7 DEF LifecycleInv
<1> QED BY <1>4, <1>5, <1>6, <1>7, <1>8, <1>9, <1>10, <1>11, <1>12, <1>13 DEF Emit

-----------------------------------------------------------------------------
\* No action breaks the invariant.
LEMMA NextInv == LifecycleInv /\ [Next]_vars => LifecycleInv'
<1> SUFFICES ASSUME LifecycleInv, [Next]_vars PROVE LifecycleInv'
  OBVIOUS
<1>1. CASE UNCHANGED vars
  <2>1. TypeOK'
    BY <1>1, Zenon DEF LifecycleInv, TypeOK, vars, connection, history
  <2> QED BY <1>1, <2>1, QuietInv DEF vars, history
<1> QED BY <1>1, SurroundingsInv, BootstrapEndsInv, TickInv, HandleInv, HandleFailsInv, EmitInv
        DEF Next, OnLifecycle, Emissions

\* The invariant of the lifecycle events holds in every reachable state,
\* whatever the flaps, the timers and the failures.
THEOREM LifecycleSafe == Spec => []LifecycleInv
BY InitInv, NextInv, PTL DEF Spec

\* Every variable keeps its type.
THEOREM TypeCorrect == Spec => []TypeOK
<1>1. LifecycleInv => TypeOK
  BY DEF LifecycleInv
<1> QED BY <1>1, LifecycleSafe, PTL

\* reconnected never outnumbers unreachable, however the three kinds of
\* goroutines interleave with onLifecycle.
THEOREM RecoveryAnswers == Spec => []RecoveryAnswersAlarm
<1>1. LifecycleInv => RecoveryAnswersAlarm
  <2> SUFFICES ASSUME LifecycleInv PROVE owed >= 0
    BY DEF RecoveryAnswersAlarm
  <2>1. Cardinality(Recovering) \in Nat /\ Notified \in {0, 1} /\ owed \in Int
    BY Counts DEF LifecycleInv, TypeOK, Notified
  <2> QED BY <2>1 DEF LifecycleInv, OwedInv
<1> QED BY <1>1, LifecycleSafe, PTL

-----------------------------------------------------------------------------
\* Only HandleFirst starts a goroutine that announces connected.
LEMMA StepConnected ==
  ASSUME LifecycleInv, [Next]_vars, New("connected")
  PROVE  ~settled
<1>0. TypeOK /\ n \in Nat /\ SettledInv /\ \A g \in running : g.n \in Nat /\ ~(g.n > n)
  BY DEF LifecycleInv, TypeOK, NumberedInv, Goroutine
<1> PICK h \in running' : h.kind = "connected" /\ h.n > n
  BY DEF New
<1>1. h \notin running /\ ~\E g \in running : h.n = g.n
  BY <1>0
<1>2. CASE Handle
  <2>1. CASE HandleFirst
    BY <1>0, <1>1, <2>1 DEF HandleFirst, SettledInv
  <2>2. CASE ~HandleFirst
    BY <1>1, <1>2, <2>2 DEF Handle, HandleDisconnected, HandleConnected, HandleBoot, HandleBlip,
                            HandleRecovery, HandleLoggedOut, HandlePaired, HandleStrike, Starts
  <2> QED BY <2>1, <2>2
<1>3. CASE Tick
  <2>1. PICK g \in running : h = [g EXCEPT !.left = IF @ = 0 THEN 0 ELSE @ - 1]
    BY <1>3 DEF Tick
  <2>2. h.n = g.n
    BY <1>0, <2>1 DEF TypeOK, Goroutine
  <2> QED BY <1>1, <2>2
<1>4. CASE Emissions
  <2>1. PICK g \in running : Emit(g)
    BY <1>4 DEF Emissions
  <2>2. Ends(g) \/ \E at, left : Goes(g, at, left)
    BY <2>1 DEF Emit, UnreachableWakes, UnreachableClaims, ReconnectedWakes, ReconnectedChecks,
                NobodyListens, DisconnectedSleeps, Decides, ReadFails, DisconnectedWakes, Posts
  <2>3. CASE Ends(g)
    BY <1>1, <2>3 DEF Ends
  <2>4. ASSUME NEW at, NEW left, Goes(g, at, left) PROVE FALSE
    <3>1. h = [g EXCEPT !.at = at, !.left = left]
      BY <1>1, <2>4 DEF Goes
    <3>2. h.n = g.n
      BY <1>0, <3>1 DEF TypeOK, Goroutine
    <3> QED BY <1>1, <3>2
  <2> QED BY <2>2, <2>3, <2>4
<1>5. CASE UNCHANGED running
  BY <1>1, <1>5
<1>6. CASE Surroundings \/ BootstrapEnds \/ HandleFails \/ UNCHANGED vars
  BY <1>5, <1>6, Zenon DEF Surroundings, ApiRestart, ApiLogout, ApiDelete, ApiCreate, Replace,
      Drop, ServerLogout, Handshake, Pair, Strike, BootstrapEnds, HandleFails, vars
<1> QED BY <1>2, <1>3, <1>4, <1>6 DEF Next, OnLifecycle

\* connected is announced once per session, whatever handshakes, blips, starts
\* and late goroutines come in between.
THEOREM ConnectedOnce == Spec => NoSpuriousConnected
<1>1. LifecycleInv /\ [Next]_vars => [New("connected") => ~settled]_vars
  BY StepConnected
<1> QED BY <1>1, LifecycleSafe, PTL DEF Spec, NoSpuriousConnected

-----------------------------------------------------------------------------
(* No outage is forgotten *)

\* A goroutine that leaves does not take another's warning with it.
LEMMA OthersWarn ==
  ASSUME NEW g \in running, NEW h \in running, h # g,
         Ends(g) \/ \E at, left : Goes(g, at, left),
         "pendingUnreachable" \in flags => "pendingUnreachable" \in flags',
         h.kind = "unreachable",
         h.at = "read" \/ (h.at \in {"sleep", "claim"} /\ "pendingUnreachable" \in flags)
  PROVE  Warning'
<1>1. h \in running'
  BY DEF Ends, Goes
<1> QED BY <1>1 DEF Warning

\* What is queued stays queued until onLifecycle takes it, from the front.
LEMMA QueuedStays ==
  ASSUME queue \in Seq(Reports), EndQueued,
         \/ \E r \in Reports : queue' = Append(queue, r)
         \/ queue # <<>> /\ Head(queue) = "strike" /\ queue' = Tail(queue)
         \/ queue' = queue
  PROVE  EndQueued'
<1> PICK i \in DOMAIN queue : queue[i] \in {"disconnected", "logged_out"}
  BY DEF EndQueued
<1>1. CASE \E r \in Reports : queue' = Append(queue, r)
  <2>1. i \in DOMAIN queue' /\ queue'[i] = queue[i]
    BY <1>1
  <2> QED BY <2>1 DEF EndQueued
<1>2. CASE queue # <<>> /\ Head(queue) = "strike" /\ queue' = Tail(queue)
  <2>1. i # 1
    BY <1>2
  <2>2. i - 1 \in DOMAIN queue' /\ queue'[i - 1] = queue[i]
    BY <1>2, <2>1
  <2> QED BY <2>2 DEF EndQueued
<1> QED BY <1>1, <1>2 DEF EndQueued

\* The goroutines: one that gives up finds the connection back, the flag taken
\* by another, or the orchestrator told.
LEMMA EmitNotices ==
  ASSUME TypeOK, OutageIsNoticed, NEW g \in running, Emit(g),
         Outage', "unreachable" \in Subscribed, ~told', ~EndQueued'
  PROVE  Warning'
<1>1. /\ present /\ ~up /\ last = "disconnected" /\ ~EndQueued
      /\ UNCHANGED <<present, up, last, queue>>
  <2>1. UNCHANGED <<quiet, last>>
    BY Zenon DEF Emit, UnreachableWakes, UnreachableClaims, ReconnectedWakes, ReconnectedChecks,
                 NobodyListens, DisconnectedSleeps, Decides, ReadFails, DisconnectedWakes, Posts, history
  <2> QED BY <2>1 DEF quiet, connection, Outage, EndQueued
<1>2. dberrs = 0 /\ ~ReadFails(g)
  <2>1. dberrs' = dberrs \/ (ReadFails(g) /\ dberrs' = dberrs + 1)
    BY DEF Emit, UnreachableWakes, UnreachableClaims, ReconnectedWakes, ReconnectedChecks, NobodyListens,
           DisconnectedSleeps, Decides, ReadFails, DisconnectedWakes, Posts
  <2>2. dberrs \in Nat /\ dberrs' = 0
    BY LifecycleAssumption DEF TypeOK, Outage
  <2>3. dberrs' # dberrs + 1
    BY <2>2
  <2>4. ReadFails(g) => dberrs' = dberrs + 1
    BY DEF ReadFails
  <2> QED BY <2>1, <2>2, <2>3, <2>4
<1>3. ~told
  BY DEF Emit, UnreachableWakes, UnreachableClaims, ReconnectedWakes, ReconnectedChecks, NobodyListens,
         DisconnectedSleeps, Decides, ReadFails, DisconnectedWakes, Posts, history
<1> PICK h \in running :
      /\ h.kind = "unreachable"
      /\ h.at = "read" \/ (h.at \in {"sleep", "claim"} /\ "pendingUnreachable" \in flags)
  BY <1>1, <1>2, <1>3 DEF OutageIsNoticed, Outage, Warning
<1>4. Ends(g) \/ \E at, left : Goes(g, at, left)
  BY DEF Emit, UnreachableWakes, UnreachableClaims, ReconnectedWakes, ReconnectedChecks,
         NobodyListens, DisconnectedSleeps, Decides, ReadFails, DisconnectedWakes, Posts
<1>5. ASSUME NEW at \in {"claim", "read"}, g.kind = "unreachable", Goes(g, at, 0),
             at = "read" \/ "pendingUnreachable" \in flags'
      PROVE  Warning'
  <2> DEFINE x == [g EXCEPT !.at = at, !.left = 0]
  <2>1. x \in running' /\ x.kind = "unreachable" /\ x.at = at
    BY <1>5 DEF Goes, TypeOK, Goroutine
  <2> HIDE DEF x
  <2> QED BY <1>5, <2>1 DEF Warning
<1>6. CASE UnreachableWakes(g)
  <2>1. Goes(g, "claim", 0) /\ UNCHANGED flags
    BY <1>1, <1>6 DEF UnreachableWakes
  <2>2. CASE h = g
    BY <1>5, <1>6, <2>1, <2>2 DEF UnreachableWakes
  <2> QED BY <1>4, <2>1, <2>2, OthersWarn
<1>7. CASE UnreachableClaims(g)
  <2>1. CASE "pendingUnreachable" \in flags
    BY <1>5, <1>7, <2>1 DEF UnreachableClaims
  <2>2. CASE "pendingUnreachable" \notin flags
    BY <1>4, <1>7, <2>2, OthersWarn DEF UnreachableClaims
  <2> QED BY <2>1, <2>2
<1>8. CASE ReconnectedWakes(g) \/ ReconnectedChecks(g)
  BY <1>4, <1>8, OthersWarn DEF ReconnectedWakes, ReconnectedChecks
<1>9. CASE NobodyListens(g) \/ DisconnectedSleeps(g)
  BY <1>1, <1>4, <1>9, OthersWarn DEF NobodyListens, DisconnectedSleeps, Heard
<1>10. CASE Decides(g)
  BY <1>4, <1>10, OthersWarn DEF Decides
<1>11. CASE DisconnectedWakes(g) \/ Posts(g)
  BY <1>4, <1>11, OthersWarn DEF DisconnectedWakes, Posts
<1> QED BY <1>2, <1>6, <1>7, <1>8, <1>9, <1>10, <1>11 DEF Emit

\* onLifecycle: an outage that it hears of gets a timer of its own.
LEMMA HandleNotices ==
  ASSUME TypeOK, OutageIsNoticed, Handle,
         Outage', "unreachable" \in Subscribed, ~told', ~EndQueued'
  PROVE  Warning'
<1>1. Head(queue) \in {"disconnected", "strike"}
  BY DEF Handle, Remember, Outage
<1>2. CASE Head(queue) = "disconnected"
  <2> DEFINE y == [kind |-> "unreachable", n |-> n + 1, at |-> "sleep", left |-> Grace]
  <2>1. y \in running' /\ "pendingUnreachable" \in flags'
    BY <1>2 DEF Handle, HandleDisconnected, Starts
  <2>2. y.kind = "unreachable" /\ y.at = "sleep"
    OBVIOUS
  <2> HIDE DEF y
  <2> QED BY <2>1, <2>2 DEF Warning
<1>3. CASE Head(queue) = "strike"
  <2>1. UNCHANGED <<flags, running, connection, dberrs, last, told>> /\ queue # <<>> /\ queue' = Tail(queue)
    <3>1. UNCHANGED <<flags, running, connection, dberrs, last>>
      BY <1>3 DEF Handle, HandleStrike, Remember
    <3>2. told' = (told /\ TRUE)
      BY <1>3 DEF Handle
    <3> QED BY <3>1, <3>2 DEF Handle, TypeOK
  <2>2. ~EndQueued
    BY <1>3, <2>1, QueuedStays DEF TypeOK
  <2> QED BY <2>1, <2>2 DEF OutageIsNoticed, Outage, Warning, connection
<1> QED BY <1>1, <1>2, <1>3

\* The connection: a new outage begins with its report, and an old one that
\* nothing happens to keeps its warning.
LEMMA SurroundingsNotice ==
  ASSUME TypeOK, OutageIsNoticed, Surroundings,
         Outage', "unreachable" \in Subscribed, ~told', ~EndQueued'
  PROVE  Warning'
<1>1. CASE ApiRestart \/ ApiLogout \/ ApiDelete \/ ApiCreate
  BY <1>1 DEF ApiRestart, ApiLogout, ApiDelete, ApiCreate, Replace, Outage
<1>2. CASE Drop \/ ServerLogout
  <2>1. PICK r \in {"disconnected", "logged_out"} : queue' = Append(queue, r)
    BY <1>2 DEF Drop, ServerLogout, Report
  <2>2. Len(queue) + 1 \in DOMAIN queue' /\ queue'[Len(queue) + 1] = r
    BY <2>1 DEF TypeOK
  <2> QED BY <2>2 DEF EndQueued
<1>3. CASE Handshake
  BY <1>3 DEF Handshake, Outage
<1>4. CASE Pair \/ Strike
  <2>1. /\ UNCHANGED <<present, up, running, flags, dberrs, last, told>>
        /\ \E r \in Reports : queue' = Append(queue, r)
    BY <1>4 DEF Pair, Strike, Report, Reports, connection, history
  <2>2. ~EndQueued
    BY <2>1, QueuedStays DEF TypeOK
  <2> QED BY <2>1, <2>2 DEF OutageIsNoticed, Outage, Warning
<1> QED BY <1>1, <1>2, <1>3, <1>4 DEF Surroundings

\* A goroutine that sleeps warns as before when time passes.
LEMMA TickNotices ==
  ASSUME TypeOK, OutageIsNoticed, Tick,
         Outage', "unreachable" \in Subscribed, ~told', ~EndQueued'
  PROVE  Warning'
<1>1. Outage /\ ~told /\ ~EndQueued /\ flags' = flags
  BY DEF Tick, Outage, EndQueued, connection, history
<1> PICK h \in running :
      /\ h.kind = "unreachable"
      /\ h.at = "read" \/ (h.at \in {"sleep", "claim"} /\ "pendingUnreachable" \in flags)
  BY <1>1 DEF OutageIsNoticed, Warning
<1> DEFINE x == [h EXCEPT !.left = IF @ = 0 THEN 0 ELSE @ - 1]
<1>2. x \in running' /\ x.kind = h.kind /\ x.at = h.at
  BY DEF Tick, TypeOK, Goroutine
<1> HIDE DEF x
<1> QED BY <1>1, <1>2 DEF Warning

\* At no moment is an outage that onLifecycle has heard of forgotten, whatever
\* flaps, timers that give up and flags that change hands came before: this is
\* what OutageIsAnnounced rests on besides the fairness of the goroutines.
THEOREM OutageNoticed == Spec => []OutageIsNoticed
<1>1. Init => OutageIsNoticed
  BY DEF Init, OutageIsNoticed, Outage
<1>2. LifecycleInv /\ OutageIsNoticed /\ [Next]_vars => OutageIsNoticed'
  <2> SUFFICES ASSUME LifecycleInv, OutageIsNoticed, [Next]_vars,
                      Outage', "unreachable" \in Subscribed, ~told', ~EndQueued'
               PROVE  Warning'
    BY DEF OutageIsNoticed
  <2>1. TypeOK
    BY DEF LifecycleInv
  <2>2. CASE BootstrapEnds \/ UNCHANGED vars
    <3>1. UNCHANGED <<present, up, queue, flags, running, dberrs, last, told>>
      BY <2>2 DEF BootstrapEnds, vars, connection, history
    <3> QED BY <3>1 DEF OutageIsNoticed, Outage, Warning, EndQueued
  <2>3. CASE HandleFails
    <3>1. dberrs \in Nat /\ dberrs' = dberrs + 1 /\ dberrs' = 0
      BY <2>1, <2>3, LifecycleAssumption DEF HandleFails, TypeOK, Outage
    <3> QED BY <3>1
  <2> QED BY <2>1, <2>2, <2>3, SurroundingsNotice, TickNotices, HandleNotices, EmitNotices
          DEF Next, OnLifecycle, Emissions
<1> QED BY <1>1, <1>2, LifecycleSafe, PTL DEF Spec
=============================================================================
