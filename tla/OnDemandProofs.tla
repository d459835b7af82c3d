--------------------------- MODULE OnDemandProofs ----------------------------
(***************************************************************************)
(* Theorems about OnDemand, for any number of requests, contacts and       *)
(* pages.  The map has one channel per chat and the callers share it, so   *)
(* the proofs say what is left true of a caller whose channel another one  *)
(* has replaced or removed.                                                *)
(***************************************************************************)
EXTENDS OnDemand, TLAPS

-----------------------------------------------------------------------------
(* The inductive invariant *)

\* The channel in the map is one of that chat, of a caller that asks for it;
\* callers of one chat know of each other.
LatchInv ==
  /\ LatchHasOwner /\ AloneIsReachable
  /\ \A c \in Chats : latches[c] # None => latches[c][2] = c
  /\ \A r \in Callers : at[r] \in Asking =>
       /\ chat[r] \in Chats
       /\ r \in shared \/ Others(r, chat[r]) = {}

Unheard(a) == a \notin phone /\ answers[a] = "none"

\* Nobody asks twice: a request asks once and the job once per chat.
AskedInv ==
  /\ \A a \in phone : answers[a] = "none"
  /\ \A r \in Requests, c \in Chats :
       at[r] = "idle" \/ chat[r] # c => Unheard(<<r, c>>) /\ reply[<<r, c>>] = "none"
  /\ \A c \in Chats :
       counted[c] = "none" /\ ~(at[Job] \in Asking /\ chat[Job] = c)
         => Unheard(<<Job, c>>) /\ reply[<<Job, c>>] = "none"
  /\ \A r \in Callers :
       /\ at[r] \in Asking => reply[Ask(r)] = "none"
       /\ at[r] \in {"anchor", "request"} => Unheard(Ask(r))

\* The job asks for one contact at a time, each of them uncounted.
JobInv ==
  /\ todo \subseteq Uncounted
  /\ at[Job] # "done"
  /\ at[Job] \in Asking => job = "running" /\ chat[Job] \in Uncounted /\ chat[Job] \notin todo

\* An answer that was handed over is in the channel it was meant for, or with
\* the caller of that channel, and not imported yet.
GivenInv ==
  /\ \A a \in Asks : answers[a] \in {"found", "given"} => target[a] # None /\ target[a][2] = a[2]
  /\ \A a \in Asks : answers[a] \notin {"given", "done"} => imports[a] = 0
  /\ \A x \in Asks : channel[x] # None =>
       /\ answers[channel[x]] = "given" /\ target[channel[x]] = x
       /\ imports[channel[x]] = 0
  /\ \A r \in Callers : at[r] = "import" =>
       /\ taken[r] \in Asks /\ answers[taken[r]] = "given" /\ target[taken[r]] = Ask(r)
       /\ imports[taken[r]] = 0 /\ channel[Ask(r)] # taken[r]

\* An answer of another caller came from a request that had asked.
CountInv ==
  \A c \in Chats : counted[c] = "imported" =>
    imports[<<Job, c>>] = 1 \/ \E r \in Requests : at[r] # "idle" /\ chat[r] = c

OnDemandInv == OnDemandTypeOK /\ LatchInv /\ AskedInv /\ JobInv /\ GivenInv /\ AnswerNotLost /\ CountInv

-----------------------------------------------------------------------------
(* Steps *)

USE OnDemandAssumption DEF OnDemandTypeOK, Callers, Asks, Job, None, Asking, Outcomes, Ask, Waits,
  caller, latching, answering, history, bulk

\* A return leaves the variables it sets in their types (CountOf and the
\* deferred release).
LEMMA ReturnTypes ==
  ASSUME OnDemandTypeOK, NEW r \in Callers, chat[r] \in Chats,
         NEW outcome \in Outcomes \ {"none"}, Return(r, outcome)
  PROVE  /\ at' \in [Callers -> Asking \cup {"idle", "done"}]
         /\ latches' \in [Chats -> Asks \cup {None}]
         /\ reply' \in [Asks -> Outcomes]
         /\ counted' \in [Chats -> {"none", "skipped", "imported", "noAnchor", "errors"}]
<1>1. at' \in [Callers -> Asking \cup {"idle", "done"}]
  BY DEF Return
<1>2. latches' \in [Chats -> Asks \cup {None}]
  BY DEF Return, Release
<1>3. reply' \in [Asks -> Outcomes]
  BY DEF Return
<1>4. counted' \in [Chats -> {"none", "skipped", "imported", "noAnchor", "errors"}]
  BY DEF Return, CountOf
<1> QED BY <1>1, <1>2, <1>3, <1>4

\* A return takes away the channel of its chat, whoever it belongs to: those
\* that lose theirs shared the chat.
LEMMA ReturnLatches ==
  ASSUME OnDemandTypeOK, LatchInv, NEW r \in Callers, at[r] \in Asking, NEW outcome, Return(r, outcome)
  PROVE  LatchInv'
<1>1. /\ at'[r] \notin Asking /\ \A o \in Callers \ {r} : at'[o] = at[o]
      /\ chat' = chat /\ shared' = shared /\ chat[r] \in Chats
  BY DEF Return, LatchInv
<1>2. latches'[chat[r]] = None /\ \A c \in Chats \ {chat[r]} : latches'[c] = latches[c]
  BY <1>1 DEF Return, Release
<1>3. LatchHasOwner'
  BY <1>1, <1>2 DEF LatchInv, LatchHasOwner
<1>4. \A c \in Chats : latches'[c] # None => latches'[c][2] = c
  BY <1>1, <1>2 DEF LatchInv
<1>5. ASSUME NEW o \in Callers, at'[o] \in Asking
      PROVE  /\ chat'[o] \in Chats
             /\ o \in shared' \/ Others(o, chat[o])' = {}
             /\ o \notin shared' => latches'[chat[o]] = <<o, chat[o]>>
  <2>1. o # r /\ at[o] \in Asking /\ chat[o] \in Chats
    BY <1>1, <1>5 DEF LatchInv
  <2>2. Others(o, chat[o])' \subseteq Others(o, chat[o])
    BY <1>1, <2>1 DEF Others
  <2>3. o \notin shared => chat[o] # chat[r]
    BY <2>1 DEF LatchInv, Others
  <2>4. o \in shared \/ Others(o, chat[o]) = {}
    BY <2>1 DEF LatchInv
  <2>5. o \notin shared => latches[chat[o]] = <<o, chat[o]>>
    BY <2>1 DEF LatchInv, AloneIsReachable
  <2> QED BY <1>1, <1>2, <2>1, <2>2, <2>3, <2>4, <2>5
<1>6. AloneIsReachable'
  BY <1>1, <1>5 DEF AloneIsReachable
<1> QED BY <1>1, <1>3, <1>4, <1>5, <1>6 DEF LatchInv

\* A request takes its place in the map.
LEMMA ReceivesInv ==
  ASSUME OnDemandInv, NEW r \in Requests, NEW c \in Chats, Receives(r, c)
  PROVE  OnDemandInv'
<1>0. OnDemandTypeOK /\ LatchInv /\ AskedInv /\ JobInv /\ GivenInv /\ AnswerNotLost /\ CountInv
  BY DEF OnDemandInv
<1>1. OnDemandTypeOK'
  <2>1. at' \in [Callers -> Asking \cup {"idle", "done"}]
    BY <1>0 DEF Receives, Begin, Acquire
  <2>2. chat' \in [Callers -> Chats \cup {"none"}]
    BY <1>0 DEF Receives, Begin, Acquire, LatchInv
  <2>3. latches' \in [Chats -> Asks \cup {None}] /\ channel' \in [Asks -> Asks \cup {None}]
    BY <1>0 DEF Receives, Begin, Acquire
  <2>4. phone' \subseteq Asks /\ target' \in [Asks -> Asks \cup {None}]
    BY <1>0 DEF Receives, Begin, Acquire
  <2>5. answers' \in [Asks -> {"none", "arrived", "found", "inline", "given", "done"}]
    BY <1>0 DEF Receives, Begin, Acquire
  <2>6. taken' \in [Callers -> Asks \cup {None}] /\ reply' \in [Asks -> Outcomes]
    BY <1>0 DEF Receives, Begin, Acquire, LatchInv
  <2>7. imports' \in [Asks -> Nat] /\ shared' \subseteq Callers /\ late' \subseteq Asks
    BY <1>0 DEF Receives, Begin, Acquire, GivenInv, Others
  <2>8. job' \in {"none", "pending", "running", "completed", "failed", "purged"} /\ page' \in 0 .. PageCap
    BY <1>0 DEF Receives, Begin, Acquire
  <2>9. todo' \subseteq Chats
    BY <1>0 DEF Receives, Begin, Acquire
  <2>10. counted' \in [Chats -> {"none", "skipped", "imported", "noAnchor", "errors"}]
    BY <1>0 DEF Receives, Begin, Acquire
  <2> QED BY <2>1, <2>2, <2>3, <2>4, <2>5, <2>6, <2>7, <2>8, <2>9, <2>10
<1>2. LatchInv'
  BY <1>0 DEF LatchInv, LatchHasOwner, AloneIsReachable, Others, Receives, Begin, Acquire
<1>3. AskedInv'
  BY <1>0 DEF AskedInv, Unheard, LatchInv, JobInv, Uncounted, Receives, Begin, Acquire
<1>4. JobInv'
  BY <1>0 DEF JobInv, Uncounted, Receives, Begin, Acquire
<1>5. GivenInv'
  BY <1>0 DEF GivenInv, LatchInv, LatchHasOwner, AskedInv, Unheard, Receives, Begin, Acquire
<1>6. AnswerNotLost'
  BY <1>0 DEF AnswerNotLost, InChannel, Importing, GivenInv, AskedInv, Unheard, Receives, Begin, Acquire
<1>7. CountInv'
  BY <1>0 DEF CountInv, GivenInv, AskedInv, Unheard, Receives, Begin, Acquire
<1> QED BY <1>1, <1>2, <1>3, <1>4, <1>5, <1>6, <1>7 DEF OnDemandInv

\* The job takes its place in the map.
LEMMA JobAsksInv ==
  ASSUME OnDemandInv, NEW c \in Chats, JobAsks(c)
  PROVE  OnDemandInv'
<1>0. OnDemandTypeOK /\ LatchInv /\ AskedInv /\ JobInv /\ GivenInv /\ AnswerNotLost /\ CountInv
  BY DEF OnDemandInv
<1>1. OnDemandTypeOK'
  <2>1. at' \in [Callers -> Asking \cup {"idle", "done"}]
    BY <1>0 DEF JobAsks, Free, Begin, Acquire
  <2>2. chat' \in [Callers -> Chats \cup {"none"}]
    BY <1>0 DEF JobAsks, Free, Begin, Acquire, LatchInv
  <2>3. latches' \in [Chats -> Asks \cup {None}] /\ channel' \in [Asks -> Asks \cup {None}]
    BY <1>0 DEF JobAsks, Free, Begin, Acquire
  <2>4. phone' \subseteq Asks /\ target' \in [Asks -> Asks \cup {None}]
    BY <1>0 DEF JobAsks, Free, Begin, Acquire
  <2>5. answers' \in [Asks -> {"none", "arrived", "found", "inline", "given", "done"}]
    BY <1>0 DEF JobAsks, Free, Begin, Acquire
  <2>6. taken' \in [Callers -> Asks \cup {None}] /\ reply' \in [Asks -> Outcomes]
    BY <1>0 DEF JobAsks, Free, Begin, Acquire, LatchInv
  <2>7. imports' \in [Asks -> Nat] /\ shared' \subseteq Callers /\ late' \subseteq Asks
    BY <1>0 DEF JobAsks, Free, Begin, Acquire, GivenInv, Others
  <2>8. job' \in {"none", "pending", "running", "completed", "failed", "purged"} /\ page' \in 0 .. PageCap
    BY <1>0 DEF JobAsks, Free, Begin, Acquire
  <2>9. todo' \subseteq Chats
    BY <1>0 DEF JobAsks, Free, Begin, Acquire
  <2>10. counted' \in [Chats -> {"none", "skipped", "imported", "noAnchor", "errors"}]
    BY <1>0 DEF JobAsks, Free, Begin, Acquire
  <2> QED BY <2>1, <2>2, <2>3, <2>4, <2>5, <2>6, <2>7, <2>8, <2>9, <2>10
<1>2. LatchInv'
  BY <1>0 DEF LatchInv, LatchHasOwner, AloneIsReachable, Others, JobAsks, Free, Begin, Acquire
<1>3. AskedInv'
  BY <1>0 DEF AskedInv, Unheard, LatchInv, JobInv, Uncounted, JobAsks, Free, Begin, Acquire
<1>4. JobInv'
  BY <1>0 DEF JobInv, Uncounted, JobAsks, Free, Begin, Acquire
<1>5. GivenInv'
  BY <1>0 DEF GivenInv, LatchInv, LatchHasOwner, AskedInv, Unheard, JobAsks, Free, Begin, Acquire
<1>6. AnswerNotLost'
  BY <1>0 DEF AnswerNotLost, InChannel, Importing, GivenInv, AskedInv, Unheard, JobAsks, Free, Begin, Acquire
<1>7. CountInv'
  BY <1>0 DEF CountInv, GivenInv, AskedInv, Unheard, JobAsks, Free, Begin, Acquire
<1> QED BY <1>1, <1>2, <1>3, <1>4, <1>5, <1>6, <1>7 DEF OnDemandInv

\* The anchor is found, or the caller returns.
LEMMA ResolveAnchorInv ==
  ASSUME OnDemandInv, NEW r \in Callers, ResolveAnchor(r)
  PROVE  OnDemandInv'
<1>0. OnDemandTypeOK /\ LatchInv /\ AskedInv /\ JobInv /\ GivenInv /\ AnswerNotLost /\ CountInv
  BY DEF OnDemandInv
<1>1. OnDemandTypeOK'
  <2>1. at' \in [Callers -> Asking \cup {"idle", "done"}]
    BY <1>0, ReturnTypes DEF ResolveAnchor, LatchInv
  <2>2. chat' \in [Callers -> Chats \cup {"none"}]
    BY <1>0 DEF ResolveAnchor, Return, Release, CountOf, LatchInv
  <2>3. latches' \in [Chats -> Asks \cup {None}] /\ channel' \in [Asks -> Asks \cup {None}]
    BY <1>0, ReturnTypes DEF ResolveAnchor, LatchInv
  <2>4. phone' \subseteq Asks /\ target' \in [Asks -> Asks \cup {None}]
    BY <1>0 DEF ResolveAnchor, Return, Release, CountOf
  <2>5. answers' \in [Asks -> {"none", "arrived", "found", "inline", "given", "done"}]
    BY <1>0 DEF ResolveAnchor, Return, Release, CountOf
  <2>6. taken' \in [Callers -> Asks \cup {None}] /\ reply' \in [Asks -> Outcomes]
    BY <1>0, ReturnTypes DEF ResolveAnchor, LatchInv
  <2>7. imports' \in [Asks -> Nat] /\ shared' \subseteq Callers /\ late' \subseteq Asks
    BY <1>0 DEF ResolveAnchor, Return, Release, CountOf, GivenInv
  <2>8. job' \in {"none", "pending", "running", "completed", "failed", "purged"} /\ page' \in 0 .. PageCap
    BY <1>0 DEF ResolveAnchor, Return, Release, CountOf
  <2>9. todo' \subseteq Chats
    BY <1>0 DEF ResolveAnchor, Return, Release, CountOf
  <2>10. counted' \in [Chats -> {"none", "skipped", "imported", "noAnchor", "errors"}]
    BY <1>0, ReturnTypes DEF ResolveAnchor, LatchInv
  <2> QED BY <2>1, <2>2, <2>3, <2>4, <2>5, <2>6, <2>7, <2>8, <2>9, <2>10
<1>2. LatchInv'
  <2>1. CASE at' = [at EXCEPT ![r] = "request"] /\ UNCHANGED <<chat, reply, latches, shared, late, bulk>>
    BY <1>0, <2>1 DEF ResolveAnchor, LatchInv, LatchHasOwner, AloneIsReachable, Others
  <2>2. CASE \E outcome : Return(r, outcome)
    BY <1>0, <2>2, ReturnLatches DEF ResolveAnchor
  <2> QED BY <2>1, <2>2 DEF ResolveAnchor
<1>3. AskedInv'
  BY <1>0 DEF AskedInv, Unheard, LatchInv, JobInv, Uncounted, ResolveAnchor, Return, Release, CountOf
<1>4. JobInv'
  BY <1>0 DEF JobInv, Uncounted, ResolveAnchor, Return, Release, CountOf
<1>5. GivenInv'
  BY <1>0 DEF GivenInv, LatchInv, LatchHasOwner, AskedInv, Unheard, ResolveAnchor, Return, Release, CountOf
<1>6. AnswerNotLost'
  <2>0. at[r] = "anchor" /\ UNCHANGED <<channel, answers, target, taken, imports>>
    BY DEF ResolveAnchor
  <2>1. CASE at' = [at EXCEPT ![r] = "request"] /\ UNCHANGED <<chat, reply, latches, shared, late, bulk>>
    BY <1>0, <2>0, <2>1 DEF AnswerNotLost, InChannel, Importing, GivenInv, AskedInv, Unheard
  <2>2. CASE Return(r, "noAnchor")
    <3>1. at'[r] \in {"idle", "done"} /\ \A o \in Callers \ {r} : at'[o] = at[o]
      BY <1>0, <2>0, <2>2 DEF Return
    <3>2. reply' = [reply EXCEPT ![Ask(r)] = "noAnchor"] /\ UNCHANGED <<chat, shared, late>>
      BY <2>2 DEF Return
    <3> SUFFICES ASSUME NEW a \in Asks, answers[a] = "given"
                 PROVE  imports[a] = 1 \/ InChannel(a)' \/ Importing(a)' \/ a \in late \/ reply'[target[a]] = "timeout"
      BY <1>0, <2>0, <3>2 DEF AnswerNotLost
    <3>3. CASE InChannel(a)
      BY <1>0, <2>0, <3>1, <3>2, <3>3 DEF InChannel
    <3>4. CASE Importing(a)
      BY <1>0, <2>0, <3>1, <3>2, <3>4 DEF Importing
    <3>5. CASE reply[target[a]] = "timeout"
      BY <1>0, <2>0, <3>2, <3>5 DEF AskedInv, GivenInv
    <3> QED BY <1>0, <3>3, <3>4, <3>5 DEF AnswerNotLost
  <2> QED BY <2>1, <2>2 DEF ResolveAnchor
<1>7. CountInv'
  BY <1>0 DEF CountInv, GivenInv, AskedInv, Unheard, ResolveAnchor, Return, Release, CountOf
<1> QED BY <1>1, <1>2, <1>3, <1>4, <1>5, <1>6, <1>7 DEF OnDemandInv

\* The request leaves, or the caller returns.
LEMMA RequestHistoryInv ==
  ASSUME OnDemandInv, NEW r \in Callers, RequestHistory(r)
  PROVE  OnDemandInv'
<1>0. OnDemandTypeOK /\ LatchInv /\ AskedInv /\ JobInv /\ GivenInv /\ AnswerNotLost /\ CountInv
  BY DEF OnDemandInv
<1>1. OnDemandTypeOK'
  <2>1. at' \in [Callers -> Asking \cup {"idle", "done"}]
    BY <1>0, ReturnTypes DEF RequestHistory, LatchInv
  <2>2. chat' \in [Callers -> Chats \cup {"none"}]
    BY <1>0 DEF RequestHistory, Return, Release, CountOf, LatchInv
  <2>3. latches' \in [Chats -> Asks \cup {None}] /\ channel' \in [Asks -> Asks \cup {None}]
    BY <1>0, ReturnTypes DEF RequestHistory, LatchInv
  <2>4. phone' \subseteq Asks /\ target' \in [Asks -> Asks \cup {None}]
    BY <1>0 DEF RequestHistory, Return, Release, CountOf, LatchInv
  <2>5. answers' \in [Asks -> {"none", "arrived", "found", "inline", "given", "done"}]
    BY <1>0 DEF RequestHistory, Return, Release, CountOf
  <2>6. taken' \in [Callers -> Asks \cup {None}] /\ reply' \in [Asks -> Outcomes]
    BY <1>0, ReturnTypes DEF RequestHistory, LatchInv
  <2>7. imports' \in [Asks -> Nat] /\ shared' \subseteq Callers /\ late' \subseteq Asks
    BY <1>0 DEF RequestHistory, Return, Release, CountOf, GivenInv
  <2>8. job' \in {"none", "pending", "running", "completed", "failed", "purged"} /\ page' \in 0 .. PageCap
    BY <1>0 DEF RequestHistory, Return, Release, CountOf
  <2>9. todo' \subseteq Chats
    BY <1>0 DEF RequestHistory, Return, Release, CountOf
  <2>10. counted' \in [Chats -> {"none", "skipped", "imported", "noAnchor", "errors"}]
    BY <1>0, ReturnTypes DEF RequestHistory, LatchInv
  <2> QED BY <2>1, <2>2, <2>3, <2>4, <2>5, <2>6, <2>7, <2>8, <2>9, <2>10
<1>2. LatchInv'
  <2>1. CASE at' = [at EXCEPT ![r] = "wait"] /\ UNCHANGED <<chat, reply, latches, shared, late, bulk>>
    BY <1>0, <2>1 DEF RequestHistory, LatchInv, LatchHasOwner, AloneIsReachable, Others
  <2>2. CASE \E outcome : Return(r, outcome)
    BY <1>0, <2>2, ReturnLatches DEF RequestHistory
  <2> QED BY <2>1, <2>2 DEF RequestHistory
<1>3. AskedInv'
  BY <1>0 DEF AskedInv, Unheard, LatchInv, JobInv, Uncounted, RequestHistory, Return, Release, CountOf
<1>4. JobInv'
  BY <1>0 DEF JobInv, Uncounted, RequestHistory, Return, Release, CountOf
<1>5. GivenInv'
  BY <1>0 DEF GivenInv, LatchInv, LatchHasOwner, AskedInv, Unheard, RequestHistory, Return, Release, CountOf
<1>6. AnswerNotLost'
  <2>0. at[r] = "request" /\ UNCHANGED <<channel, answers, target, taken, imports>>
    BY DEF RequestHistory
  <2>1. CASE at' = [at EXCEPT ![r] = "wait"] /\ UNCHANGED <<chat, reply, latches, shared, late, bulk>>
    BY <1>0, <2>0, <2>1 DEF AnswerNotLost, InChannel, Importing, GivenInv, AskedInv, Unheard
  <2>2. CASE Return(r, "error")
    <3>1. at'[r] \in {"idle", "done"} /\ \A o \in Callers \ {r} : at'[o] = at[o]
      BY <1>0, <2>0, <2>2 DEF Return
    <3>2. reply' = [reply EXCEPT ![Ask(r)] = "error"] /\ UNCHANGED <<chat, shared, late>>
      BY <2>2 DEF Return
    <3> SUFFICES ASSUME NEW a \in Asks, answers[a] = "given"
                 PROVE  imports[a] = 1 \/ InChannel(a)' \/ Importing(a)' \/ a \in late \/ reply'[target[a]] = "timeout"
      BY <1>0, <2>0, <3>2 DEF AnswerNotLost
    <3>3. CASE InChannel(a)
      BY <1>0, <2>0, <3>1, <3>2, <3>3 DEF InChannel
    <3>4. CASE Importing(a)
      BY <1>0, <2>0, <3>1, <3>2, <3>4 DEF Importing
    <3>5. CASE reply[target[a]] = "timeout"
      BY <1>0, <2>0, <3>2, <3>5 DEF AskedInv, GivenInv
    <3> QED BY <1>0, <3>3, <3>4, <3>5 DEF AnswerNotLost
  <2> QED BY <2>1, <2>2 DEF RequestHistory
<1>7. CountInv'
  BY <1>0 DEF CountInv, GivenInv, AskedInv, Unheard, RequestHistory, Return, Release, CountOf
<1> QED BY <1>1, <1>2, <1>3, <1>4, <1>5, <1>6, <1>7 DEF OnDemandInv

\* The caller takes the answer out of its channel.
LEMMA ReceiveAnswerInv ==
  ASSUME OnDemandInv, NEW r \in Callers, ReceiveAnswer(r)
  PROVE  OnDemandInv'
<1>0. OnDemandTypeOK /\ LatchInv /\ AskedInv /\ JobInv /\ GivenInv /\ AnswerNotLost /\ CountInv
  BY DEF OnDemandInv
<1>1. OnDemandTypeOK'
  <2>1. at' \in [Callers -> Asking \cup {"idle", "done"}]
    BY <1>0 DEF ReceiveAnswer
  <2>2. chat' \in [Callers -> Chats \cup {"none"}]
    BY <1>0 DEF ReceiveAnswer, LatchInv
  <2>3. latches' \in [Chats -> Asks \cup {None}] /\ channel' \in [Asks -> Asks \cup {None}]
    BY <1>0 DEF ReceiveAnswer
  <2>4. phone' \subseteq Asks /\ target' \in [Asks -> Asks \cup {None}]
    BY <1>0 DEF ReceiveAnswer
  <2>5. answers' \in [Asks -> {"none", "arrived", "found", "inline", "given", "done"}]
    BY <1>0 DEF ReceiveAnswer
  <2>6. taken' \in [Callers -> Asks \cup {None}] /\ reply' \in [Asks -> Outcomes]
    BY <1>0 DEF ReceiveAnswer, LatchInv
  <2>7. imports' \in [Asks -> Nat] /\ shared' \subseteq Callers /\ late' \subseteq Asks
    BY <1>0 DEF ReceiveAnswer, GivenInv
  <2>8. job' \in {"none", "pending", "running", "completed", "failed", "purged"} /\ page' \in 0 .. PageCap
    BY <1>0 DEF ReceiveAnswer
  <2>9. todo' \subseteq Chats
    BY <1>0 DEF ReceiveAnswer
  <2>10. counted' \in [Chats -> {"none", "skipped", "imported", "noAnchor", "errors"}]
    BY <1>0 DEF ReceiveAnswer
  <2> QED BY <2>1, <2>2, <2>3, <2>4, <2>5, <2>6, <2>7, <2>8, <2>9, <2>10
<1>2. LatchInv'
  BY <1>0 DEF LatchInv, LatchHasOwner, AloneIsReachable, Others, ReceiveAnswer
<1>3. AskedInv'
  BY <1>0 DEF AskedInv, Unheard, LatchInv, JobInv, Uncounted, ReceiveAnswer
<1>4. JobInv'
  BY <1>0 DEF JobInv, Uncounted, ReceiveAnswer
<1>5. GivenInv'
  <2>1. /\ channel' = [channel EXCEPT ![Ask(r)] = None] /\ taken' = [taken EXCEPT ![r] = channel[Ask(r)]]
        /\ at[r] = "wait" /\ at' = [at EXCEPT ![r] = "import"]
        /\ answers' = answers /\ target' = target /\ imports' = imports /\ chat' = chat
        /\ channel[Ask(r)] # None /\ Ask(r) \in Asks
    BY <1>0 DEF ReceiveAnswer, LatchInv
  <2>2. \A x \in Asks : channel'[x] # None => x # Ask(r) /\ channel'[x] = channel[x]
    BY <1>0, <2>1
  <2>3. ASSUME NEW o \in Callers, at'[o] = "import"
        PROVE  /\ taken'[o] \in Asks /\ answers[taken'[o]] = "given" /\ target[taken'[o]] = Ask(o)
               /\ imports[taken'[o]] = 0 /\ channel'[Ask(o)] # taken'[o]
    <3>1. CASE o = r
      <4>1. channel[Ask(r)] \in Asks /\ taken'[r] = channel[Ask(r)] /\ channel'[Ask(r)] = None
        BY <1>0, <2>1
      <4>2. answers[channel[Ask(r)]] = "given" /\ target[channel[Ask(r)]] = Ask(r) /\ imports[channel[Ask(r)]] = 0
        BY <1>0, <2>1 DEF GivenInv
      <4> QED BY <2>1, <3>1, <4>1, <4>2
    <3>2. CASE o # r
      BY <1>0, <2>1, <2>3, <3>2 DEF GivenInv
    <3> QED BY <3>1, <3>2
  <2>4. \A x \in Asks : channel'[x] # None =>
          answers[channel'[x]] = "given" /\ target[channel'[x]] = x /\ imports[channel'[x]] = 0
    BY <1>0, <2>2 DEF GivenInv
  <2>5. \A o \in Callers : Ask(o)' = Ask(o)
    BY <2>1
  <2> QED
    <3>1. /\ \A a \in Asks : answers[a] \in {"found", "given"} => target[a] # None /\ target[a][2] = a[2]
          /\ \A a \in Asks : answers[a] \notin {"given", "done"} => imports[a] = 0
      BY <1>0 DEF GivenInv
    <3> HIDE <1>0
    <3> QED BY <2>1, <2>3, <2>4, <2>5, <3>1 DEF GivenInv
<1>6. AnswerNotLost'
  <2>1. /\ channel' = [channel EXCEPT ![Ask(r)] = None] /\ taken' = [taken EXCEPT ![r] = channel[Ask(r)]]
        /\ at[r] = "wait" /\ at' = [at EXCEPT ![r] = "import"] /\ Ask(r) \in Asks
        /\ answers' = answers /\ target' = target /\ imports' = imports /\ chat' = chat
        /\ reply' = reply /\ late' = late
    BY <1>0 DEF ReceiveAnswer, LatchInv
  <2> SUFFICES ASSUME NEW a \in Asks, answers[a] = "given"
               PROVE  imports[a] = 1 \/ InChannel(a)' \/ Importing(a)' \/ a \in late \/ reply[target[a]] = "timeout"
    BY <1>0, <2>1 DEF AnswerNotLost
  <2>2. CASE InChannel(a)
    <3>1. PICK b \in Asks : Waits(b) /\ channel[b] = a
      BY <2>2 DEF InChannel
    <3>2. CASE b = Ask(r)
      BY <1>0, <2>1, <3>1, <3>2 DEF Importing
    <3>3. CASE b # Ask(r)
      <4>1. b[1] # r /\ b[1] \in Callers
        BY <3>1, <3>3
      <4>2. at'[b[1]] = "wait" /\ chat'[b[1]] = b[2] /\ channel'[b] = a
        BY <1>0, <2>1, <3>1, <3>3, <4>1
      <4> QED BY <4>2 DEF InChannel
    <3> QED BY <3>2, <3>3
  <2>3. CASE Importing(a)
    BY <1>0, <2>1, <2>3 DEF Importing
  <2> QED BY <1>0, <2>2, <2>3 DEF AnswerNotLost
<1>7. CountInv'
  BY <1>0 DEF CountInv, GivenInv, AskedInv, Unheard, ReceiveAnswer
<1> QED BY <1>1, <1>2, <1>3, <1>4, <1>5, <1>6, <1>7 DEF OnDemandInv

\* The caller imports the answer and returns.
LEMMA ImportAnswerInv ==
  ASSUME OnDemandInv, NEW r \in Callers, ImportAnswer(r)
  PROVE  OnDemandInv'
<1>0. OnDemandTypeOK /\ LatchInv /\ AskedInv /\ JobInv /\ GivenInv /\ AnswerNotLost /\ CountInv
  BY DEF OnDemandInv
<1>1. OnDemandTypeOK'
  <2>1. at' \in [Callers -> Asking \cup {"idle", "done"}]
    BY <1>0, ReturnTypes DEF ImportAnswer, LatchInv
  <2>2. chat' \in [Callers -> Chats \cup {"none"}]
    BY <1>0 DEF ImportAnswer, Return, Release, CountOf, LatchInv
  <2>3. latches' \in [Chats -> Asks \cup {None}] /\ channel' \in [Asks -> Asks \cup {None}]
    BY <1>0, ReturnTypes DEF ImportAnswer, LatchInv
  <2>4. phone' \subseteq Asks /\ target' \in [Asks -> Asks \cup {None}]
    BY <1>0 DEF ImportAnswer, Return, Release, CountOf
  <2>5. answers' \in [Asks -> {"none", "arrived", "found", "inline", "given", "done"}]
    BY <1>0 DEF ImportAnswer, Return, Release, CountOf
  <2>6. taken' \in [Callers -> Asks \cup {None}] /\ reply' \in [Asks -> Outcomes]
    BY <1>0, ReturnTypes DEF ImportAnswer, LatchInv
  <2>7. imports' \in [Asks -> Nat] /\ shared' \subseteq Callers /\ late' \subseteq Asks
    BY <1>0 DEF ImportAnswer, Return, Release, CountOf, GivenInv
  <2>8. job' \in {"none", "pending", "running", "completed", "failed", "purged"} /\ page' \in 0 .. PageCap
    BY <1>0 DEF ImportAnswer, Return, Release, CountOf
  <2>9. todo' \subseteq Chats
    BY <1>0 DEF ImportAnswer, Return, Release, CountOf
  <2>10. counted' \in [Chats -> {"none", "skipped", "imported", "noAnchor", "errors"}]
    BY <1>0, ReturnTypes DEF ImportAnswer, LatchInv
  <2> QED BY <2>1, <2>2, <2>3, <2>4, <2>5, <2>6, <2>7, <2>8, <2>9, <2>10
<1>2. LatchInv'
  BY <1>0, ReturnLatches DEF ImportAnswer
<1>3. AskedInv'
  BY <1>0 DEF AskedInv, Unheard, LatchInv, JobInv, Uncounted, ImportAnswer, Return, Release, CountOf
<1>4. JobInv'
  BY <1>0 DEF JobInv, Uncounted, ImportAnswer, Return, Release, CountOf
<1>5. GivenInv'
  BY <1>0 DEF GivenInv, LatchInv, LatchHasOwner, AskedInv, Unheard, ImportAnswer, Return, Release, CountOf
<1>6. AnswerNotLost'
  BY <1>0 DEF AnswerNotLost, InChannel, Importing, GivenInv, AskedInv, Unheard, ImportAnswer, Return,
     Release, CountOf
<1>7. CountInv'
  BY <1>0 DEF CountInv, GivenInv, AskedInv, Unheard, ImportAnswer, Return, Release, CountOf
<1> QED BY <1>1, <1>2, <1>3, <1>4, <1>5, <1>6, <1>7 DEF OnDemandInv

\* The caller gives up.
LEMMA TimeoutInv ==
  ASSUME OnDemandInv, NEW r \in Callers, Timeout(r)
  PROVE  OnDemandInv'
<1>0. OnDemandTypeOK /\ LatchInv /\ AskedInv /\ JobInv /\ GivenInv /\ AnswerNotLost /\ CountInv
  BY DEF OnDemandInv
<1>1. OnDemandTypeOK'
  BY <1>0 DEF Timeout, Return, Release, CountOf
<1>2. LatchInv'
  BY <1>0, ReturnLatches DEF Timeout
<1>3. AskedInv'
  BY <1>0 DEF AskedInv, Unheard, LatchInv, JobInv, Uncounted, Timeout, Return, Release, CountOf
<1>4. JobInv'
  BY <1>0 DEF JobInv, Uncounted, Timeout, Return, Release, CountOf
<1>5. GivenInv'
  BY <1>0 DEF GivenInv, LatchInv, LatchHasOwner, AskedInv, Unheard, Timeout, Return, Release, CountOf
<1>6. AnswerNotLost'
  BY <1>0 DEF AnswerNotLost, InChannel, Importing, GivenInv, AskedInv, Unheard, Timeout, Return, Release,
     CountOf
<1>7. CountInv'
  BY <1>0 DEF CountInv, GivenInv, AskedInv, Unheard, Timeout, Return, Release, CountOf
<1> QED BY <1>1, <1>2, <1>3, <1>4, <1>5, <1>6, <1>7 DEF OnDemandInv

\* An answer arrives.
LEMMA PhoneAnswersInv ==
  ASSUME OnDemandInv, NEW a \in Asks, PhoneAnswers(a)
  PROVE  OnDemandInv'
<1>0. OnDemandTypeOK /\ LatchInv /\ AskedInv /\ JobInv /\ GivenInv /\ AnswerNotLost /\ CountInv
  BY DEF OnDemandInv
<1>1. OnDemandTypeOK'
  BY <1>0 DEF PhoneAnswers
<1>2. LatchInv'
  BY <1>0 DEF LatchInv, LatchHasOwner, AloneIsReachable, Others, PhoneAnswers
<1>3. AskedInv'
  BY <1>0 DEF AskedInv, Unheard, LatchInv, JobInv, Uncounted, PhoneAnswers
<1>4. JobInv'
  BY <1>0 DEF JobInv, Uncounted, PhoneAnswers
<1>5. GivenInv'
  BY <1>0 DEF GivenInv, LatchInv, LatchHasOwner, AskedInv, Unheard, PhoneAnswers
<1>6. AnswerNotLost'
  BY <1>0 DEF AnswerNotLost, InChannel, Importing, GivenInv, AskedInv, Unheard, PhoneAnswers
<1>7. CountInv'
  BY <1>0 DEF CountInv, GivenInv, AskedInv, Unheard, PhoneAnswers
<1> QED BY <1>1, <1>2, <1>3, <1>4, <1>5, <1>6, <1>7 DEF OnDemandInv

\* The answer looks for a channel.
LEMMA LookUpInv ==
  ASSUME OnDemandInv, NEW a \in Asks, LookUp(a)
  PROVE  OnDemandInv'
<1>0. OnDemandTypeOK /\ LatchInv /\ AskedInv /\ JobInv /\ GivenInv /\ AnswerNotLost /\ CountInv
  BY DEF OnDemandInv
<1>1. OnDemandTypeOK'
  BY <1>0 DEF LookUp
<1>2. LatchInv'
  BY <1>0 DEF LatchInv, LatchHasOwner, AloneIsReachable, Others, LookUp
<1>3. AskedInv'
  BY <1>0 DEF AskedInv, Unheard, LatchInv, JobInv, Uncounted, LookUp
<1>4. JobInv'
  BY <1>0 DEF JobInv, Uncounted, LookUp
<1>5. GivenInv'
  BY <1>0 DEF GivenInv, LatchInv, LatchHasOwner, AskedInv, Unheard, LookUp
<1>6. AnswerNotLost'
  BY <1>0 DEF AnswerNotLost, InChannel, Importing, GivenInv, AskedInv, Unheard, LookUp
<1>7. CountInv'
  BY <1>0 DEF CountInv, GivenInv, AskedInv, Unheard, LookUp
<1> QED BY <1>1, <1>2, <1>3, <1>4, <1>5, <1>6, <1>7 DEF OnDemandInv

\* The answer goes into the channel, or finds it full.
LEMMA SendInv ==
  ASSUME OnDemandInv, NEW a \in Asks, Send(a)
  PROVE  OnDemandInv'
<1>0. OnDemandTypeOK /\ LatchInv /\ AskedInv /\ JobInv /\ GivenInv /\ AnswerNotLost /\ CountInv
  BY DEF OnDemandInv
<1>1. OnDemandTypeOK'
  <2>1. at' \in [Callers -> Asking \cup {"idle", "done"}]
    BY <1>0 DEF Send, Full
  <2>2. chat' \in [Callers -> Chats \cup {"none"}]
    BY <1>0 DEF Send, Full, LatchInv
  <2>3. latches' \in [Chats -> Asks \cup {None}] /\ channel' \in [Asks -> Asks \cup {None}]
    <3>1. CASE channel[target[a]] = None  \* there is room
      BY <1>0, <3>1 DEF Send
    <3>2. CASE channel[target[a]] # None
      BY <1>0, <3>2 DEF Send
    <3> QED BY <3>1, <3>2
  <2>4. phone' \subseteq Asks /\ target' \in [Asks -> Asks \cup {None}]
    BY <1>0 DEF Send, Full
  <2>5. answers' \in [Asks -> {"none", "arrived", "found", "inline", "given", "done"}]
    BY <1>0 DEF Send, Full
  <2>6. taken' \in [Callers -> Asks \cup {None}] /\ reply' \in [Asks -> Outcomes]
    BY <1>0 DEF Send, Full, LatchInv
  <2>7. imports' \in [Asks -> Nat] /\ shared' \subseteq Callers /\ late' \subseteq Asks
    BY <1>0 DEF Send, Full, GivenInv
  <2>8. job' \in {"none", "pending", "running", "completed", "failed", "purged"} /\ page' \in 0 .. PageCap
    BY <1>0 DEF Send, Full
  <2>9. todo' \subseteq Chats
    BY <1>0 DEF Send, Full
  <2>10. counted' \in [Chats -> {"none", "skipped", "imported", "noAnchor", "errors"}]
    BY <1>0 DEF Send, Full
  <2> QED BY <2>1, <2>2, <2>3, <2>4, <2>5, <2>6, <2>7, <2>8, <2>9, <2>10
<1>2. LatchInv'
  BY <1>0 DEF LatchInv, LatchHasOwner, AloneIsReachable, Others, Send, Full
<1>3. AskedInv'
  BY <1>0 DEF AskedInv, Unheard, LatchInv, JobInv, Uncounted, Send, Full
<1>4. JobInv'
  BY <1>0 DEF JobInv, Uncounted, Send, Full
<1>5. GivenInv'
  BY <1>0 DEF GivenInv, LatchInv, LatchHasOwner, AskedInv, Unheard, Send, Full
<1>6. AnswerNotLost'
  BY <1>0 DEF AnswerNotLost, InChannel, Importing, GivenInv, AskedInv, Unheard, Send, Full
<1>7. CountInv'
  BY <1>0 DEF CountInv, GivenInv, AskedInv, Unheard, Send, Full
<1> QED BY <1>1, <1>2, <1>3, <1>4, <1>5, <1>6, <1>7 DEF OnDemandInv

\* The answer is imported where it arrived.
LEMMA ImportInlineInv ==
  ASSUME OnDemandInv, NEW a \in Asks, ImportInline(a)
  PROVE  OnDemandInv'
<1>0. OnDemandTypeOK /\ LatchInv /\ AskedInv /\ JobInv /\ GivenInv /\ AnswerNotLost /\ CountInv
  BY DEF OnDemandInv
<1>1. OnDemandTypeOK'
  BY <1>0 DEF ImportInline
<1>2. LatchInv'
  BY <1>0 DEF LatchInv, LatchHasOwner, AloneIsReachable, Others, ImportInline
<1>3. AskedInv'
  BY <1>0 DEF AskedInv, Unheard, LatchInv, JobInv, Uncounted, ImportInline
<1>4. JobInv'
  BY <1>0 DEF JobInv, Uncounted, ImportInline
<1>5. GivenInv'
  BY <1>0 DEF GivenInv, LatchInv, LatchHasOwner, AskedInv, Unheard, ImportInline
<1>6. AnswerNotLost'
  BY <1>0 DEF AnswerNotLost, InChannel, Importing, GivenInv, AskedInv, Unheard, ImportInline
<1>7. CountInv'
  BY <1>0 DEF CountInv, GivenInv, AskedInv, Unheard, ImportInline
<1> QED BY <1>1, <1>2, <1>3, <1>4, <1>5, <1>6, <1>7 DEF OnDemandInv

\* The status of the job changes.
LEMMA JobRecordInv ==
  ASSUME OnDemandInv, JobCreate \/ JobStart \/ JobListFails \/ JobCompletes \/ JobPurged
  PROVE  OnDemandInv'
<1>0. OnDemandTypeOK /\ LatchInv /\ AskedInv /\ JobInv /\ GivenInv /\ AnswerNotLost /\ CountInv
  BY DEF OnDemandInv
<1>1. OnDemandTypeOK'
  BY <1>0 DEF JobCreate, JobStart, JobListFails, JobCompletes, JobPurged, Free, MorePages
<1>2. LatchInv'
  BY <1>0 DEF LatchInv, LatchHasOwner, AloneIsReachable, Others, JobCreate, JobStart, JobListFails,
     JobCompletes, JobPurged, Free, MorePages
<1>3. AskedInv'
  BY <1>0 DEF AskedInv, Unheard, LatchInv, JobInv, Uncounted, JobCreate, JobStart, JobListFails,
     JobCompletes, JobPurged, Free, MorePages
<1>4. JobInv'
  BY <1>0 DEF JobInv, Uncounted, JobCreate, JobStart, JobListFails, JobCompletes, JobPurged, Free, MorePages
<1>5. GivenInv'
  <2>1. UNCHANGED <<caller, latching, answering, history>>
    BY DEF JobCreate, JobStart, JobListFails, JobCompletes, JobPurged
  <2> QED BY <1>0, <2>1 DEF GivenInv
<1>6. AnswerNotLost'
  <2>1. UNCHANGED <<caller, latching, answering, history>>
    BY DEF JobCreate, JobStart, JobListFails, JobCompletes, JobPurged
  <2> QED BY <1>0, <2>1 DEF AnswerNotLost, InChannel, Importing
<1>7. CountInv'
  BY <1>0 DEF CountInv, GivenInv, AskedInv, Unheard, JobCreate, JobStart, JobListFails, JobCompletes,
     JobPurged, Free, MorePages
<1> QED BY <1>1, <1>2, <1>3, <1>4, <1>5, <1>6, <1>7 DEF OnDemandInv

\* The job lists a page of contacts.
LEMMA JobListInv ==
  ASSUME OnDemandInv, JobList
  PROVE  OnDemandInv'
<1>0. OnDemandTypeOK /\ LatchInv /\ AskedInv /\ JobInv /\ GivenInv /\ AnswerNotLost /\ CountInv
  BY DEF OnDemandInv
<1>1. OnDemandTypeOK'
  <2>1. at' \in [Callers -> Asking \cup {"idle", "done"}]
    BY <1>0 DEF JobList, Free, MorePages
  <2>2. chat' \in [Callers -> Chats \cup {"none"}]
    BY <1>0 DEF JobList, Free, MorePages, LatchInv
  <2>3. latches' \in [Chats -> Asks \cup {None}] /\ channel' \in [Asks -> Asks \cup {None}]
    BY <1>0 DEF JobList, Free, MorePages
  <2>4. phone' \subseteq Asks /\ target' \in [Asks -> Asks \cup {None}]
    BY <1>0 DEF JobList, Free, MorePages
  <2>5. answers' \in [Asks -> {"none", "arrived", "found", "inline", "given", "done"}]
    BY <1>0 DEF JobList, Free, MorePages
  <2>6. taken' \in [Callers -> Asks \cup {None}] /\ reply' \in [Asks -> Outcomes]
    BY <1>0 DEF JobList, Free, MorePages, LatchInv
  <2>7. imports' \in [Asks -> Nat] /\ shared' \subseteq Callers /\ late' \subseteq Asks
    BY <1>0 DEF JobList, Free, MorePages, GivenInv
  <2>8. job' \in {"none", "pending", "running", "completed", "failed", "purged"} /\ page' \in 0 .. PageCap
    BY <1>0 DEF JobList, Free, MorePages
  <2>9. todo' \subseteq Chats
    BY <1>0 DEF JobList, Free, MorePages, Uncounted
  <2>10. counted' \in [Chats -> {"none", "skipped", "imported", "noAnchor", "errors"}]
    BY <1>0 DEF JobList, Free, MorePages
  <2> QED BY <2>1, <2>2, <2>3, <2>4, <2>5, <2>6, <2>7, <2>8, <2>9, <2>10
<1>2. LatchInv'
  BY <1>0 DEF LatchInv, LatchHasOwner, AloneIsReachable, Others, JobList, Free, MorePages
<1>3. AskedInv'
  BY <1>0 DEF AskedInv, Unheard, LatchInv, JobInv, Uncounted, JobList, Free, MorePages
<1>4. JobInv'
  BY <1>0 DEF JobInv, Uncounted, JobList, Free, MorePages
<1>5. GivenInv'
  BY <1>0 DEF GivenInv, LatchInv, LatchHasOwner, AskedInv, Unheard, JobList, Free, MorePages
<1>6. AnswerNotLost'
  BY <1>0 DEF AnswerNotLost, InChannel, Importing, GivenInv, AskedInv, Unheard, JobList, Free, MorePages
<1>7. CountInv'
  BY <1>0 DEF CountInv, GivenInv, AskedInv, Unheard, JobList, Free, MorePages
<1> QED BY <1>1, <1>2, <1>3, <1>4, <1>5, <1>6, <1>7 DEF OnDemandInv

\* The job leaves a contact out.
LEMMA JobSkipsInv ==
  ASSUME OnDemandInv, NEW c \in Chats, JobSkips(c)
  PROVE  OnDemandInv'
<1>0. OnDemandTypeOK /\ LatchInv /\ AskedInv /\ JobInv /\ GivenInv /\ AnswerNotLost /\ CountInv
  BY DEF OnDemandInv
<1>1. OnDemandTypeOK'
  BY <1>0 DEF JobSkips, Free
<1>2. LatchInv'
  BY <1>0 DEF LatchInv, LatchHasOwner, AloneIsReachable, Others, JobSkips, Free
<1>3. AskedInv'
  BY <1>0 DEF AskedInv, Unheard, LatchInv, JobInv, Uncounted, JobSkips, Free
<1>4. JobInv'
  BY <1>0 DEF JobInv, Uncounted, JobSkips, Free
<1>5. GivenInv'
  BY <1>0 DEF GivenInv, LatchInv, LatchHasOwner, AskedInv, Unheard, JobSkips, Free
<1>6. AnswerNotLost'
  BY <1>0 DEF AnswerNotLost, InChannel, Importing, GivenInv, AskedInv, Unheard, JobSkips, Free
<1>7. CountInv'
  BY <1>0 DEF CountInv, GivenInv, AskedInv, Unheard, JobSkips, Free
<1> QED BY <1>1, <1>2, <1>3, <1>4, <1>5, <1>6, <1>7 DEF OnDemandInv

\* Nobody has asked and the map is empty.
LEMMA InitInv == Init => OnDemandInv
<1>1. Init => OnDemandTypeOK /\ JobInv /\ CountInv
  BY DEF Init, JobInv, Uncounted, CountInv
<1>2. Init => LatchInv /\ AskedInv
  BY DEF Init, LatchInv, LatchHasOwner, AloneIsReachable, AskedInv, Unheard
<1>3. Init => GivenInv /\ AnswerNotLost
  BY DEF Init, GivenInv, AnswerNotLost
<1> QED BY <1>1, <1>2, <1>3 DEF OnDemandInv

\* Every step keeps the invariant.
LEMMA StepInv ==
  ASSUME OnDemandInv, Next
  PROVE  OnDemandInv'
<1>1. ASSUME NEW r \in Requests, NEW c \in Chats, Receives(r, c) PROVE OnDemandInv'
  BY <1>1, ReceivesInv
<1>2. ASSUME NEW r \in Callers, Call(r) PROVE OnDemandInv'
  BY <1>2, ResolveAnchorInv, RequestHistoryInv, ReceiveAnswerInv, ImportAnswerInv, TimeoutInv DEF Call
<1>3. ASSUME NEW a \in Asks, PhoneAnswers(a) \/ Handle(a) PROVE OnDemandInv'
  BY <1>3, PhoneAnswersInv, LookUpInv, SendInv, ImportInlineInv DEF Handle
<1>4. ASSUME JobCreate \/ JobStep \/ JobPurged PROVE OnDemandInv'
  BY <1>4, JobRecordInv, JobListInv, JobSkipsInv, JobAsksInv DEF JobStep
<1> QED BY <1>1, <1>2, <1>3, <1>4 DEF Next

\* A step that changes nothing keeps the invariant.
LEMMA StutterInv ==
  ASSUME OnDemandInv, UNCHANGED vars
  PROVE  OnDemandInv'
BY DEF OnDemandInv, vars, LatchInv, LatchHasOwner, AloneIsReachable, Others, AskedInv, Unheard, JobInv,
   Uncounted,
       GivenInv, AnswerNotLost, InChannel, Importing, CountInv

\* What a completed job says of itself follows from the invariant: it asks for
\* nothing any more, and a chat it has not counted was never asked for.
LEMMA HonestJob == OnDemandInv => JobHonest
<1> SUFFICES ASSUME OnDemandInv, job = "completed" PROVE JobHonest
  BY DEF JobHonest
<1>0. OnDemandTypeOK /\ LatchInv /\ AskedInv /\ JobInv /\ GivenInv /\ CountInv
  BY DEF OnDemandInv
<1>1. at[Job] \notin Asking
  BY <1>0 DEF JobInv
<1>2. ASSUME NEW c \in Chats PROVE latches[c] # <<Job, c>>
  BY <1>0, <1>1 DEF LatchInv, LatchHasOwner
<1>3. ASSUME NEW c \in Chats, <<Job, c>> \in phone \/ imports[<<Job, c>>] > 0 PROVE counted[c] # "none"
  BY <1>0, <1>1, <1>3 DEF AskedInv, Unheard, GivenInv
<1>4. ASSUME NEW c \in Chats, counted[c] = "imported"
      PROVE  imports[<<Job, c>>] = 1 \/ \E r \in Requests : chat[r] = c
  BY <1>0, <1>4 DEF CountInv
<1> QED BY <1>2, <1>3, <1>4 DEF JobHonest

-----------------------------------------------------------------------------
(* Theorems *)

\* The invariant holds in every state that the callers, the phone and the job
\* can reach together.
THEOREM OnDemandSafe == Spec => []OnDemandInv
<1>1. OnDemandInv /\ [Next]_vars => OnDemandInv'
  BY StepInv, StutterInv
<1> QED BY InitInv, <1>1, PTL DEF Spec

\* Every variable keeps its type, and the job stops at the cap of pages
\* (BulkImportHistory).
THEOREM TypeCorrect == Spec => []OnDemandTypeOK
<1>1. OnDemandInv => OnDemandTypeOK
  BY DEF OnDemandInv
<1> QED BY OnDemandSafe, <1>1, PTL

\* A channel in the map belongs to a caller that asks for that chat now
\* (acquire, release).
THEOREM LatchOwned == Spec => []LatchHasOwner
<1>1. OnDemandInv => LatchHasOwner
  BY DEF OnDemandInv, LatchInv
<1> QED BY OnDemandSafe, <1>1, PTL

\* A caller that shared its chat with nobody is found by its answer
\* (onDemandLatchSet).
THEOREM AloneReachable == Spec => []AloneIsReachable
<1>1. OnDemandInv => AloneIsReachable
  BY DEF OnDemandInv, LatchInv
<1> QED BY OnDemandSafe, <1>1, PTL

\* An answer that was handed over is imported once, unless its caller had
\* stopped waiting (notify).
THEOREM AnswersKept == Spec => []AnswerNotLost
<1>1. OnDemandInv => AnswerNotLost
  BY DEF OnDemandInv
<1> QED BY OnDemandSafe, <1>1, PTL

\* A completed job left nothing in the map and counted every chat it asked
\* for as what became of it (BulkImportHistory).
THEOREM JobIsHonest == Spec => []JobHonest
BY OnDemandSafe, HonestJob, PTL

=============================================================================
