--------------------------- MODULE IncomingProofs ---------------------------
(***************************************************************************)
(* Theorems about Incoming, for any number of participants, events,        *)
(* conversations, acts of the agent and failures.  The proofs follow a     *)
(* message from its event through the worker that carries it into a        *)
(* conversation, and from there to the agent's screen; what both workers   *)
(* could spoil for each other is in RaceInv.                               *)
(***************************************************************************)
EXTENDS Incoming, FiniteSetTheorems, SequenceTheorems, TLAPS

-----------------------------------------------------------------------------
(* The inductive invariant *)

Entries(c) == {convs[c].msgs[i] : i \in DOMAIN convs[c].msgs}

\* A message whose header the burst left out.
Unmarked(e) == ~e.header /\ e.from \notin Nameless

\* What a worker carries, and what stands in a conversation, is what was handed
\* over; only a message of whatsmeow itself is carried by live.
CarryInv ==
  /\ \A i \in Ids : i > events => sent[i].kind = "none"
  /\ at["live"] # "idle" =>
       /\ item["live"].id = events
       /\ item["live"].kind = sent[events].kind /\ item["live"].from = sent[events].from
  /\ at["live"] = "after" => item["live"].id \in Delivered
  /\ at["import"] # "after"
  /\ at["import"] # "idle" =>
       /\ item["import"].kind = "text" /\ ~Unmarked(item["import"])
       /\ item["import"].from = sent[item["import"].id].from
       /\ item["import"].id \in Old \/ sent[item["import"].id].kind = "text"
  /\ \A w \in Workers : at[w] \in {"create", "open"} => item[w].kind \in Messages
  /\ \A i \in 1 .. events : sent[i].kind = "text" => sent[i].from \in Senders
  /\ \A c \in DOMAIN convs : \A e \in Entries(c) :
       /\ e.id \in 1 .. events \cup Old \cup {0}
       /\ e.by = "live" => e.id \in 1 .. events /\ e.kind = sent[e.id].kind
       /\ e.by = "live" /\ at["live"] \notin {"idle", "after"} => e.id # events

\* Unless the workers have met, one that is about to create is the only one and
\* finds nothing there.
RaceInv ==
  ~raced => \A w \in Workers :
    /\ at[w] = "create" => ~contact /\ at[Other(w)] # "create"
    /\ at[w] = "open" => Open = {} /\ at[Other(w)] # "open"

\* As long as they have not met, a chat whose conversations are all closed, and
\* a source id that was refused, are the agent's doing.
CauseInv ==
  /\ resolved \in BOOLEAN /\ refused \subseteq Workers \X Ids
  /\ ~raced /\ (refused # {} \/ (convs # <<>> /\ Open = {})) => resolved

\* What bridge_dedup remembers of the owner was delivered or given up, or is on
\* its way.
TwinInv ==
  Calm => \A content \in recent : \E j \in 1 .. events :
    /\ sent[j].kind = "own" /\ sent[j].content = content
    /\ j \in Delivered \/ GivenUp("live", j) \/ (at["live"] # "idle" /\ j = events)

\* What waits for the agent is delivered; what waited when the agent looked was
\* in the downstream, and on the screen if the chat had one conversation.
SeenInv ==
  /\ \A e \in waids : e.at <= agent /\ e.id \in Delivered
  /\ \A cutoff \in looks : cutoff < agent
  /\ \A e \in waids, cutoff \in looks : e.at <= cutoff => e.id \in shown
  /\ marked \subseteq shown
  /\ Len(convs) <= 1 => shown \subseteq seen

\* It is a text that was handled, and waits once.
WaitingInv ==
  /\ Waiting \subseteq Texts
  /\ \A e, f \in waids : e.id = f.id => e = f
  /\ media \subseteq Handled
  /\ NoTextForgotten

\* The message that came live last is one of sender x.
LastIsBy(x) ==
  \E c \in DOMAIN convs : \E j \in Before(c, Len(convs[c].msgs) + 1) :
    /\ \A k \in Before(c, Len(convs[c].msgs) + 1) : k <= j
    /\ convs[c].msgs[j].from = x

\* Whom the tracker takes for the last sender is the last in the conversation,
\* or about to be.
BurstInv ==
  Calm /\ refused = {} /\ Len(convs) <= 1 =>
    /\ burst \in Senders /\ (at["live"] = "idle" \/ item["live"].kind = "notice") => LastIsBy(burst)
    /\ burst \in Senders /\ at["live"] # "idle" /\ item["live"].kind # "notice" =>
         item["live"].kind = "text" /\ item["live"].from = burst
    /\ at["live"] # "idle" /\ item["live"].kind = "text" /\ item["live"].id \in Delivered =>
         LastIsBy(item["live"].from)
    /\ at["live"] # "idle" /\ item["live"].kind = "text" /\ Unmarked(item["live"]) =>
         LastIsBy(item["live"].from)

IncomingInv ==
  /\ IncomingTypeOK /\ CarryInv /\ RaceInv /\ CauseInv /\ TwinInv /\ LostOnlyWithCause
  /\ SeenInv /\ WaitingInv /\ ImportHonest /\ BurstInv /\ BareFollowsItsSender

-----------------------------------------------------------------------------
(* Conversations and their messages *)

\* There are two workers.
LEMMA TwoWorkers == Other("live") = "import" /\ Other("import") = "live"
BY DEF Other, Workers

ConvType == [open : BOOLEAN, msgs : Seq(EntryType)]

\* A message is delivered if it stands in a conversation.
LEMMA DeliveredIs ==
  \A x : x \in Delivered <=>
    \E c \in DOMAIN convs : \E i \in DOMAIN convs[c].msgs : convs[c].msgs[i].id = x
BY DEF Delivered, Posted

\* A step that opens or closes conversations leaves their messages alone.
SameMessages ==
  /\ DOMAIN convs' = DOMAIN convs
  /\ \A c \in DOMAIN convs : convs'[c].msgs = convs[c].msgs

Opens == convs' = Append(convs, [open |-> TRUE, msgs |-> <<>>])

Says(c, e) == c \in DOMAIN convs /\ e \in EntryType /\ convs' = Appended(c, e)

\* A message that is said comes last in its conversation.
LEMMA SaysIs ==
  ASSUME convs \in Seq(ConvType), NEW c, NEW e, Says(c, e)
  PROVE  /\ convs' \in Seq(ConvType) /\ Len(convs') = Len(convs) /\ DOMAIN convs' = DOMAIN convs
         /\ \A d \in DOMAIN convs : convs'[d].open = convs[d].open
         /\ \A d \in DOMAIN convs : d # c => convs'[d] = convs[d]
         /\ convs[c].msgs \in Seq(EntryType) /\ convs'[c].msgs = Append(convs[c].msgs, e)
         /\ DOMAIN convs[c].msgs = 1 .. Len(convs[c].msgs)
         /\ DOMAIN convs'[c].msgs = 1 .. Len(convs[c].msgs) + 1
         /\ \A i \in DOMAIN convs[c].msgs : convs'[c].msgs[i] = convs[c].msgs[i]
         /\ convs'[c].msgs[Len(convs[c].msgs) + 1] = e
<1>1. c \in DOMAIN convs /\ e \in EntryType /\ convs' = Appended(c, e)
  BY DEF Says
<1>2. convs[c] \in ConvType
  BY <1>1
<1>11. convs[c].msgs \in Seq(EntryType)
  BY <1>2 DEF ConvType
<1>3. convs' = [convs EXCEPT ![c] = [convs[c] EXCEPT !.msgs = Append(convs[c].msgs, e)]]
  BY <1>1 DEF Appended
<1>4. Append(convs[c].msgs, e) \in Seq(EntryType)
  BY <1>1, <1>11
<1>5. [convs[c] EXCEPT !.msgs = Append(convs[c].msgs, e)] \in ConvType
  BY <1>2, <1>4 DEF ConvType
<1>6. convs' \in Seq(ConvType) /\ Len(convs') = Len(convs) /\ DOMAIN convs' = DOMAIN convs
  BY <1>1, <1>3, <1>5, ExceptSeq
<1>7. convs'[c] = [convs[c] EXCEPT !.msgs = Append(convs[c].msgs, e)]
  BY <1>1, <1>3
<1>8. convs'[c].open = convs[c].open /\ convs'[c].msgs = Append(convs[c].msgs, e)
  BY <1>2, <1>7 DEF ConvType
<1>9. \A d \in DOMAIN convs : d # c => convs'[d] = convs[d]
  BY <1>1, <1>3
<1>10. /\ DOMAIN convs[c].msgs = 1 .. Len(convs[c].msgs)
       /\ DOMAIN Append(convs[c].msgs, e) = 1 .. Len(convs[c].msgs) + 1
       /\ \A i \in DOMAIN convs[c].msgs : Append(convs[c].msgs, e)[i] = convs[c].msgs[i]
       /\ Append(convs[c].msgs, e)[Len(convs[c].msgs) + 1] = e
  BY <1>1, <1>11, AppendProperties, LenProperties
<1> QED BY <1>11, <1>6, <1>8, <1>9, <1>10

\* It is all that becomes delivered.
LEMMA SaysDelivers ==
  ASSUME convs \in Seq(ConvType), NEW c, NEW e, Says(c, e)
  PROVE  Delivered' = Delivered \cup {e.id}
<1>1. ASSUME NEW x PROVE x \in Delivered' <=> x \in Delivered \/ x = e.id
  <2> DEFINE n == Len(convs[c].msgs)
  <2>0. c \in DOMAIN convs /\ n \in Nat
    BY SaysIs DEF Says
  <2>1. /\ DOMAIN convs' = DOMAIN convs
        /\ \A d \in DOMAIN convs : d # c => convs'[d] = convs[d]
        /\ DOMAIN convs[c].msgs = 1 .. n /\ DOMAIN convs'[c].msgs = 1 .. n + 1
        /\ \A i \in 1 .. n : convs'[c].msgs[i] = convs[c].msgs[i]
        /\ convs'[c].msgs[n + 1] = e
    BY SaysIs
  <2>2. (x \in Delivered)' <=>
          \E d \in DOMAIN convs' : \E i \in DOMAIN convs'[d].msgs : convs'[d].msgs[i].id = x
    BY DEF Delivered, Posted
  <2>3. \A i \in 1 .. n + 1 : i \in 1 .. n \/ i = n + 1
    BY <2>0
  <2>4. n + 1 \in 1 .. n + 1 /\ \A i \in 1 .. n : i \in 1 .. n + 1
    BY <2>0
  <2> HIDE DEF n
  <2>5. ASSUME x \in Delivered' PROVE x \in Delivered \/ x = e.id
    <3> PICK d \in DOMAIN convs' : \E i \in DOMAIN convs'[d].msgs : convs'[d].msgs[i].id = x
      BY <2>2, <2>5
    <3> QED BY <2>0, <2>1, <2>3, DeliveredIs
  <2>6. ASSUME x \in Delivered PROVE x \in Delivered'
    <3> PICK d \in DOMAIN convs : \E i \in DOMAIN convs[d].msgs : convs[d].msgs[i].id = x
      BY <2>6, DeliveredIs
    <3> QED BY <2>0, <2>1, <2>2, <2>4
  <2>7. ASSUME x = e.id PROVE x \in Delivered'
    BY <2>0, <2>1, <2>2, <2>4, <2>7
  <2> QED BY <2>5, <2>6, <2>7
<1> QED BY <1>1

\* Conversations that keep their messages deliver what they delivered.
LEMMA SameDelivers ==
  ASSUME SameMessages PROVE Delivered' = Delivered
BY DEF SameMessages, Delivered, Posted

\* A conversation opened at the end of the sequence leaves the others as they are.
LEMMA OpensIs ==
  ASSUME convs \in Seq(ConvType), Opens
  PROVE  /\ convs' \in Seq(ConvType) /\ Len(convs') = Len(convs) + 1
         /\ DOMAIN convs = 1 .. Len(convs) /\ DOMAIN convs' = 1 .. Len(convs) + 1
         /\ \A d \in DOMAIN convs : convs'[d] = convs[d]
         /\ convs'[Len(convs) + 1] = [open |-> TRUE, msgs |-> <<>>]
<1>1. [open |-> TRUE, msgs |-> <<>>] \in ConvType
  BY DEF ConvType
<1> QED BY <1>1 DEF Opens

\* Opening a conversation delivers nothing, for it is empty.
LEMMA OpensDelivers ==
  ASSUME convs \in Seq(ConvType), Opens
  PROVE  Delivered' = Delivered
<1>1. /\ Len(convs) \in Nat
      /\ DOMAIN convs = 1 .. Len(convs) /\ DOMAIN convs' = 1 .. Len(convs) + 1
      /\ \A d \in DOMAIN convs : convs'[d] = convs[d]
      /\ convs'[Len(convs) + 1].msgs = <<>>
  BY OpensIs
<1>2. DOMAIN convs' = DOMAIN convs \cup {Len(convs) + 1} /\ DOMAIN <<>> = {}
  BY <1>1
<1>3. \A x : (x \in Delivered)' <=>
        \E d \in DOMAIN convs' : \E i \in DOMAIN convs'[d].msgs : convs'[d].msgs[i].id = x
  BY DEF Delivered, Posted
<1>4. \A x : x \in Delivered' <=> x \in Delivered
  BY <1>1, <1>2, <1>3, DeliveredIs
<1> QED BY <1>4

-----------------------------------------------------------------------------
(* Types *)

\* The types of what the workers keep.
WorkType ==
  /\ at \in [Workers -> Places] /\ item \in [Workers -> ItemType]
  /\ conv \in [Workers -> 0 .. MaxConvs] /\ tries \in 0 .. 2
  /\ \A w \in Workers : at[w] # "idle" => item[w].id \in Ids
  /\ \A w \in Workers : at[w] = "post" => conv[w] \in DOMAIN convs

ConvsType == convs \in Seq(ConvType) /\ Len(convs) <= MaxConvs

\* What the assumption says of each constant, and that the two fixed names are no
\* sender's.
LEMMA Constants ==
  /\ Cap \in Nat \ {0} /\ MaxEvents \in Nat /\ MaxOld \in Nat /\ MaxImports \in Nat
  /\ MaxConvs \in Nat /\ MaxAgent \in Nat /\ MaxFailures \in Nat
  /\ Owner \notin Senders /\ Nobody \notin Senders /\ Owner # Nobody
BY IncomingAssumption DEF Owner, Nobody

\* The message of a worker that has none has the type of a message.
LEMMA NoItemType == NoItem \in ItemType /\ NoItem.kind = "text"
BY DEF NoItem, ItemType, Kinds, Messages, People

\* A worker goes on, or returns.
LEMMA GoesType ==
  ASSUME WorkType, NEW w \in Workers, NEW place \in Places \ {"post"}, Goes(w, place),
         at[w] # "idle", DOMAIN convs \subseteq DOMAIN convs'
  PROVE  WorkType'
BY DEF WorkType, Goes

\* A worker that returns keeps the type of the workers' state.
LEMMA ReturnsType ==
  ASSUME WorkType, NEW w \in Workers, Returns(w), DOMAIN convs \subseteq DOMAIN convs'
  PROVE  WorkType'
BY NoItemType, Constants DEF WorkType, Returns, Places

\* So does a worker that takes a message up.
LEMMA TakesType ==
  ASSUME WorkType, NEW w \in Workers, NEW e \in ItemType, NEW place \in Places \ {"post"},
         Takes(w, e, place), e.id \in Ids, tries' \in 0 .. 2, DOMAIN convs \subseteq DOMAIN convs'
  PROVE  WorkType'
BY DEF WorkType, Takes

\* What a worker posts is a message.
LEMMA EntryIs ==
  ASSUME WorkType, NEW w \in Workers PROVE Entry(w) \in EntryType
<1>1. item[w] \in ItemType
  BY DEF WorkType
<1> QED BY <1>1 DEF Entry, EntryType, ItemType, Workers

Posts(w) == at[w] = "post" /\ convs' = Appended(conv[w], Entry(w))

\* A post adds the worker's entry to the conversation it has in hand.
LEMMA PostSays ==
  ASSUME WorkType, NEW w \in Workers, Posts(w)
  PROVE  Says(conv[w], Entry(w))
BY EntryIs DEF Posts, Says, WorkType

\* How a conversation may change.
Grows ==
  /\ ConvsType' /\ DOMAIN convs \subseteq DOMAIN convs'
  /\ SameMessages \/ Opens \/ \E c, e : Says(c, e)

\* Conversations that do not change have grown, by nothing.
LEMMA SameGrows ==
  ASSUME ConvsType, UNCHANGED convs PROVE Grows
BY DEF Grows, ConvsType, SameMessages

\* A message added to a conversation makes the conversations grow.
LEMMA SaysGrows ==
  ASSUME ConvsType, NEW c, NEW e, Says(c, e) PROVE Grows
<1>1. convs' \in Seq(ConvType) /\ Len(convs') = Len(convs) /\ DOMAIN convs' = DOMAIN convs
  BY SaysIs DEF ConvsType
<1> QED BY <1>1 DEF Grows, ConvsType

\* Creating a conversation makes them grow, by one at the end.
LEMMA OpensGrows ==
  ASSUME ConvsType, NewConversation PROVE Grows /\ Opens
<1>1. Opens /\ Len(convs) < MaxConvs
  BY DEF NewConversation, Opens
<1>2. /\ convs' \in Seq(ConvType) /\ Len(convs') = Len(convs) + 1 /\ Len(convs) \in Nat
      /\ DOMAIN convs = 1 .. Len(convs) /\ DOMAIN convs' = 1 .. Len(convs) + 1
  BY <1>1, OpensIs DEF ConvsType
<1>3. Len(convs') <= MaxConvs
  BY <1>1, <1>2, Constants
<1> QED BY <1>1, <1>2, <1>3 DEF Grows, ConvsType

\* Closing or reopening one keeps every message where it is.
LEMMA SwitchGrows ==
  ASSUME ConvsType, NEW c \in DOMAIN convs, NEW b \in BOOLEAN,
         convs' = [convs EXCEPT ![c].open = b]
  PROVE  /\ Grows /\ SameMessages
         /\ \A d \in DOMAIN convs : d # c => convs'[d] = convs[d]
         /\ convs'[c].open = b
<1>1. convs[c] \in ConvType /\ convs \in Seq(ConvType)
  BY DEF ConvsType
<1>2. [convs[c] EXCEPT !.open = b] \in ConvType /\ [convs[c] EXCEPT !.open = b].msgs = convs[c].msgs
      /\ [convs[c] EXCEPT !.open = b].open = b
  BY <1>1 DEF ConvType
<1>3. convs' = [convs EXCEPT ![c] = [convs[c] EXCEPT !.open = b]]
  OBVIOUS
<1>4. convs' \in Seq(ConvType) /\ Len(convs') = Len(convs) /\ DOMAIN convs' = DOMAIN convs
  BY <1>1, <1>2, <1>3, ExceptSeq
<1>5. \A d \in DOMAIN convs : convs'[d] = IF d = c THEN [convs[c] EXCEPT !.open = b] ELSE convs[d]
  BY <1>1, <1>3
<1>6. SameMessages
  BY <1>2, <1>4, <1>5 DEF SameMessages
<1> QED BY <1>2, <1>4, <1>5, <1>6 DEF Grows, ConvsType

\* Whatever the agent does, the conversations grow.
LEMMA AgentGrows ==
  ASSUME ConvsType, Agent PROVE Grows
<1>1. ASSUME NEW c \in DOMAIN convs, AgentLooks(c) PROVE Grows
  BY <1>1, SameGrows DEF AgentLooks
<1>2. ASSUME NEW c \in DOMAIN convs, AgentReplies(c) PROVE Grows
  <2> DEFINE e == [id |-> 0, from |-> Owner, by |-> "agent", kind |-> "own", header |-> FALSE]
  <2>1. e \in EntryType
    BY DEF EntryType, People, Kinds, Messages
  <2>2. Says(c, e)
    BY <1>2, <2>1 DEF AgentReplies, Says
  <2> QED BY <2>2, SaysGrows
<1>3. ASSUME NEW c \in DOMAIN convs, Resolve(c) PROVE Grows
  BY <1>3, SwitchGrows DEF Resolve
<1>4. ASSUME NEW c \in DOMAIN convs, Reopen(c) PROVE Grows
  BY <1>4, SwitchGrows DEF Reopen
<1> QED BY <1>1, <1>2, <1>3, <1>4 DEF Agent

\* Whatever a worker posts, they grow.
LEMMA PostGrows ==
  ASSUME WorkType, ConvsType, PostMessage \/ PostNotice \/ PostImport
  PROVE  Grows
<1>1. UNCHANGED convs \/ Posts("live") \/ Posts("import")
  BY DEF PostMessage, PostNotice, PostImport, Posts
<1> QED BY <1>1, SameGrows, SaysGrows, PostSays DEF Workers

\* The steps in which a worker looks for, or creates, contact and conversation make
\* them grow.
LEMMA SyncGrows ==
  ASSUME ConvsType, NEW w \in Workers, Sync(w)
  PROVE  Grows
<1>1. UNCHANGED convs \/ NewConversation
  BY DEF Sync, FindContact, CreateContact, FindConversation, CreateConversation, downstream
<1> QED BY <1>1, SameGrows, OpensGrows

\* No step ever takes a message or a conversation away.
LEMMA NextGrows ==
  ASSUME WorkType, ConvsType, [Next]_vars PROVE Grows
<1>1. CASE UNCHANGED convs
  BY <1>1, SameGrows
<1>2. CASE Agent
  BY <1>2, AgentGrows
<1>3. CASE PostMessage \/ PostNotice \/ PostImport
  BY <1>3, PostGrows
<1>4. CASE \E w \in Workers : Sync(w)
  BY <1>4, SyncGrows
<1>5. CASE ~(Agent \/ PostMessage \/ PostNotice \/ PostImport \/ \E w \in Workers : Sync(w))
  BY <1>1, <1>5 DEF Next, vars, downstream, Receive, Import, BurstEnds, WindowElapses, ReceiveMessage, ReceiveOwn,
     ReceiveReaction, ReceiveGroupInfo, Event, ImportNext, AfterPost, MarkBotSentInGroup, ConversationUpdated
<1> QED BY <1>1, <1>2, <1>3, <1>4, <1>5

-----------------------------------------------------------------------------
(* What the workers keep has its type after every step *)

\* After the look-ups and creations.
LEMMA SyncWork ==
  ASSUME WorkType, ConvsType, NEW w \in Workers, Sync(w)
  PROVE  WorkType'
<1>1. Grows /\ DOMAIN convs \subseteq DOMAIN convs'
  BY SyncGrows DEF Grows
<1>2. at[w] # "idle"
  BY DEF Sync, FindContact, CreateContact, FindConversation, CreateConversation
<1>3. CASE Returns(w)
  BY <1>1, <1>3, ReturnsType
<1>4. ASSUME NEW place \in Places \ {"post"}, Goes(w, place) PROVE WorkType'
  BY <1>1, <1>2, <1>4, GoesType
<1>5. ASSUME NEW c, c \in DOMAIN convs', at' = [at EXCEPT ![w] = "post"],
             conv' = [conv EXCEPT ![w] = c], UNCHANGED <<item, tries>>
      PROVE  WorkType'
  <2>1. c \in 0 .. MaxConvs
    BY <1>1, <1>5, Constants DEF Grows, ConvsType
  <2> QED BY <1>1, <1>2, <1>5, <2>1 DEF WorkType, Places
<1>6. CASE FindContact(w)
  BY <1>3, <1>4, <1>6 DEF FindContact, GivesUp, Places
<1>7. CASE CreateContact(w)
  BY <1>3, <1>4, <1>7 DEF CreateContact, GivesUp, Places
<1>8. CASE FindConversation(w)
  BY <1>1, <1>3, <1>4, <1>5, <1>8 DEF FindConversation, GivesUp, Places, Open
<1>9. CASE CreateConversation(w)
  <2>1. ASSUME NewConversation PROVE Len(convs') \in DOMAIN convs'
    BY <2>1, OpensGrows, OpensIs DEF ConvsType
  <2> QED BY <1>3, <1>5, <1>9, <2>1 DEF CreateConversation, GivesUp
<1> QED BY <1>6, <1>7, <1>8, <1>9 DEF Sync

\* After the posts.
LEMMA PostWork ==
  ASSUME WorkType, ConvsType, PostMessage \/ PostNotice \/ PostImport
  PROVE  WorkType'
<1>1. DOMAIN convs \subseteq DOMAIN convs'
  BY PostGrows DEF Grows
<1>2. CASE Returns("live") \/ Returns("import")
  BY <1>1, <1>2, ReturnsType DEF Workers
<1>3. CASE at["live"] # "idle" /\ Goes("live", "after")
  BY <1>1, <1>3, GoesType DEF Workers, Places
<1>4. CASE UNCHANGED <<at, item, conv>> /\ tries < 2 /\ tries' = tries + 1
  BY <1>1, <1>4 DEF WorkType
<1> QED BY <1>2, <1>3, <1>4 DEF PostMessage, PostNotice, PostImport, GivesUp

\* After an event.
LEMMA ReceiveWork ==
  ASSUME WorkType, ConvsType, events \in 0 .. MaxEvents, Receive
  PROVE  WorkType' /\ events' = events + 1 /\ events' \in Ids /\ events < MaxEvents
<1>1. UNCHANGED convs /\ events' = events + 1 /\ events < MaxEvents
  BY DEF Receive, ReceiveMessage, ReceiveOwn, ReceiveReaction, ReceiveGroupInfo, Event, downstream
<1>2. events' \in Ids
  BY <1>1, Constants DEF Ids
<1>3. ASSUME UNCHANGED worker PROVE WorkType'
  BY <1>1, <1>3 DEF worker, WorkType
<1>4. ASSUME NEW e \in ItemType, e.id = events', Takes("live", e, "contact"), UNCHANGED tries
      PROVE  WorkType'
  BY <1>1, <1>2, <1>4, TakesType DEF Workers, Places, WorkType
<1>5. ASSUME NEW from \in Senders, ReceiveMessage(from) PROVE WorkType'
  <2> DEFINE e == [id |-> events', kind |-> "text", from |-> from,
                   header |-> burst # from /\ Header(from)]
  <2>1. e \in ItemType
    BY <1>2 DEF ItemType, Kinds, Messages, People, Header
  <2> QED BY <1>4, <1>5, <2>1 DEF ReceiveMessage, Event
<1>6. ASSUME NEW content \in Contents, ReceiveOwn(content) PROVE WorkType'
  <2> DEFINE e == [id |-> events', kind |-> "own", from |-> Owner, header |-> FALSE]
  <2>1. e \in ItemType
    BY <1>2 DEF ItemType, Kinds, Messages, People
  <2> QED BY <1>3, <1>4, <1>6, <2>1 DEF ReceiveOwn, worker
<1>7. ASSUME ReceiveReaction \/ ReceiveGroupInfo PROVE WorkType'
  <2>1. Notice \in ItemType /\ Notice.id = events'
    BY <1>2 DEF Notice, ItemType, Kinds, People
  <2> QED BY <1>4, <1>7, <2>1 DEF ReceiveReaction, ReceiveGroupInfo, Event
<1> QED BY <1>1, <1>2, <1>5, <1>6, <1>7 DEF Receive

\* When the import takes up a message.
LEMMA ImportWork ==
  ASSUME WorkType, sent \in [Ids -> SentType], NEW id \in Ids, ImportNext(id)
  PROVE  WorkType'
<1> DEFINE e == [id |-> id, kind |-> "text", from |-> sent[id].from,
                 header |-> Header(sent[id].from)]
<1>1. e \in ItemType
  BY DEF ItemType, SentType, Kinds, Messages, Header
<1>2. Takes("import", e, "contact") /\ tries' = 0 /\ UNCHANGED convs
  BY DEF ImportNext, downstream
<1> HIDE DEF e
<1>3. e.id = id
  BY DEF e
<1> QED BY <1>1, <1>2, <1>3, TakesType DEF Workers, Places

-----------------------------------------------------------------------------
(* The rest keeps its type *)

FlagType == contact \in BOOLEAN /\ raced \in BOOLEAN /\ cancelled \in BOOLEAN

RestType ==
  /\ FlagType /\ agent \in 0 .. MaxAgent /\ replies \in 0 .. agent
  /\ events \in 0 .. MaxEvents /\ sent \in [Ids -> SentType]
  /\ burst \in People /\ recent \subseteq Contents
  /\ result \in [Ids -> {"none", "posted", "skipped", "errored"}]
  /\ waids \subseteq [id : Ids, at : 0 .. MaxAgent] /\ Cardinality(waids) <= Cap
  /\ looks \subseteq -1 .. MaxAgent
  /\ marked \subseteq Ids /\ media \subseteq Ids
  /\ seen \subseteq shown /\ shown \subseteq Ids \cup {0}
  /\ failures \in 0 .. MaxFailures

\* The types are those of the workers, of the conversations and of the rest.
LEMMA IncomingTypes ==
  /\ IncomingTypeOK => WorkType /\ ConvsType /\ RestType
  /\ WorkType /\ ConvsType /\ RestType /\ CauseInv => IncomingTypeOK
BY DEF IncomingTypeOK, WorkType, ConvsType, ConvType, RestType, FlagType, CauseInv

\* The ids are finitely many, and so is what waits.
LEMMA WaidsFinite ==
  ASSUME NEW Q, Q \subseteq [id : Ids, at : 0 .. MaxAgent]
  PROVE  IsFiniteSet(Q)
<1> DEFINE pairs == Ids \X (0 .. MaxAgent)
           f == [p \in pairs |-> [id |-> p[1], at |-> p[2]]]
           all == [id : Ids, at : 0 .. MaxAgent]
<1>1. IsFiniteSet(Ids) /\ IsFiniteSet(0 .. MaxAgent)
  BY Constants, FS_Interval DEF Ids
<1>2. IsFiniteSet(pairs)
  BY <1>1, FS_Product
<1>3. f \in [pairs -> all]
  OBVIOUS
<1>4. ASSUME NEW t \in all PROVE \E p \in pairs : f[p] = t
  <2>1. <<t.id, t.at>> \in pairs /\ f[<<t.id, t.at>>] = t
    OBVIOUS
  <2> QED BY <2>1
<1>5. f \in Surjection(pairs, all)
  BY <1>3, <1>4 DEF Surjection
<1>6. IsFiniteSet(all)
  BY <1>2, <1>5, FS_Surjection
<1> QED BY <1>6, FS_Subset

\* A set of natural numbers that is not empty has a least one.
LEMMA Least ==
  ASSUME NEW S \in SUBSET Nat, S # {} PROVE \E x \in S : \A y \in S : x <= y
<1> DEFINE R == OpToRel(<, Nat)
<1>0. IsWellFoundedOn(R, Nat)
  BY NatLessThanWellFounded
<1> HIDE DEF R
<1>1. PICK x \in S : \A y \in S : ~ (<<y, x>> \in R)
  BY <1>0, WFMin
<1>2. \A y \in S : <<y, x>> \in R <=> y < x
  BY DEF R, OpToRel
<1>3. ASSUME NEW y \in S PROVE x <= y
  <2>1. ~(y < x)
    BY <1>1, <1>2
  <2> QED BY <2>1
<1> QED BY <1>3

\* The queue of the waidTracker keeps within its cap, and all of it if it does
\* already.
LEMMA KeptIs ==
  ASSUME NEW Q, Q \subseteq [id : Ids, at : 0 .. MaxAgent], Cardinality(Q) <= Cap + 1
  PROVE  /\ Kept(Q) \subseteq Q /\ Cardinality(Kept(Q)) <= Cap
         /\ Cardinality(Q) <= Cap => Kept(Q) = Q
<1>1. IsFiniteSet(Q) /\ Cardinality(Q) \in Nat
  BY WaidsFinite, FS_CardinalityType
<1>2. CASE Cardinality(Q) <= Cap
  BY <1>1, <1>2, Constants DEF Kept
<1>3. CASE Cardinality(Q) > Cap
  <2> DEFINE S == {e.id : e \in Q}
  <2>1. Q # {}
    BY <1>3, FS_EmptySet, Constants
  <2>2. S \in SUBSET Nat /\ S # {}
    BY <2>1, Constants DEF Ids
  <2>3. PICK x \in S : \A y \in S : x <= y
    BY <2>2, Least
  <2>4. PICK e \in Q : e.id = x
    OBVIOUS
  <2>5. ASSUME NEW g \in Q PROVE ~(g.id < e.id)
    <3>1. g.id \in Ids /\ e.id \in Ids /\ e.id <= g.id
      BY <2>3, <2>4
    <3>2. g.id \in Int /\ e.id \in Int
      BY <3>1, Constants DEF Ids
    <3> QED BY <3>1, <3>2
  <2>6. AllButOldest(Q) \subseteq Q /\ e \notin AllButOldest(Q)
    BY <2>5 DEF AllButOldest
  <2>7. /\ IsFiniteSet(AllButOldest(Q)) /\ Cardinality(AllButOldest(Q)) <= Cardinality(Q)
        /\ Cardinality(AllButOldest(Q)) # Cardinality(Q)
    BY <1>1, <2>6, FS_Subset
  <2>8. Cardinality(AllButOldest(Q)) \in Nat
    BY <2>7, FS_CardinalityType
  <2>9. Cardinality(AllButOldest(Q)) <= Cap
    BY <1>1, <2>7, <2>8, Constants
  <2> QED BY <1>1, <1>3, <2>6, <2>9, Constants DEF Kept
<1> QED BY <1>1, <1>2, <1>3, Constants

\* What stands in a conversation has an id, except what the agent says.
LEMMA DeliveredIds ==
  ASSUME ConvsType PROVE Delivered \subseteq Ids \cup {0}
<1>1. ASSUME NEW c \in DOMAIN convs, NEW i \in DOMAIN convs[c].msgs
      PROVE  convs[c].msgs[i].id \in Ids \cup {0}
  <2>1. convs[c] \in ConvType
    BY DEF ConvsType
  <2>2. convs[c].msgs \in Seq(EntryType)
    BY <2>1 DEF ConvType
  <2>3. convs[c].msgs[i] \in EntryType
    BY <2>2
  <2> QED BY <2>3 DEF EntryType
<1> QED BY <1>1, DeliveredIs

\* The initial types.
LEMMA InitTypes == Init => WorkType /\ ConvsType /\ RestType
<1> SUFFICES ASSUME Init PROVE WorkType /\ ConvsType /\ RestType
  OBVIOUS
<1>1. WorkType
  BY NoItemType, Constants DEF Init, WorkType, Places
<1>2. ConvsType
  BY Constants DEF Init, ConvsType
<1>3. RestType
  <2>1. Cardinality(waids) = 0 /\ waids = {}
    BY FS_EmptySet DEF Init
  <2>2. sent \in [Ids -> SentType]
    BY DEF Init, SentType, Kinds, Messages, People
  <2>3. FlagType
    BY DEF Init, FlagType
  <2>4. burst \in People
    BY DEF Init, People
  <2>5. result \in [Ids -> {"none", "posted", "skipped", "errored"}]
    BY DEF Init
  <2> QED BY <2>1, <2>2, <2>3, <2>4, <2>5, Constants DEF Init, RestType
<1> QED BY <1>1, <1>2, <1>3

\* What the look-ups and the creations do to the rest.
LEMMA SyncRest ==
  ASSUME WorkType, ConvsType, RestType, NEW w \in Workers, Sync(w)
  PROVE  RestType'
<1>1. /\ UNCHANGED <<agent, replies, events, sent, burst, recent, waids, looks, marked, seen, shown, media>>
      /\ contact' \in {contact, TRUE} /\ raced' \in BOOLEAN /\ cancelled' \in {cancelled, TRUE}
      /\ failures' \in {failures, failures + 1} /\ (failures' = failures \/ failures < MaxFailures)
      /\ UNCHANGED result \/ (at["import"] # "idle" /\ Counts("errored"))
  BY DEF Sync, FindContact, CreateContact, FindConversation, CreateConversation, here, reading, trackers,
     downstream, RestType, FlagType, GivesUp, Goes, Succeeds, CallFails, Works, Fails
<1>2. at["import"] # "idle" => item["import"].id \in Ids
  BY DEF WorkType, Workers
<1>3. result' \in [Ids -> {"none", "posted", "skipped", "errored"}]
  BY <1>1, <1>2 DEF RestType, Counts
<1>4. FlagType'
  BY <1>1 DEF RestType, FlagType
<1>5. failures' \in 0 .. MaxFailures
  BY <1>1, Constants DEF RestType
<1> QED BY <1>1, <1>3, <1>4, <1>5 DEF RestType

\* What the posts do to it.
LEMMA PostRest ==
  ASSUME WorkType, ConvsType, RestType, PostMessage \/ PostNotice \/ PostImport
  PROVE  RestType'
<1>1. /\ UNCHANGED <<contact, agent, replies, events, sent, burst, recent, waids, looks, marked, seen, shown, media,
                     raced>>
      /\ cancelled' \in {cancelled, TRUE}
      /\ failures' \in {failures, failures + 1} /\ (failures' = failures \/ failures < MaxFailures)
      /\ UNCHANGED result
         \/ (at["import"] # "idle" /\ \E what \in {"posted", "skipped", "errored"} : Counts(what))
  BY DEF PostMessage, PostNotice, PostImport, here, reading, trackers,
     RestType, FlagType, GivesUp, Goes, Succeeds, CallFails, Works, Fails
<1>2. at["import"] # "idle" => item["import"].id \in Ids
  BY DEF WorkType, Workers
<1>3. result' \in [Ids -> {"none", "posted", "skipped", "errored"}]
  BY <1>1, <1>2 DEF RestType, Counts
<1>4. FlagType'
  BY <1>1 DEF RestType, FlagType
<1>5. failures' \in 0 .. MaxFailures
  BY <1>1, Constants DEF RestType
<1> QED BY <1>1, <1>3, <1>4, <1>5 DEF RestType

\* What the post that came back does to it.
LEMMA AfterPostRest ==
  ASSUME WorkType, RestType, AfterPost
  PROVE  RestType'
<1>1. item["live"].id \in Ids
  BY DEF AfterPost, WorkType, Workers
<1> DEFINE new == [id |-> item["live"].id, at |-> agent]
<1>2. new \in [id : Ids, at : 0 .. MaxAgent]
  BY <1>1 DEF RestType
<1>3. Waits(new) \subseteq [id : Ids, at : 0 .. MaxAgent] /\ Cardinality(Waits(new)) <= Cap + 1
  <2>1. IsFiniteSet(waids) /\ Cardinality(waids) \in Nat
    BY WaidsFinite, FS_CardinalityType DEF RestType
  <2>2. Cardinality(waids \cup {new}) <= Cardinality(waids) + 1
    BY <2>1, FS_AddElement
  <2>3. Cardinality(waids \cup {new}) \in Nat
    BY <2>1, FS_AddElement, FS_CardinalityType
  <2> QED BY <1>2, <2>1, <2>2, <2>3, Constants DEF Waits, RestType
<1>4. Kept(Waits(new)) \subseteq [id : Ids, at : 0 .. MaxAgent] /\ Cardinality(Kept(Waits(new))) <= Cap
  BY <1>3, KeptIs
<1>5. waids' \in {waids, Kept(Waits(new))} /\ media' \in {media, media \cup {item["live"].id}}
  BY DEF AfterPost
<1> HIDE DEF new
<1> QED BY <1>1, <1>4, <1>5 DEF AfterPost, RestType, FlagType, downstream, trackers

\* What an event does to it.
LEMMA ReceiveRest ==
  ASSUME WorkType, ConvsType, RestType, Receive
  PROVE  RestType'
<1>1. /\ UNCHANGED <<contact, agent, replies, result, waids, looks, marked, seen, shown, media, raced, cancelled>>
      /\ \E kind \in Kinds, from \in People, content \in Contents \cup {Nobody} :
            sent' = [sent EXCEPT ![events'] = [kind |-> kind, from |-> from, content |-> content]]
      /\ burst' \in People /\ recent' \subseteq Contents
      /\ failures' \in {failures, failures + 1} /\ (failures' = failures \/ failures < MaxFailures)
  <2>1. ASSUME NEW from \in Senders, ReceiveMessage(from) PROVE <1>1!:
    BY <2>1 DEF ReceiveMessage, Event, downstream, reading, Kinds, Messages, People, RestType, BurstOf
  <2>2. ASSUME NEW content \in Contents, ReceiveOwn(content) PROVE <1>1!:
    BY <2>2 DEF ReceiveOwn, downstream, reading, Kinds, Messages, People, RestType, BurstOf, Works, Fails
  <2>3. ASSUME ReceiveReaction \/ ReceiveGroupInfo PROVE <1>1!:
    BY <2>3 DEF ReceiveReaction, ReceiveGroupInfo, Event, downstream, reading, trackers, Kinds, People, RestType
  <2> QED BY <2>1, <2>2, <2>3 DEF Receive
<1>2. events' = events + 1 /\ events' \in Ids /\ events < MaxEvents
  BY ReceiveWork DEF RestType
<1>3. sent' \in [Ids -> SentType]
  <2>1. PICK kind \in Kinds, from \in People, content \in Contents \cup {Nobody} :
            sent' = [sent EXCEPT ![events'] = [kind |-> kind, from |-> from, content |-> content]]
    BY <1>1
  <2>2. [kind |-> kind, from |-> from, content |-> content] \in SentType
    BY DEF SentType
  <2> QED BY <1>2, <2>1, <2>2 DEF RestType
<1>4. FlagType'
  BY <1>1 DEF RestType, FlagType
<1>5. failures' \in 0 .. MaxFailures /\ events' \in 0 .. MaxEvents
  BY <1>1, <1>2, Constants DEF RestType
<1> QED BY <1>1, <1>3, <1>4, <1>5 DEF RestType

\* What the agent and the rest do to it.
LEMMA OtherRest ==
  ASSUME WorkType, ConvsType, RestType,
         \/ BurstEnds \/ WindowElapses \/ Import \/ Agent \/ MarkBotSentInGroup
         \/ \E cutoff \in looks : ConversationUpdated(cutoff)
  PROVE  RestType'
<1>1. ASSUME BurstEnds PROVE RestType'
  BY <1>1 DEF BurstEnds, RestType, FlagType, downstream, reading, People
<1>2. ASSUME WindowElapses PROVE RestType'
  BY <1>2 DEF WindowElapses, RestType, FlagType, downstream, reading, People
<1>3. ASSUME Import PROVE RestType'
  BY <1>3 DEF Import, ImportNext, RestType, FlagType, downstream, reading, trackers
<1>4. ASSUME MarkBotSentInGroup PROVE RestType'
  BY <1>4 DEF MarkBotSentInGroup, RestType, FlagType, reading, People, BurstOf
<1>5. ASSUME NEW cutoff \in looks, ConversationUpdated(cutoff) PROVE RestType'
  <2>1. waids' \subseteq waids /\ ReadBy(cutoff) \subseteq waids
    BY <1>5 DEF ConversationUpdated, ReadBy
  <2>2. waids' \in SUBSET waids /\ IsFiniteSet(waids)
    BY <2>1, WaidsFinite DEF RestType
  <2>3. Cardinality(waids') <= Cap /\ waids' \subseteq [id : Ids, at : 0 .. MaxAgent]
    <3>1. Cardinality(waids) \in Nat /\ Cardinality(waids') \in Nat
      BY <2>2, FS_Subset, FS_CardinalityType
    <3> QED BY <2>2, <3>1, FS_Subset, Constants DEF RestType
  <2>4. {e.id : e \in ReadBy(cutoff)} \subseteq Ids
    BY <2>1 DEF RestType
  <2>5. /\ marked' \in {marked, marked \cup {e.id : e \in ReadBy(cutoff)}} /\ looks' \subseteq looks
        /\ failures' \in {failures, failures + 1} /\ (failures' = failures \/ failures < MaxFailures)
    BY <1>5 DEF ConversationUpdated, Works, Fails
  <2>6. UNCHANGED <<contact, agent, replies, events, sent, burst, recent, cancelled, result, seen, shown, media, raced>>
    BY <1>5 DEF ConversationUpdated, downstream, trackers
  <2>7. failures' \in 0 .. MaxFailures /\ marked' \subseteq Ids /\ looks' \subseteq -1 .. MaxAgent
    BY <2>4, <2>5, Constants DEF RestType
  <2>8. FlagType'
    BY <2>6 DEF RestType, FlagType
  <2> QED BY <2>3, <2>6, <2>7, <2>8 DEF RestType
<1>6. ASSUME Agent PROVE RestType'
  <2>1. CASE \E c \in DOMAIN convs : AgentLooks(c)
    <3>0. PICK c \in DOMAIN convs : AgentLooks(c)
      BY <2>1
    <3>3. Posted(c) \subseteq Delivered
      BY DEF Delivered
    <3>1. seen' \subseteq shown' /\ shown' \subseteq Ids \cup {0}
      BY <3>0, <3>3, DeliveredIds DEF AgentLooks, RestType
    <3>2. looks' \subseteq -1 .. MaxAgent
      BY <2>1, Constants DEF AgentLooks, Acts, RestType
    <3> QED BY <2>1, <3>1, <3>2, Constants DEF AgentLooks, Acts, RestType, FlagType, trackers
  <2>2. CASE \E c \in DOMAIN convs : AgentReplies(c) \/ Resolve(c) \/ Reopen(c)
    <3>1. FlagType'
      BY <2>2 DEF AgentReplies, Resolve, Reopen, RestType, FlagType
    <3>2. agent' \in 0 .. MaxAgent /\ replies' \in 0 .. agent'
      BY <2>2, Constants DEF AgentReplies, Resolve, Reopen, Acts, RestType
    <3>3. UNCHANGED <<events, sent, burst, recent, result, waids, looks, marked, seen, shown, media, failures>>
      BY <2>2 DEF AgentReplies, Resolve, Reopen, trackers, reading
    <3> QED BY <3>1, <3>2, <3>3 DEF RestType
  <2> QED BY <1>6, <2>1, <2>2 DEF Agent
<1> QED BY <1>1, <1>2, <1>3, <1>4, <1>5, <1>6

\* The step keeps the types.
LEMMA NextTypes ==
  ASSUME WorkType, ConvsType, RestType, [Next]_vars
  PROVE  WorkType' /\ ConvsType' /\ RestType'
<1>1. ConvsType' /\ DOMAIN convs \subseteq DOMAIN convs'
  BY NextGrows DEF Grows
<1>2. ASSUME UNCHANGED worker PROVE WorkType'
  BY <1>1, <1>2 DEF worker, WorkType
<1>3. ASSUME Receive PROVE WorkType' /\ RestType'
  BY <1>3, ReceiveWork, ReceiveRest DEF RestType
<1>4. ASSUME Import PROVE WorkType' /\ RestType'
  BY <1>4, ImportWork, OtherRest DEF Import, RestType
<1>5. ASSUME NEW w \in Workers, Sync(w) PROVE WorkType' /\ RestType'
  BY <1>5, SyncWork, SyncRest
<1>6. ASSUME PostMessage \/ PostNotice \/ PostImport PROVE WorkType' /\ RestType'
  BY <1>6, PostWork, PostRest
<1>7. ASSUME AfterPost PROVE WorkType' /\ RestType'
  BY <1>1, <1>7, AfterPostRest, ReturnsType DEF AfterPost, Workers
<1>8. ASSUME BurstEnds \/ WindowElapses \/ Agent \/ MarkBotSentInGroup
             \/ \E cutoff \in looks : ConversationUpdated(cutoff)
      PROVE  WorkType' /\ RestType'
  <2>1. UNCHANGED worker
    BY <1>8 DEF BurstEnds, WindowElapses, Agent, AgentLooks, AgentReplies, Resolve, Reopen,
       MarkBotSentInGroup, ConversationUpdated
  <2> QED BY <1>2, <1>8, <2>1, OtherRest
<1>9. ASSUME UNCHANGED vars PROVE WorkType' /\ RestType'
  BY <1>2, <1>9 DEF vars, downstream, reading, trackers, RestType, FlagType
<1> QED BY <1>1, <1>3, <1>4, <1>5, <1>6, <1>7, <1>8, <1>9 DEF Next

-----------------------------------------------------------------------------
(* What a step does *)

\* All that was delivered stays so.
LEMMA DeliveredGrows ==
  ASSUME ConvsType, Grows PROVE Delivered \subseteq Delivered'
BY SameDelivers, OpensDelivers, SaysDelivers DEF Grows, ConvsType

Reply == [id |-> 0, from |-> Owner, by |-> "agent", kind |-> "own", header |-> FALSE]

\* Whatever is said is posted by a worker or is a reply of the agent.
LEMMA NextSays ==
  ASSUME WorkType, ConvsType, [Next]_vars
  PROVE  \/ SameMessages
         \/ Opens
         \/ Posts("live") /\ (PostMessage \/ PostNotice)
         \/ Posts("import") /\ PostImport
         \/ \E c \in DOMAIN convs : Says(c, Reply) /\ AgentReplies(c)
<1>1. UNCHANGED convs => SameMessages
  BY DEF SameMessages
<1>2. ASSUME Agent PROVE SameMessages \/ \E c \in DOMAIN convs : Says(c, Reply) /\ AgentReplies(c)
  <2>1. Reply \in EntryType
    BY DEF Reply, EntryType, People, Kinds, Messages
  <2>2. ASSUME NEW c \in DOMAIN convs, AgentReplies(c) PROVE Says(c, Reply)
    BY <2>1, <2>2 DEF AgentReplies, Says, Reply
  <2>3. ASSUME NEW c \in DOMAIN convs, Resolve(c) \/ Reopen(c) PROVE SameMessages
    BY <2>3, SwitchGrows DEF Resolve, Reopen
  <2>4. ASSUME NEW c \in DOMAIN convs, AgentLooks(c) PROVE SameMessages
    BY <1>1, <2>4 DEF AgentLooks
  <2> QED BY <1>2, <2>2, <2>3, <2>4 DEF Agent
<1>3. ASSUME PostMessage \/ PostNotice \/ PostImport
      PROVE  \/ UNCHANGED convs
             \/ Posts("live") /\ (PostMessage \/ PostNotice)
             \/ Posts("import") /\ PostImport
  BY <1>3 DEF PostMessage, PostNotice, PostImport, Posts
<1>4. ASSUME NEW w \in Workers, Sync(w) PROVE SameMessages \/ Opens
  <2>1. UNCHANGED convs \/ NewConversation
    BY <1>4 DEF Sync, FindContact, CreateContact, FindConversation, CreateConversation, downstream
  <2> QED BY <1>1, <2>1, OpensGrows
<1>5. ASSUME ~(Agent \/ PostMessage \/ PostNotice \/ PostImport \/ \E w \in Workers : Sync(w))
      PROVE  UNCHANGED convs
  BY <1>5 DEF Next, vars, downstream, Receive, Import, BurstEnds, WindowElapses, ReceiveMessage, ReceiveOwn,
     ReceiveReaction, ReceiveGroupInfo, Event, ImportNext, AfterPost, MarkBotSentInGroup, ConversationUpdated
<1> QED BY <1>1, <1>2, <1>3, <1>4, <1>5

\* What an event does: it is dropped, or the live worker takes it.
LEMMA ReceiveIs ==
  ASSUME WorkType, RestType, Receive
  PROVE  /\ UNCHANGED <<contact, convs, agent, replies, tries, cancelled, result, waids, looks, marked, seen, shown, media,
                       raced>>
         /\ events' = events + 1 /\ events' \in Ids /\ events < MaxEvents /\ at["live"] = "idle"
         /\ \E kind \in Kinds, from \in People, content \in Contents \cup {Nobody} :
              /\ sent' = [sent EXCEPT ![events'] = [kind |-> kind, from |-> from, content |-> content]]
              /\ kind = "text" => from \in Senders
              /\ \/ /\ at' = [at EXCEPT !["live"] = "contact"]
                    /\ \E header \in BOOLEAN :
                         item' = [item EXCEPT !["live"] =
                                    [id |-> events', kind |-> kind, from |-> from, header |-> header]]
                 \/ /\ kind = "own" /\ content \in recent /\ UNCHANGED <<at, item, recent>>
              /\ \A x \in recent' :
                   x \in recent \/ (kind = "own" /\ content = x /\ at'["live"] # "idle")
<1> DEFINE Goal == \E kind \in Kinds, from \in People, content \in Contents \cup {Nobody} :
              /\ sent' = [sent EXCEPT ![events'] = [kind |-> kind, from |-> from, content |-> content]]
              /\ kind = "text" => from \in Senders
              /\ \/ /\ at' = [at EXCEPT !["live"] = "contact"]
                    /\ \E header \in BOOLEAN :
                         item' = [item EXCEPT !["live"] =
                                    [id |-> events', kind |-> kind, from |-> from, header |-> header]]
                 \/ /\ kind = "own" /\ content \in recent /\ UNCHANGED <<at, item, recent>>
              /\ \A x \in recent' :
                   x \in recent \/ (kind = "own" /\ content = x /\ at'["live"] # "idle")
<1>1. /\ UNCHANGED <<contact, convs, agent, replies, tries, cancelled, result, waids, looks, marked, seen, shown, media,
                     raced>>
      /\ events' = events + 1 /\ events < MaxEvents /\ at["live"] = "idle"
  BY DEF Receive, ReceiveMessage, ReceiveOwn, ReceiveReaction, ReceiveGroupInfo, Event, downstream, reading
<1>2. events' \in Ids
  BY <1>1, Constants DEF Ids, RestType
<1>3. ASSUME NEW from \in Senders, ReceiveMessage(from) PROVE Goal
  <2>1. /\ sent' = [sent EXCEPT ![events'] = [kind |-> "text", from |-> from, content |-> Nobody]]
        /\ at' = [at EXCEPT !["live"] = "contact"] /\ recent' = recent
        /\ item' = [item EXCEPT !["live"] =
                      [id |-> events', kind |-> "text", from |-> from,
                       header |-> burst # from /\ Header(from)]]
    BY <1>3 DEF ReceiveMessage, Event, Takes
  <2>2. "text" \in Kinds /\ from \in People /\ (burst # from /\ Header(from)) \in BOOLEAN
    BY DEF Kinds, Messages, People, Header
  <2> QED BY <2>1, <2>2
<1>4. ASSUME NEW content \in Contents, ReceiveOwn(content) PROVE Goal
  <2>1. /\ sent' = [sent EXCEPT ![events'] = [kind |-> "own", from |-> Owner, content |-> content]]
        /\ \/ content \in recent /\ UNCHANGED <<at, item, recent>>
           \/ /\ at' = [at EXCEPT !["live"] = "contact"]
              /\ item' = [item EXCEPT !["live"] =
                          [id |-> events', kind |-> "own", from |-> Owner, header |-> FALSE]]
              /\ recent' \in {recent, recent \cup {content}}
    BY <1>4 DEF ReceiveOwn, Takes, SeenWithin
  <2>2. "own" \in Kinds /\ Owner \in People
    BY DEF Kinds, Messages, People
  <2>3. at \in [Workers -> Places] /\ "live" \in Workers
    BY DEF WorkType, Workers
  <2> QED BY <2>1, <2>2, <2>3
<1>5. ASSUME ReceiveReaction \/ ReceiveGroupInfo PROVE Goal
  <2>1. /\ sent' = [sent EXCEPT ![events'] = [kind |-> "notice", from |-> Nobody, content |-> Nobody]]
        /\ at' = [at EXCEPT !["live"] = "contact"] /\ recent' = recent
        /\ item' = [item EXCEPT !["live"] =
                      [id |-> events', kind |-> "notice", from |-> Nobody, header |-> TRUE]]
    BY <1>5 DEF ReceiveReaction, ReceiveGroupInfo, Event, Takes, Notice, trackers
  <2>2. "notice" \in Kinds /\ Nobody \in People
    BY DEF Kinds, People
  <2> QED BY <2>1, <2>2
<1>6. Goal
  BY <1>3, <1>4, <1>5 DEF Receive
<1> QED BY <1>1, <1>2, <1>6

\* Between two events the live worker keeps its message until it is done.
LEMMA LiveKeeps ==
  ASSUME WorkType, [Next]_vars, ~Receive
  PROVE  /\ UNCHANGED <<events, sent>> /\ recent' \subseteq recent
         /\ at'["live"] # "idle" => at["live"] # "idle" /\ item'["live"] = item["live"]
<1>0. /\ at \in [Workers -> Places] /\ item \in [Workers -> ItemType] /\ Workers = {"live", "import"}
  BY DEF WorkType, Workers
<1>1. UNCHANGED <<events, sent>> /\ recent' \subseteq recent
  BY DEF Next, vars, Import, BurstEnds, WindowElapses, ImportNext, Sync, FindContact, CreateContact,
     FindConversation, CreateConversation, PostMessage, PostNotice, PostImport, here, trackers, AfterPost, Agent,
     AgentLooks, AgentReplies, Resolve, Reopen, MarkBotSentInGroup, ConversationUpdated
<1>2. ASSUME NEW w \in Workers, Sync(w)
      PROVE  at'["live"] # "idle" => at["live"] # "idle" /\ item'["live"] = item["live"]
  BY <1>0, <1>2 DEF Sync, FindContact, CreateContact, FindConversation, CreateConversation, Goes, GivesUp, Returns
<1>3. ASSUME PostMessage \/ PostNotice \/ PostImport
      PROVE  at'["live"] # "idle" => at["live"] # "idle" /\ item'["live"] = item["live"]
  BY <1>0, <1>3 DEF PostMessage, PostNotice, PostImport, Goes, GivesUp, Returns
<1>4. ASSUME Import \/ AfterPost
      PROVE  at'["live"] # "idle" => at["live"] # "idle" /\ item'["live"] = item["live"]
  BY <1>0, <1>4 DEF Import, ImportNext, AfterPost, Takes, Returns
<1>5. ASSUME BurstEnds \/ WindowElapses \/ Agent \/ MarkBotSentInGroup \/ UNCHANGED vars
             \/ \E cutoff \in looks : ConversationUpdated(cutoff)
      PROVE  UNCHANGED <<at, item>>
  BY <1>5 DEF BurstEnds, WindowElapses, Agent, AgentLooks, AgentReplies, Resolve, Reopen,
     MarkBotSentInGroup, ConversationUpdated, worker, vars
<1> QED BY <1>1, <1>2, <1>3, <1>4, <1>5 DEF Next

\* So does the import.
LEMMA ImportKeeps ==
  ASSUME WorkType, [Next]_vars, ~Import
  PROVE  at'["import"] # "idle" => at["import"] # "idle" /\ item'["import"] = item["import"]
<1>0. /\ at \in [Workers -> Places] /\ item \in [Workers -> ItemType] /\ Workers = {"live", "import"}
  BY DEF WorkType, Workers
<1>2. ASSUME NEW w \in Workers, Sync(w)
      PROVE  at'["import"] # "idle" => at["import"] # "idle" /\ item'["import"] = item["import"]
  BY <1>0, <1>2 DEF Sync, FindContact, CreateContact, FindConversation, CreateConversation, Goes, GivesUp, Returns
<1>3. ASSUME PostMessage \/ PostNotice \/ PostImport
      PROVE  at'["import"] # "idle" => at["import"] # "idle" /\ item'["import"] = item["import"]
  BY <1>0, <1>3 DEF PostMessage, PostNotice, PostImport, Goes, GivesUp, Returns
<1>4. ASSUME Receive \/ AfterPost
      PROVE  at'["import"] # "idle" => at["import"] # "idle" /\ item'["import"] = item["import"]
  BY <1>0, <1>4 DEF Receive, ReceiveMessage, ReceiveOwn, ReceiveReaction, ReceiveGroupInfo, Event,
     AfterPost, Takes, Returns
<1>5. ASSUME BurstEnds \/ WindowElapses \/ Agent \/ MarkBotSentInGroup \/ UNCHANGED vars
             \/ \E cutoff \in looks : ConversationUpdated(cutoff)
      PROVE  UNCHANGED <<at, item>>
  BY <1>5 DEF BurstEnds, WindowElapses, Agent, AgentLooks, AgentReplies, Resolve, Reopen,
     MarkBotSentInGroup, ConversationUpdated, worker, vars
<1> QED BY <1>2, <1>3, <1>4, <1>5 DEF Next

\* Neither a failure nor a race is undone.
LEMMA CalmBefore ==
  ASSUME RestType, [Next]_vars
  PROVE  (Calm' => Calm) /\ (raced => raced') /\ (failures' = 0 => failures = 0) /\ (cancelled => cancelled')
<1>1. failures' = failures \/ (failures < MaxFailures /\ failures' = failures + 1)
  BY DEF Next, vars, Import, BurstEnds, WindowElapses, ImportNext, Sync, FindContact, CreateContact,
     FindConversation, CreateConversation, PostMessage, PostNotice, PostImport, AfterPost, Agent,
     AgentLooks, AgentReplies, Resolve, Reopen, MarkBotSentInGroup, ConversationUpdated, Receive, ReceiveMessage,
     ReceiveOwn, ReceiveReaction, ReceiveGroupInfo, Event, Works, Fails, Succeeds, CallFails
<1>2. failures' = 0 => failures = 0
  BY <1>1 DEF RestType
<1>3. (raced' = raced \/ raced' = TRUE) /\ (cancelled' = cancelled \/ cancelled' = TRUE)
  <2>1. ASSUME NEW w \in Workers, Sync(w) PROVE <1>3!:
    BY <2>1 DEF RestType, FlagType, Sync, FindContact, CreateContact, FindConversation, CreateConversation, here, Succeeds, CallFails
  <2>2. ASSUME PostMessage \/ PostNotice \/ PostImport \/ AfterPost PROVE <1>3!:
    BY <2>2 DEF PostMessage, PostNotice, PostImport, AfterPost, here, Succeeds, CallFails
  <2>3. ASSUME Agent \/ MarkBotSentInGroup \/ \E cutoff \in looks : ConversationUpdated(cutoff) PROVE <1>3!:
    BY <2>3 DEF RestType, FlagType, Agent, AgentLooks, AgentReplies, Resolve, Reopen, MarkBotSentInGroup, ConversationUpdated
  <2>4. ASSUME Receive \/ Import \/ BurstEnds \/ WindowElapses \/ UNCHANGED vars PROVE <1>3!:
    BY <2>4 DEF Receive, ReceiveMessage, ReceiveOwn, ReceiveReaction, ReceiveGroupInfo, Event, Import, ImportNext,
       BurstEnds, WindowElapses, vars, Import
  <2> QED BY <2>1, <2>2, <2>3, <2>4 DEF Next
<1> QED BY <1>2, <1>3 DEF Calm

\* A message of a conversation was there before, or is what was just said.
LEMMA NewEntries ==
  ASSUME WorkType, ConvsType, [Next]_vars, NEW c \in DOMAIN convs', NEW i \in DOMAIN convs'[c].msgs
  PROVE  \/ c \in DOMAIN convs /\ i \in DOMAIN convs[c].msgs /\ convs'[c].msgs[i] = convs[c].msgs[i]
         \/ /\ Posts("live") /\ (PostMessage \/ PostNotice) /\ c = conv["live"]
            /\ i = Len(convs[c].msgs) + 1 /\ convs'[c].msgs[i] = Entry("live")
         \/ /\ Posts("import") /\ PostImport /\ c = conv["import"]
            /\ i = Len(convs[c].msgs) + 1 /\ convs'[c].msgs[i] = Entry("import")
         \/ /\ AgentReplies(c) /\ c \in DOMAIN convs /\ Says(c, Reply)
            /\ i = Len(convs[c].msgs) + 1 /\ convs'[c].msgs[i] = Reply
<1>0. convs \in Seq(ConvType)
  BY DEF ConvsType
<1>1. ASSUME NEW d, NEW e, Says(d, e)
      PROVE  \/ c \in DOMAIN convs /\ i \in DOMAIN convs[c].msgs /\ convs'[c].msgs[i] = convs[c].msgs[i]
             \/ c = d /\ i = Len(convs[c].msgs) + 1 /\ convs'[c].msgs[i] = e
  <2>1. c \in DOMAIN convs
    BY <1>0, <1>1, SaysIs
  <2>2. CASE c # d
    BY <1>0, <1>1, <2>1, <2>2, SaysIs
  <2>3. CASE c = d
    <3>1. /\ convs[c].msgs \in Seq(EntryType) /\ DOMAIN convs[c].msgs = 1 .. Len(convs[c].msgs)
          /\ DOMAIN convs'[c].msgs = 1 .. Len(convs[c].msgs) + 1
          /\ \A j \in DOMAIN convs[c].msgs : convs'[c].msgs[j] = convs[c].msgs[j]
          /\ convs'[c].msgs[Len(convs[c].msgs) + 1] = e
      BY <1>0, <1>1, <2>3, SaysIs
    <3>2. i \in 1 .. Len(convs[c].msgs) \/ i = Len(convs[c].msgs) + 1
      BY <3>1
    <3> QED BY <2>1, <2>3, <3>1, <3>2
  <2> QED BY <2>2, <2>3
<1>2. CASE SameMessages
  BY <1>2 DEF SameMessages
<1>3. CASE Opens
  <2>1. /\ Len(convs) \in Nat /\ DOMAIN convs = 1 .. Len(convs) /\ DOMAIN convs' = 1 .. Len(convs) + 1
        /\ \A d \in DOMAIN convs : convs'[d] = convs[d]
        /\ convs'[Len(convs) + 1].msgs = <<>>
    BY <1>0, <1>3, OpensIs
  <2>2. c \in DOMAIN convs
    BY <2>1
  <2> QED BY <2>1, <2>2
<1>4. CASE Posts("live") /\ (PostMessage \/ PostNotice)
  BY <1>1, <1>4, PostSays DEF Workers
<1>5. CASE Posts("import") /\ PostImport
  BY <1>1, <1>5, PostSays DEF Workers
<1>6. ASSUME NEW d \in DOMAIN convs, Says(d, Reply), AgentReplies(d)
      PROVE  \/ c \in DOMAIN convs /\ i \in DOMAIN convs[c].msgs /\ convs'[c].msgs[i] = convs[c].msgs[i]
             \/ /\ AgentReplies(c) /\ c \in DOMAIN convs /\ Says(c, Reply)
                /\ i = Len(convs[c].msgs) + 1 /\ convs'[c].msgs[i] = Reply
  BY <1>1, <1>6
<1> QED BY <1>2, <1>3, <1>4, <1>5, <1>6, NextSays

-----------------------------------------------------------------------------
(* What the workers carry *)

\* An event leaves what was sent before as it was.
LEMMA SentKept ==
  ASSUME WorkType, RestType, [Next]_vars
  PROVE  /\ \A i \in Ids : i # events + 1 => sent'[i] = sent[i]
         /\ events' \in {events, events + 1} /\ events' \in Nat /\ events \in Nat /\ events' <= MaxEvents
<1>1. CASE Receive
  BY <1>1, ReceiveIs, Constants DEF RestType
<1>2. CASE ~Receive
  BY <1>2, LiveKeeps, Constants DEF RestType
<1> QED BY <1>1, <1>2

\* CarryInv is kept when an event comes.
LEMMA ReceiveCarries ==
  ASSUME WorkType, ConvsType, RestType, CarryInv, Receive, [Next]_vars
  PROVE  CarryInv'
<1>0. /\ at \in [Workers -> Places] /\ item \in [Workers -> ItemType] /\ Workers = {"live", "import"}
      /\ sent \in [Ids -> SentType] /\ events \in Nat /\ events' = events + 1 /\ events' \in Ids
      /\ events < MaxEvents /\ at["live"] = "idle" /\ UNCHANGED convs
  BY ReceiveIs, Constants DEF WorkType, RestType, Workers
<1>1. PICK kind \in Kinds, from \in People, content \in Contents \cup {Nobody} :
         /\ sent' = [sent EXCEPT ![events'] = [kind |-> kind, from |-> from, content |-> content]]
         /\ kind = "text" => from \in Senders
         /\ \/ /\ at' = [at EXCEPT !["live"] = "contact"]
               /\ \E header \in BOOLEAN :
                    item' = [item EXCEPT !["live"] =
                               [id |-> events', kind |-> kind, from |-> from, header |-> header]]
            \/ UNCHANGED <<at, item>>
  BY ReceiveIs
<1>2. \A i \in Ids : i # events + 1 => sent'[i] = sent[i]
  BY SentKept
<1>3. sent'[events'] = [kind |-> kind, from |-> from, content |-> content]
  BY <1>0, <1>1
<1>4. \A i \in Ids : i > events' => sent'[i].kind = "none"
  BY <1>0, <1>2, Constants DEF CarryInv, Ids
<1>5. /\ at'["live"] # "idle" =>
           /\ item'["live"].id = events'
           /\ item'["live"].kind = sent'[events'].kind /\ item'["live"].from = sent'[events'].from
      /\ at'["live"] \in {"idle", "contact"}
  BY <1>0, <1>1, <1>3
<1>6. at'["import"] = at["import"] /\ item'["import"] = item["import"]
  BY <1>0, <1>1
<1>7. /\ at'["import"] # "after"
      /\ at'["import"] # "idle" =>
           /\ item'["import"].kind = "text" /\ ~Unmarked(item["import"])'
           /\ item'["import"].from = sent'[item'["import"].id].from
           /\ item'["import"].id \in Old \/ sent'[item'["import"].id].kind = "text"
  <2>1. at["import"] # "idle" => item["import"].id \in Ids /\ item["import"].id # events + 1
    BY <1>0, Constants DEF CarryInv, WorkType, Ids, Old
  <2> QED BY <1>2, <1>6, <2>1 DEF CarryInv, Unmarked
<1>8. \A w \in Workers : at'[w] \in {"create", "open"} => item'[w].kind \in Messages
  BY <1>0, <1>5, <1>6 DEF CarryInv
<1>9. \A i \in 1 .. events' : sent'[i].kind = "text" => sent'[i].from \in Senders
  BY <1>0, <1>1, <1>2, <1>3, Constants DEF CarryInv, Ids
<1>10. \A c \in DOMAIN convs' : \A e \in Entries(c)' :
         /\ e.id \in 1 .. events' \cup Old \cup {0}
         /\ e.by = "live" => e.id \in 1 .. events' /\ e.kind = sent'[e.id].kind
         /\ e.by = "live" /\ at'["live"] \notin {"idle", "after"} => e.id # events'
  <2> SUFFICES ASSUME NEW c \in DOMAIN convs, NEW e \in Entries(c)
               PROVE  /\ e.id \in 1 .. events' \cup Old \cup {0}
                      /\ e.by = "live" => e.id \in 1 .. events' /\ e.kind = sent'[e.id].kind /\ e.id # events'
    BY <1>0 DEF Entries
  <2>1. e.id \in 1 .. events \cup Old \cup {0}
    BY DEF CarryInv
  <2>2. e.by = "live" => e.id \in 1 .. events /\ e.kind = sent[e.id].kind
    BY DEF CarryInv
  <2> QED BY <1>0, <1>2, <2>1, <2>2, Constants DEF Ids
<1> QED BY <1>4, <1>5, <1>7, <1>8, <1>9, <1>10 DEF CarryInv

\* It is kept when the import takes up a message.
LEMMA ImportCarries ==
  ASSUME WorkType, ConvsType, RestType, CarryInv, Import, [Next]_vars
  PROVE  CarryInv'
<1>0. /\ at \in [Workers -> Places] /\ item \in [Workers -> ItemType] /\ Workers = {"live", "import"}
      /\ UNCHANGED <<sent, events, convs>>
  BY DEF WorkType, Workers, Import, ImportNext, downstream
<1>1. PICK id \in Ids : ImportNext(id)
  BY DEF Import
<1>2. /\ at' = [at EXCEPT !["import"] = "contact"]
      /\ item' = [item EXCEPT !["import"] =
                    [id |-> id, kind |-> "text", from |-> sent[id].from,
                     header |-> Header(sent[id].from)]]
      /\ id \in Old \/ sent[id].kind = "text"
  BY <1>1 DEF ImportNext, Takes
<1>3. at'["live"] = at["live"] /\ item'["live"] = item["live"] /\ at'["import"] = "contact"
  BY <1>0, <1>2
<1>4. item'["import"] = [id |-> id, kind |-> "text", from |-> sent[id].from,
                         header |-> Header(sent[id].from)]
  BY <1>0, <1>2
<1>6. ~Unmarked(item["import"])'
  <2>1. PICK h : h = Header(sent[id].from)
    OBVIOUS
  <2>2. item'["import"] = [id |-> id, kind |-> "text", from |-> sent[id].from, header |-> h]
    BY <1>4, <2>1
  <2>3. item'["import"].header = h /\ item'["import"].from = sent[id].from
    BY <2>2
  <2> QED BY <2>1, <2>3 DEF Unmarked, Header
<1>5. Delivered' = Delivered /\ \A c \in DOMAIN convs : Entries(c)' = Entries(c)
  BY <1>0 DEF Delivered, Posted, Entries
<1> QED BY <1>0, <1>2, <1>3, <1>4, <1>5, <1>6 DEF CarryInv

\* It is kept by every other step.
LEMMA StepCarries ==
  ASSUME WorkType, ConvsType, RestType, CarryInv, ~Receive, ~Import, [Next]_vars
  PROVE  CarryInv'
<1>0. /\ at \in [Workers -> Places] /\ item \in [Workers -> ItemType] /\ Workers = {"live", "import"}
      /\ UNCHANGED <<sent, events>>
      /\ at'["live"] # "idle" => at["live"] # "idle" /\ item'["live"] = item["live"]
      /\ at'["import"] # "idle" => at["import"] # "idle" /\ item'["import"] = item["import"]
      /\ events \in Nat
  BY LiveKeeps, ImportKeeps, Constants DEF WorkType, Workers, RestType
<1>1. Delivered \subseteq Delivered'
  BY NextGrows, DeliveredGrows
<1>2. /\ at'["live"] = "after" => at["live"] = "after" \/ (PostMessage /\ Posts("live"))
      /\ at'["import"] # "after"
      /\ \A w \in Workers : at'[w] \in {"create", "open"} => at[w] = at'[w] \/ item[w].kind \in Messages
      /\ at'["live"] \notin {"idle", "after"} => at["live"] # "after"
  <2>1. ASSUME NEW w \in Workers, Sync(w) PROVE <1>2!:
    BY <1>0, <2>1 DEF Sync, FindContact, CreateContact, FindConversation, CreateConversation, Goes, GivesUp, Returns,
       CarryInv, PostMessage, PostNotice, NeedsConversation
  <2>2. ASSUME PostMessage PROVE <1>2!:
    BY <1>0, <2>2 DEF PostMessage, Goes, Returns, CarryInv, Posts
  <2>3. ASSUME PostNotice PROVE <1>2!:
    BY <1>0, <2>3 DEF PostNotice, Goes, Returns, CarryInv, Posts
  <2>4. ASSUME PostImport PROVE <1>2!:
    BY <1>0, <2>4 DEF PostImport, GivesUp, Returns, CarryInv
  <2>5. ASSUME AfterPost PROVE <1>2!:
    BY <1>0, <2>5 DEF AfterPost, Returns, CarryInv
  <2>6. ASSUME BurstEnds \/ WindowElapses \/ Agent \/ MarkBotSentInGroup \/ UNCHANGED vars
               \/ \E cutoff \in looks : ConversationUpdated(cutoff)
        PROVE  <1>2!:
    <3>1. UNCHANGED <<at, item>>
      BY <2>6 DEF BurstEnds, WindowElapses, Agent, AgentLooks, AgentReplies, Resolve, Reopen,
         MarkBotSentInGroup, ConversationUpdated, worker, vars
    <3> QED BY <3>1 DEF CarryInv
  <2> QED BY <2>1, <2>2, <2>3, <2>4, <2>5, <2>6 DEF Next
<1>3. PostMessage \/ PostNotice => at'["live"] \in {"idle", "after"}
  BY <1>0 DEF PostMessage, PostNotice, Goes, Returns
<1>4. at'["live"] = "after" => item'["live"].id \in Delivered'
  <2>1. CASE at["live"] = "after"
    BY <1>0, <1>1, <2>1 DEF CarryInv
  <2>2. CASE PostMessage /\ Posts("live")
    <3>1. Says(conv["live"], Entry("live"))
      BY <1>0, <2>2, PostSays
    <3>2. Entry("live").id \in Delivered'
      BY <3>1, SaysDelivers DEF ConvsType
    <3> QED BY <1>0, <3>2 DEF Entry
  <2> QED BY <1>2, <2>1, <2>2
<1>5. ASSUME NEW c \in DOMAIN convs', NEW e \in Entries(c)'
      PROVE  /\ e.id \in 1 .. events' \cup Old \cup {0}
             /\ e.by = "live" => e.id \in 1 .. events' /\ e.kind = sent'[e.id].kind
             /\ e.by = "live" /\ at'["live"] \notin {"idle", "after"} => e.id # events'
  <2>1. PICK i \in DOMAIN convs'[c].msgs : e = convs'[c].msgs[i]
    BY DEF Entries
  <2>2. CASE c \in DOMAIN convs /\ i \in DOMAIN convs[c].msgs /\ convs'[c].msgs[i] = convs[c].msgs[i]
    <3>1. e \in Entries(c) /\ c \in DOMAIN convs
      BY <2>1, <2>2 DEF Entries
    <3>2. at'["live"] \notin {"idle", "after"} => at["live"] \notin {"idle", "after"}
      BY <1>0, <1>2
    <3> QED BY <1>0, <3>1, <3>2 DEF CarryInv
  <2>3. CASE Posts("live") /\ (PostMessage \/ PostNotice) /\ e = Entry("live")
    <3>1. at["live"] # "idle" /\ item["live"].id \in Ids /\ at'["live"] \in {"idle", "after"}
      BY <1>0, <1>3, <2>3 DEF Posts, WorkType
    <3>2. /\ item["live"].id = events /\ item["live"].kind = sent[events].kind
          /\ events \in 1 .. events
      BY <1>0, <3>1, Constants DEF CarryInv, Ids
    <3> QED BY <1>0, <2>3, <3>1, <3>2 DEF Entry
  <2>4. CASE Posts("import") /\ e = Entry("import")
    <3>1. at["import"] # "idle" /\ item["import"].id \in Ids
      BY <1>0, <2>4 DEF Posts, WorkType
    <3>2. item["import"].id \in 1 .. events \cup Old
      BY <1>0, <3>1, Constants DEF CarryInv, Ids
    <3> QED BY <1>0, <2>4, <3>2 DEF Entry
  <2>5. CASE e = Reply
    BY <2>5 DEF Reply
  <2> QED BY <2>1, <2>2, <2>3, <2>4, <2>5, NewEntries
<1>6. \A w \in Workers : at'[w] \in {"create", "open"} => item'[w].kind \in Messages
  BY <1>0, <1>2 DEF CarryInv
<1>7. /\ \A i \in Ids : i > events' => sent'[i].kind = "none"
      /\ at'["live"] # "idle" =>
           /\ item'["live"].id = events'
           /\ item'["live"].kind = sent'[events'].kind /\ item'["live"].from = sent'[events'].from
      /\ at'["import"] # "idle" =>
           /\ item'["import"].kind = "text" /\ ~Unmarked(item["import"])'
           /\ item'["import"].from = sent'[item'["import"].id].from
           /\ item'["import"].id \in Old \/ sent'[item'["import"].id].kind = "text"
      /\ \A i \in 1 .. events' : sent'[i].kind = "text" => sent'[i].from \in Senders
  BY <1>0 DEF CarryInv, Unmarked
<1> QED BY <1>2, <1>4, <1>5, <1>6, <1>7 DEF CarryInv

-----------------------------------------------------------------------------
(* The races *)

\* What is said neither opens nor closes a conversation.
LEMMA OpenKept ==
  ASSUME ConvsType, NEW c, NEW e, Says(c, e) PROVE Open' = Open
<1>1. DOMAIN convs' = DOMAIN convs /\ \A d \in DOMAIN convs : convs'[d].open = convs[d].open
  BY SaysIs DEF ConvsType
<1> QED BY <1>1 DEF Open

\* RaceInv is kept.
LEMMA RaceKept ==
  ASSUME WorkType, ConvsType, RestType, RaceInv, [Next]_vars
  PROVE  RaceInv'
<1>0. /\ at \in [Workers -> Places] /\ Workers = {"live", "import"}
      /\ Other("live") = "import" /\ Other("import") = "live"
  BY TwoWorkers DEF WorkType, Workers
<1> SUFFICES ASSUME ~raced' PROVE \A w \in Workers :
       /\ at'[w] = "create" => ~contact' /\ at'[Other(w)] # "create"
       /\ at'[w] = "open" => Open' = {} /\ at'[Other(w)] # "open"
  BY DEF RaceInv
<1>1. ~raced
  BY CalmBefore
<1>2. ASSUME NEW w \in Workers, Sync(w)
      PROVE  \A v \in Workers :
               /\ at'[v] = "create" => ~contact' /\ at'[Other(v)] # "create"
               /\ at'[v] = "open" => Open' = {} /\ at'[Other(v)] # "open"
  <2>1. CASE FindContact(w)
    <3>1. /\ UNCHANGED <<contact, convs>>
          /\ at'[Other(w)] = at[Other(w)]
          /\ at'[w] \in {"conv", "idle"} \/ (at'[w] = "create" /\ ~contact /\ at[Other(w)] # "create")
      BY <1>0, <2>1 DEF FindContact, Goes, GivesUp, Returns, downstream
    <3> QED BY <1>0, <1>1, <2>1, <3>1 DEF RaceInv, Open
  <2>2. CASE CreateContact(w)
    <3>1. /\ UNCHANGED convs /\ at[w] = "create" /\ at'[w] \in {"conv", "idle"} /\ at'[Other(w)] = at[Other(w)]
      BY <1>0, <2>2 DEF CreateContact, Goes, GivesUp, Returns
    <3> QED BY <1>0, <1>1, <3>1 DEF RaceInv, Open
  <2>3. CASE FindConversation(w)
    <3>1. /\ UNCHANGED <<contact, convs>>
          /\ at'[Other(w)] = at[Other(w)]
          /\ at'[w] \in {"post", "idle"} \/ (at'[w] = "open" /\ Open = {} /\ at[Other(w)] # "open")
      BY <1>0, <2>3 DEF FindConversation, Goes, GivesUp, Returns, downstream, NeedsConversation
    <3> QED BY <1>0, <1>1, <2>3, <3>1 DEF RaceInv, Open
  <2>4. CASE CreateConversation(w)
    <3>1. /\ UNCHANGED contact /\ at[w] = "open" /\ at'[w] \in {"post", "idle"} /\ at'[Other(w)] = at[Other(w)]
      BY <1>0, <2>4 DEF CreateConversation, Goes, GivesUp, Returns
    <3> QED BY <1>0, <1>1, <3>1 DEF RaceInv
  <2> QED BY <1>2, <2>1, <2>2, <2>3, <2>4 DEF Sync

<1>3. ASSUME ~\E w \in Workers : Sync(w)
      PROVE  /\ UNCHANGED contact
             /\ \A w \in Workers : at'[w] \in {"create", "open"} => at[w] = at'[w]
             /\ (\E w \in Workers : at[w] = "open") => Open' \subseteq Open
  <2> DEFINE Goal == /\ UNCHANGED contact
                     /\ \A w \in Workers : at'[w] \in {"create", "open"} => at[w] = at'[w]
                     /\ (\E w \in Workers : at[w] = "open") => Open' \subseteq Open
  <2>1. ASSUME Receive PROVE Goal
    <3>1. UNCHANGED <<contact, convs>> /\ (at' = at \/ at' = [at EXCEPT !["live"] = "contact"])
      BY <2>1, ReceiveIs
    <3> QED BY <1>0, <3>1 DEF Open
  <2>2. ASSUME Import \/ AfterPost PROVE Goal
    <3>1. /\ UNCHANGED <<contact, convs>>
          /\ \E w \in Workers : at' = [at EXCEPT ![w] = "contact"] \/ at' = [at EXCEPT ![w] = "idle"]
      BY <1>0, <2>2 DEF Import, ImportNext, AfterPost, Takes, Returns, downstream
    <3> QED BY <1>0, <3>1 DEF Open
  <2>3. ASSUME PostMessage \/ PostNotice \/ PostImport PROVE Goal
    <3>1. /\ UNCHANGED contact
          /\ \E w \in Workers : at' = at \/ at' = [at EXCEPT ![w] = "after"] \/ at' = [at EXCEPT ![w] = "idle"]
      BY <1>0, <2>3 DEF PostMessage, PostNotice, PostImport, GivesUp, Goes, Returns
    <3>2. UNCHANGED convs \/ Posts("live") \/ Posts("import")
      BY <2>3 DEF PostMessage, PostNotice, PostImport, Posts
    <3>3. Open' = Open
      BY <1>0, <3>2, PostSays, OpenKept DEF Open
    <3> QED BY <1>0, <3>1, <3>3
  <2>4. ASSUME Agent PROVE Goal
    <3>1. UNCHANGED <<contact, at>>
      BY <2>4 DEF Agent, AgentLooks, AgentReplies, Resolve, Reopen, worker
    <3>2. ASSUME NEW c \in DOMAIN convs, AgentLooks(c) PROVE Open' = Open
      BY <3>2 DEF AgentLooks, Open
    <3>3. ASSUME NEW c \in DOMAIN convs, AgentReplies(c) PROVE Open' = Open
      <4>1. Reply \in EntryType
        BY DEF Reply, EntryType, People, Kinds, Messages
      <4>2. Says(c, Reply)
        BY <3>3, <4>1 DEF AgentReplies, Says, Reply
      <4> QED BY <4>2, OpenKept
    <3>4. ASSUME NEW c \in DOMAIN convs, Resolve(c) PROVE Open' \subseteq Open
      BY <3>4, SwitchGrows DEF Resolve, Open, SameMessages
    <3>5. ASSUME NEW c \in DOMAIN convs, Reopen(c) PROVE ~\E w \in Workers : at[w] = "open"
      BY <3>5 DEF Reopen
    <3> QED BY <2>4, <3>1, <3>2, <3>3, <3>4, <3>5 DEF Agent
  <2>5. ASSUME BurstEnds \/ WindowElapses \/ MarkBotSentInGroup \/ UNCHANGED vars
               \/ \E cutoff \in looks : ConversationUpdated(cutoff)
        PROVE  Goal
    <3>1. UNCHANGED <<contact, at, convs>>
      BY <2>5 DEF BurstEnds, WindowElapses, MarkBotSentInGroup, ConversationUpdated, worker, vars, downstream
    <3> QED BY <3>1 DEF Open
  <2> QED BY <1>3, <2>1, <2>2, <2>3, <2>4, <2>5 DEF Next
<1>4. ASSUME ~\E w \in Workers : Sync(w)
      PROVE  \A w \in Workers :
               /\ at'[w] = "create" => ~contact' /\ at'[Other(w)] # "create"
               /\ at'[w] = "open" => Open' = {} /\ at'[Other(w)] # "open"
  BY <1>0, <1>1, <1>3, <1>4 DEF RaceInv
<1> QED BY <1>2, <1>4

-----------------------------------------------------------------------------
(* Nothing is lost without a cause *)

\* Who resolved and what was refused is not forgotten; a refusal is of the chat's
\* source id, and its conversations are closed unless there was a race.
LEMMA CausesGrow ==
  ASSUME CauseInv, RestType, [Next]_vars
  PROVE  /\ resolved => resolved'
         /\ \/ refused' = refused
            \/ \E w \in Workers : /\ CreateConversation(w) /\ UNCHANGED convs /\ convs # <<>>
                                  /\ refused' = refused \cup {<<w, item[w].id>>}
         /\ refused \subseteq refused' /\ resolved' \in BOOLEAN
         /\ UNCHANGED resolved \/ resolved' = TRUE
<1>1. UNCHANGED resolved \/ resolved' = TRUE
  BY DEF Next, vars, causes, Import, BurstEnds, WindowElapses, ImportNext, Sync, FindContact, CreateContact,
     FindConversation, CreateConversation, PostMessage, PostNotice, PostImport, AfterPost, Agent, here,
     AgentLooks, AgentReplies, Resolve, Reopen, MarkBotSentInGroup, ConversationUpdated, Receive, ReceiveMessage,
     ReceiveOwn, ReceiveReaction, ReceiveGroupInfo, Event
<1>2. ASSUME NEW w \in Workers, Sync(w)
      PROVE  \/ refused' = refused
             \/ /\ CreateConversation(w) /\ UNCHANGED convs /\ convs # <<>>
                /\ refused' = refused \cup {<<w, item[w].id>>}
  BY <1>2 DEF Sync, FindContact, CreateContact, FindConversation, CreateConversation
<1>3. ASSUME ~\E w \in Workers : Sync(w) PROVE refused' = refused
  BY <1>3 DEF Next, vars, causes, Import, BurstEnds, WindowElapses, ImportNext,
     PostMessage, PostNotice, PostImport, AfterPost, Agent,
     AgentLooks, AgentReplies, Resolve, Reopen, MarkBotSentInGroup, ConversationUpdated, Receive, ReceiveMessage,
     ReceiveOwn, ReceiveReaction, ReceiveGroupInfo, Event
<1> QED BY <1>1, <1>2, <1>3 DEF CauseInv

\* CauseInv is kept.
LEMMA CauseKept ==
  ASSUME WorkType, ConvsType, RestType, RaceInv, CauseInv, [Next]_vars
  PROVE  CauseInv'
<1>0. /\ ~raced' => ~raced
      /\ \A w \in Workers : at[w] # "idle" => item[w].id \in Ids
  BY CalmBefore DEF WorkType, Workers
<1>1. resolved' \in BOOLEAN /\ refused' \subseteq Workers \X Ids
  <2>1. \A w \in Workers : CreateConversation(w) => at[w] # "idle"
    BY DEF CreateConversation
  <2>2. refused' \subseteq Workers \X Ids
    <3>1. refused \subseteq Workers \X Ids
      BY DEF CauseInv
    <3>2. CASE refused' = refused
      BY <3>1, <3>2
    <3>3. ASSUME NEW w \in Workers, CreateConversation(w), refused' = refused \cup {<<w, item[w].id>>}
          PROVE  refused' \subseteq Workers \X Ids
      <4>1. <<w, item[w].id>> \in Workers \X Ids
        BY <1>0, <2>1, <3>3
      <4> QED BY <3>1, <3>3, <4>1
    <3> QED BY <3>2, <3>3, CausesGrow
  <2> QED BY <2>2, CausesGrow
<1>2. ASSUME ~raced', refused' # {} PROVE resolved'
  <2>1. CASE refused' = refused
    BY <1>0, <1>2, <2>1, CausesGrow DEF CauseInv
  <2>2. ASSUME NEW w \in Workers, CreateConversation(w), convs # <<>> PROVE resolved'
    <3>1. Open = {}
      BY <1>0, <1>2, <2>2 DEF RaceInv, CreateConversation
    <3> QED BY <1>0, <1>2, <2>2, <3>1, CausesGrow DEF CauseInv
  <2> QED BY <2>1, <2>2, CausesGrow
<1>3. ASSUME ~raced', convs' # <<>>, Open' = {} PROVE resolved'
  <2>1. CASE convs # <<>> /\ Open = {}
    BY <1>0, <1>3, <2>1, CausesGrow DEF CauseInv
  <2>2. ASSUME NEW c, NEW e, Says(c, e) PROVE resolved'
    <3>1. Open' = Open /\ c \in DOMAIN convs /\ convs \in Seq(ConvType)
      BY <2>2, OpenKept DEF Says, ConvsType
    <3>2. convs # <<>>
      BY <3>1
    <3>3. Open = {}
      BY <1>3, <3>1
    <3> QED BY <3>2, <3>3, <2>1
  <2>3. CASE Opens
    <3>1. /\ Len(convs) \in Nat /\ DOMAIN convs' = 1 .. Len(convs) + 1
          /\ convs'[Len(convs) + 1] = [open |-> TRUE, msgs |-> <<>>]
      BY <2>3, OpensIs DEF ConvsType
    <3>2. Len(convs) + 1 \in Open'
      BY <3>1 DEF Open
    <3> QED BY <1>3, <3>2
  <2>4. CASE UNCHANGED convs
    BY <1>3, <2>1, <2>4 DEF Open
  <2>5. ASSUME NEW w \in Workers, Sync(w) PROVE UNCHANGED convs \/ Opens
    BY <2>5, OpensGrows DEF Sync, FindContact, CreateContact, FindConversation, CreateConversation, downstream
  <2>6. ASSUME PostMessage \/ PostNotice \/ PostImport
        PROVE  UNCHANGED convs \/ \E w \in Workers : Says(conv[w], Entry(w))
    <3>1. UNCHANGED convs \/ Posts("live") \/ Posts("import")
      BY <2>6 DEF PostMessage, PostNotice, PostImport, Posts
    <3> QED BY <3>1, PostSays DEF Workers
  <2>7. CASE Agent
    <3>1. ASSUME NEW c \in DOMAIN convs, AgentReplies(c) PROVE Says(c, Reply)
      BY <3>1 DEF AgentReplies, Says, Reply, EntryType, People, Kinds, Messages
    <3>2. ASSUME NEW c \in DOMAIN convs, Resolve(c) PROVE resolved'
      BY <3>2 DEF Resolve
    <3>3. ASSUME NEW c \in DOMAIN convs, Reopen(c) PROVE FALSE
      <4>1. c \in DOMAIN convs' /\ convs'[c].open
        BY <3>3, SwitchGrows DEF Reopen, SameMessages
      <4> QED BY <1>3, <4>1 DEF Open
    <3>4. ASSUME NEW c \in DOMAIN convs, AgentLooks(c) PROVE UNCHANGED convs
      BY <3>4 DEF AgentLooks
    <3> QED BY <2>2, <2>4, <2>7, <3>1, <3>2, <3>3, <3>4 DEF Agent
  <2>8. ASSUME ~(Agent \/ PostMessage \/ PostNotice \/ PostImport \/ \E w \in Workers : Sync(w))
        PROVE  UNCHANGED convs
    BY <2>8 DEF Next, vars, downstream, Receive, Import, BurstEnds, WindowElapses, ReceiveMessage, ReceiveOwn,
       ReceiveReaction, ReceiveGroupInfo, Event, ImportNext, AfterPost, MarkBotSentInGroup, ConversationUpdated
  <2> QED BY <2>2, <2>3, <2>4, <2>5, <2>6, <2>7, <2>8
<1> QED BY <1>1, <1>2, <1>3 DEF CauseInv

\* Without a failure or a race, the live worker is done with a message only when
\* it is delivered or its conversation refused, unless it was a reaction or a
\* group event.
LEMMA LiveReturns ==
  ASSUME WorkType, ConvsType, RestType, CarryInv, RaceInv, [Next]_vars, Calm',
         at["live"] # "idle", at'["live"] = "idle"
  PROVE  \/ item["live"].kind = "notice" \/ item["live"].id \in Delivered'
         \/ <<"live", item["live"].id>> \in refused'
<1>0. /\ at \in [Workers -> Places] /\ Workers = {"live", "import"} /\ item["live"].kind \in Kinds
      /\ failures \in Nat /\ Calm /\ ~raced /\ failures' = 0 /\ failures = 0
  BY CalmBefore, Constants DEF WorkType, Workers, ItemType, RestType, Calm
<1>1. Delivered \subseteq Delivered'
  BY NextGrows, DeliveredGrows
<1>2. ~Fails
  BY <1>0 DEF Fails
<1>3. CASE FindContact("live")
  BY <1>0, <1>2, <1>3 DEF FindContact, Goes, CallFails, Kinds
<1>4. CASE CreateContact("live")
  BY <1>0, <1>2, <1>4 DEF CreateContact, Goes, CallFails, RaceInv
<1>5. CASE FindConversation("live")
  BY <1>0, <1>2, <1>5 DEF FindConversation, Goes, CallFails, Kinds
<1>6. CASE CreateConversation("live")
  <2>1. refused' = refused \cup {<<"live", item["live"].id>>} => <<"live", item["live"].id>> \in refused'
    OBVIOUS
  <2> QED BY <1>0, <1>2, <1>6, <2>1 DEF CreateConversation, Goes, CallFails
<1>7. CASE PostMessage
  BY <1>0, <1>1, <1>2, <1>7 DEF PostMessage, Goes, Duplicate
<1>8. CASE PostNotice
  BY <1>8 DEF PostNotice
<1>9. CASE AfterPost
  BY <1>1, <1>9 DEF AfterPost, CarryInv
<1>10. ASSUME PostImport \/ Sync("import") \/ Import PROVE at'["live"] = at["live"]
  BY <1>0, <1>10 DEF PostImport, GivesUp, Returns, Sync, FindContact, CreateContact, FindConversation,
     CreateConversation, Goes, Import, ImportNext, Takes
<1>11. ASSUME Receive PROVE FALSE
  BY <1>11, ReceiveIs
<1>12. ASSUME BurstEnds \/ WindowElapses \/ Agent \/ MarkBotSentInGroup \/ UNCHANGED vars
             \/ \E cutoff \in looks : ConversationUpdated(cutoff)
      PROVE  UNCHANGED at
  BY <1>12 DEF BurstEnds, WindowElapses, Agent, AgentLooks, AgentReplies, Resolve, Reopen,
     MarkBotSentInGroup, ConversationUpdated, worker, vars
<1> QED BY <1>0, <1>3, <1>4, <1>5, <1>6, <1>7, <1>8, <1>9, <1>10, <1>11, <1>12 DEF Next, Sync

\* TwinInv is kept.
LEMMA TwinKept ==
  ASSUME WorkType, ConvsType, RestType, CarryInv, RaceInv, CauseInv, TwinInv, [Next]_vars
  PROVE  TwinInv'
<1> SUFFICES ASSUME Calm', NEW x \in recent'
             PROVE  \E j \in 1 .. events' :
                      /\ sent'[j].kind = "own" /\ sent'[j].content = x
                      /\ j \in Delivered' \/ <<"live", j>> \in refused' \/ (at'["live"] # "idle" /\ j = events')
  BY DEF TwinInv, GivenUp
<1>0. Calm /\ events \in Nat /\ events <= MaxEvents /\ MaxEvents \in Nat /\ MaxOld \in Nat
  BY CalmBefore, Constants DEF RestType
<1>1. Delivered \subseteq Delivered' /\ refused \subseteq refused'
  BY NextGrows, DeliveredGrows, CausesGrow
<1>2. x \in recent => \E j \in 1 .. events :
        /\ sent[j].kind = "own" /\ sent[j].content = x
        /\ j \in Delivered \/ <<"live", j>> \in refused \/ (at["live"] # "idle" /\ j = events)
  BY <1>0 DEF TwinInv, GivenUp
<1>3. CASE Receive
  <2>1. PICK kind \in Kinds, from \in People, content \in Contents \cup {Nobody} :
         /\ sent' = [sent EXCEPT ![events'] = [kind |-> kind, from |-> from, content |-> content]]
         /\ x \in recent \/ (kind = "own" /\ content = x /\ at'["live"] # "idle")
    BY <1>3, ReceiveIs
  <2>2. events' = events + 1 /\ events' \in Ids /\ at["live"] = "idle" /\ events' \in 1 .. events'
    BY <1>0, <1>3, ReceiveIs
  <2>3. CASE x \in recent
    <3>1. PICK j \in 1 .. events : /\ sent[j].kind = "own" /\ sent[j].content = x
                                   /\ j \in Delivered \/ <<"live", j>> \in refused
      BY <1>2, <2>2, <2>3
    <3>2. j \in Ids /\ j # events + 1 /\ j \in 1 .. events'
      BY <1>0, <2>2 DEF Ids
    <3> QED BY <1>1, <3>1, <3>2, SentKept
  <2>4. CASE kind = "own" /\ content = x /\ at'["live"] # "idle"
    <3>1. sent'[events'] = [kind |-> kind, from |-> from, content |-> content]
      BY <2>1, <2>2 DEF RestType
    <3> QED BY <2>2, <2>4, <3>1
  <2> QED BY <2>1, <2>3, <2>4
<1>4. CASE ~Receive
  <2>1. UNCHANGED <<events, sent>> /\ x \in recent
    BY <1>4, LiveKeeps
  <2>2. PICK j \in 1 .. events :
        /\ sent[j].kind = "own" /\ sent[j].content = x
        /\ j \in Delivered \/ <<"live", j>> \in refused \/ (at["live"] # "idle" /\ j = events)
    BY <1>2, <2>1
  <2>3. ASSUME at["live"] # "idle", at'["live"] = "idle", j = events
        PROVE  j \in Delivered' \/ <<"live", j>> \in refused'
    <3>1. item["live"].id = j /\ item["live"].kind = "own"
      BY <2>2, <2>3 DEF CarryInv
    <3> QED BY <2>3, <3>1, LiveReturns
  <2> QED BY <1>1, <2>1, <2>2, <2>3
<1> QED BY <1>3, <1>4

\* What has been handled, before and after a step: nothing is taken back, and
\* only the event handled last comes in.
LEMMA HandledGrows ==
  ASSUME WorkType, RestType, CarryInv, [Next]_vars
  PROVE  /\ Handled \subseteq Handled'
         /\ \A i \in Handled : i \in Ids /\ sent'[i] = sent[i]
         /\ \A i \in Handled' \ Handled :
              /\ i = events' /\ i \in Ids
              /\ \/ ~Receive /\ at["live"] # "idle" /\ at'["live"] = "idle" /\ item["live"].id = i
                 \/ Receive /\ at["live"] = "idle" /\ at'["live"] = "idle"
<1>0. /\ at \in [Workers -> Places] /\ item \in [Workers -> ItemType] /\ Workers = {"live", "import"}
      /\ events \in Nat /\ events <= MaxEvents /\ MaxEvents \in Nat /\ MaxOld \in Nat
  BY Constants DEF RestType, WorkType, Workers
<1>1. CASE Receive
  <2>1. /\ events' = events + 1 /\ events' \in Ids /\ at["live"] = "idle"
        /\ \/ at'["live"] = "contact" /\ item'["live"].id = events'
           \/ at'["live"] = "idle"
    <3>1. /\ events' = events + 1 /\ events' \in Ids /\ at["live"] = "idle"
      BY <1>1, ReceiveIs
    <3>2. PICK kind \in Kinds, from \in People :
            \/ /\ at' = [at EXCEPT !["live"] = "contact"]
               /\ \E header \in BOOLEAN :
                    item' = [item EXCEPT !["live"] =
                               [id |-> events', kind |-> kind, from |-> from, header |-> header]]
            \/ UNCHANGED at
      BY <1>1, ReceiveIs
    <3> QED BY <1>0, <3>1, <3>2
  <2>2. Handled = 1 .. events
    BY <2>1 DEF Handled
  <2>3. Handled' \subseteq 1 .. events + 1 /\ 1 .. events \subseteq Handled'
    BY <1>0, <2>1 DEF Handled
  <2>4. at'["live"] # "idle" => events' \notin Handled'
    BY <2>1 DEF Handled
  <2> QED BY <1>0, <1>1, <2>1, <2>2, <2>3, <2>4, SentKept DEF Ids
<1>2. CASE ~Receive
  <2>1. /\ UNCHANGED <<events, sent>>
        /\ at'["live"] # "idle" => at["live"] # "idle" /\ item'["live"] = item["live"]
    BY <1>2, LiveKeeps
  <2>2. at["live"] # "idle" => item["live"].id = events
    BY DEF CarryInv
  <2>3. 1 .. events \subseteq Ids
    BY <1>0 DEF Ids
  <2> QED BY <1>2, <2>1, <2>2, <2>3 DEF Handled
<1> QED BY <1>1, <1>2

\* LostOnlyWithCause is kept.
LEMMA LostKept ==
  ASSUME WorkType, ConvsType, RestType, CarryInv, RaceInv, CauseInv, CauseInv', TwinInv,
         LostOnlyWithCause, [Next]_vars
  PROVE  LostOnlyWithCause'
<1> DEFINE Met(j) == j \in Delivered' \/ <<"live", j>> \in refused'
<1> SUFFICES ASSUME Calm', NEW i \in Handled'
             PROVE  /\ sent'[i].kind = "text" => Met(i)
                    /\ sent'[i].kind = "own" =>
                         \E j \in 1 .. i :
                           sent'[j].kind = "own" /\ sent'[j].content = sent'[i].content /\ Met(j)
  BY DEF LostOnlyWithCause, GivenUp, CauseInv, Calm
<1>0. Calm /\ events \in Nat /\ events <= MaxEvents /\ MaxEvents \in Nat /\ MaxOld \in Nat
  BY CalmBefore, Constants DEF RestType
<1>1. Delivered \subseteq Delivered' /\ refused \subseteq refused'
  BY NextGrows, DeliveredGrows, CausesGrow
<1>2. CASE i \in Handled
  <2>1. i \in 1 .. events /\ sent'[i] = sent[i]
    BY <1>2, HandledGrows DEF Handled
  <2>2. ASSUME NEW j \in 1 .. i PROVE sent'[j] = sent[j]
    <3>1. j \in Ids /\ j # events + 1
      BY <1>0, <2>1 DEF Ids
    <3> QED BY <3>1, SentKept
  <2> QED BY <1>0, <1>1, <1>2, <2>1, <2>2 DEF LostOnlyWithCause, GivenUp
<1>3. CASE i \notin Handled /\ ~Receive
  <2>1. /\ i = events' /\ i \in Ids /\ at["live"] # "idle" /\ at'["live"] = "idle" /\ item["live"].id = i
        /\ UNCHANGED <<events, sent>>
    BY <1>3, HandledGrows, LiveKeeps
  <2>2. item["live"].kind = sent'[i].kind
    BY <2>1 DEF CarryInv
  <2>3. sent'[i].kind = "notice" \/ Met(i)
    BY <2>1, <2>2, LiveReturns
  <2>4. i \in 1 .. i
    BY <2>1, <1>0 DEF Ids
  <2> QED BY <2>3, <2>4
<1>4. CASE i \notin Handled /\ Receive
  <2>1. i = events' /\ i \in Ids /\ at["live"] = "idle" /\ at'["live"] = "idle" /\ events' = events + 1
    BY <1>4, HandledGrows, ReceiveIs
  <2>2. PICK kind \in Kinds, from \in People, content \in Contents \cup {Nobody} :
         /\ sent' = [sent EXCEPT ![events'] = [kind |-> kind, from |-> from, content |-> content]]
         /\ at' = [at EXCEPT !["live"] = "contact"] \/ (kind = "own" /\ content \in recent)
    BY <1>4, ReceiveIs
  <2>3. kind = "own" /\ content \in recent
    BY <2>1, <2>2 DEF WorkType, Workers
  <2>4. sent'[i] = [kind |-> kind, from |-> from, content |-> content]
    BY <2>1, <2>2 DEF RestType
  <2>5. PICK j \in 1 .. events : /\ sent[j].kind = "own" /\ sent[j].content = content
                                 /\ j \in Delivered \/ <<"live", j>> \in refused
    BY <1>0, <2>1, <2>3 DEF TwinInv, GivenUp
  <2>6. j \in Ids /\ j # events + 1 /\ j \in 1 .. i
    BY <1>0, <2>1 DEF Ids
  <2> QED BY <1>1, <2>3, <2>4, <2>5, <2>6, SentKept
<1> QED BY <1>2, <1>3, <1>4


-----------------------------------------------------------------------------
(* What is marked was read *)

\* SeenInv is kept.
LEMMA SeenKept ==
  ASSUME WorkType, ConvsType, RestType, CarryInv, SeenInv, [Next]_vars
  PROVE  SeenInv'
<1>0. /\ Delivered \subseteq Delivered'
      /\ agent \in 0 .. MaxAgent /\ waids \subseteq [id : Ids, at : 0 .. MaxAgent] /\ looks \subseteq -1 .. MaxAgent
      /\ MaxAgent \in Nat
  BY NextGrows, DeliveredGrows, Constants DEF RestType
<1>6. Len(convs') <= 1 => Len(convs) <= 1
  <2>1. /\ Len(convs) \in Nat /\ Len(convs') \in Nat /\ DOMAIN convs = 1 .. Len(convs)
        /\ DOMAIN convs' = 1 .. Len(convs') /\ DOMAIN convs \subseteq DOMAIN convs'
    BY NextGrows DEF Grows, ConvsType
  <2> QED BY <2>1
<1>1. ASSUME AfterPost PROVE SeenInv'
  <2> DEFINE new == [id |-> item["live"].id, at |-> agent]
  <2>1. waids' = waids \/ waids' = Kept(Waits(new))
    BY <1>1 DEF AfterPost
  <2>2. waids' \subseteq waids \cup {new}
    BY <2>1 DEF Kept, Waits, AllButOldest
  <2>3. UNCHANGED <<agent, looks, marked, seen, shown, convs>>
    BY <1>1 DEF AfterPost, downstream
  <2>4. new.at = agent /\ new.id \in Delivered
    BY <1>1 DEF AfterPost, CarryInv
  <2>5. \A cutoff \in looks : ~(new.at <= cutoff)
    BY <1>0, <2>4 DEF SeenInv
  <2>6. new.at <= agent
    BY <1>0, <2>4
  <2> HIDE DEF new
  <2> QED BY <1>0, <2>2, <2>3, <2>4, <2>5, <2>6 DEF SeenInv
<1>2. ASSUME NEW c \in DOMAIN convs, AgentLooks(c) PROVE SeenInv'
  <2>1. /\ agent' = agent + 1 /\ shown' = shown \cup Delivered /\ UNCHANGED <<waids, marked, convs>>
        /\ seen' = seen \cup Posted(c) /\ looks' \subseteq looks \cup {agent, agent - 1}
    BY <1>2 DEF AgentLooks, Acts
  <2>4. Len(convs) <= 1 => Delivered = Posted(c)
    <3>1. Len(convs) \in Nat /\ DOMAIN convs = 1 .. Len(convs)
      BY DEF ConvsType
    <3>2. Len(convs) <= 1 => \A d \in DOMAIN convs : d = c
      BY <3>1
    <3> QED BY <3>2 DEF Delivered
  <2>2. \A e \in waids : e.at <= agent' /\ e.id \in Delivered' /\ e.id \in shown'
    BY <1>0, <2>1 DEF SeenInv
  <2>3. \A cutoff \in looks' : cutoff < agent'
    BY <1>0, <2>1 DEF SeenInv
  <2> QED BY <2>1, <2>2, <2>3, <2>4 DEF SeenInv
<1>3. ASSUME NEW cutoff \in looks, ConversationUpdated(cutoff) PROVE SeenInv'
  <2>1. /\ UNCHANGED <<agent, seen, shown, convs>> /\ looks' \subseteq looks /\ waids' \subseteq waids
        /\ marked' \subseteq marked \cup {e.id : e \in ReadBy(cutoff)}
    BY <1>3 DEF ConversationUpdated, downstream
  <2>2. {e.id : e \in ReadBy(cutoff)} \subseteq shown
    BY DEF ReadBy, SeenInv
  <2> QED BY <1>0, <2>1, <2>2 DEF SeenInv
<1>4. ASSUME ~AfterPost, ~\E c \in DOMAIN convs : AgentLooks(c), ~\E cutoff \in looks : ConversationUpdated(cutoff)
      PROVE  UNCHANGED reading /\ agent' \in {agent, agent + 1}
  <2>1. ASSUME NEW w \in Workers, Sync(w) PROVE UNCHANGED reading /\ agent' \in {agent, agent + 1}
    BY <2>1 DEF Sync, FindContact, CreateContact, FindConversation, CreateConversation, here, downstream
  <2>2. ASSUME PostMessage \/ PostNotice \/ PostImport PROVE UNCHANGED reading /\ agent' \in {agent, agent + 1}
    BY <2>2 DEF PostMessage, PostNotice, PostImport, here
  <2>3. ASSUME Agent \/ MarkBotSentInGroup PROVE UNCHANGED reading /\ agent' \in {agent, agent + 1}
    BY <1>4, <2>3 DEF Agent, AgentReplies, Resolve, Reopen, MarkBotSentInGroup, Acts
  <2>4. ASSUME Receive \/ Import \/ BurstEnds \/ WindowElapses \/ UNCHANGED vars PROVE UNCHANGED reading /\ agent' \in {agent, agent + 1}
    BY <2>4 DEF Receive, ReceiveMessage, ReceiveOwn, ReceiveReaction, ReceiveGroupInfo, Event, ImportNext,
       BurstEnds, WindowElapses, vars, Import, downstream
  <2> QED BY <1>4, <2>1, <2>2, <2>3, <2>4 DEF Next
<1>5. ASSUME UNCHANGED reading, agent' \in {agent, agent + 1} PROVE SeenInv'
  <2>1. UNCHANGED <<waids, looks, marked, seen, shown>>
    BY <1>5 DEF reading
  <2>2. \A e \in waids : e.at <= agent' /\ e.id \in Delivered'
    BY <1>0, <1>5 DEF SeenInv
  <2>3. \A cutoff \in looks : cutoff < agent'
    BY <1>0, <1>5 DEF SeenInv
  <2> QED BY <1>6, <2>1, <2>2, <2>3 DEF SeenInv
<1> QED BY <1>1, <1>2, <1>3, <1>4, <1>5

-----------------------------------------------------------------------------
(* The import counts honestly *)

\* ImportHonest is kept.
LEMMA HonestKept ==
  ASSUME WorkType, ConvsType, RestType, CarryInv, RaceInv, CauseInv, ImportHonest, [Next]_vars
  PROVE  ImportHonest'
<1>0. /\ Delivered \subseteq Delivered' /\ (Calm' => Calm) /\ (cancelled => cancelled')
      /\ refused \subseteq refused' /\ (failures > 0 => failures' > 0)
      /\ result \in [Ids -> {"none", "posted", "skipped", "errored"}]
      /\ at \in [Workers -> Places] /\ Workers = {"live", "import"}
  <2>1. failures \in Nat /\ failures' \in Nat
    BY NextTypes, Constants DEF RestType
  <2>2. Delivered \subseteq Delivered'
    BY NextGrows, DeliveredGrows
  <2>3. (Calm' => Calm) /\ (cancelled => cancelled') /\ (failures' = 0 => failures = 0)
    BY CalmBefore
  <2>4. refused \subseteq refused'
    BY CausesGrow
  <2>5. failures > 0 => failures' > 0
    BY <2>1, <2>3
  <2>6. /\ result \in [Ids -> {"none", "posted", "skipped", "errored"}]
        /\ at \in [Workers -> Places] /\ Workers = {"live", "import"}
    BY DEF RestType, WorkType, Workers
  <2> QED BY <2>2, <2>3, <2>4, <2>5, <2>6
<1>1. ASSUME UNCHANGED result PROVE ImportHonest'
  BY <1>0, <1>1 DEF ImportHonest, GivenUp
<1>2. ASSUME at["import"] # "idle", NEW what, Counts(what),
             what = "posted" => item["import"].id \in Delivered',
             what = "skipped" => item["import"].id \in Delivered' \/ failures' > 0 \/ cancelled',
             what = "errored" => ~Calm' \/ cancelled' \/ <<"import", item["import"].id>> \in refused'
      PROVE  ImportHonest'
  <2>1. item["import"].id \in Ids
    BY <1>0, <1>2 DEF WorkType
  <2>2. \A i \in Ids : result'[i] = IF i = item["import"].id THEN what ELSE result[i]
    BY <1>0, <1>2, <2>1 DEF Counts
  <2> QED BY <1>0, <1>2, <2>2 DEF ImportHonest, GivenUp
<1>3. ASSUME CallFails("import") PROVE failures' > 0 \/ cancelled'
  <2>1. failures \in Nat
    BY Constants DEF RestType
  <2> QED BY <1>3, <2>1 DEF CallFails, Fails
<1>7. failures' > 0 => ~Calm'
  BY DEF Calm
<1>4. ASSUME Sync("import")
      PROVE  \/ UNCHANGED result
             \/ /\ at["import"] # "idle" /\ Counts("errored")
                /\ ~Calm' \/ cancelled' \/ <<"import", item["import"].id>> \in refused'
  <2>1. CASE FindContact("import")
    BY <1>3, <1>7, <2>1 DEF FindContact, GivesUp, Goes, CarryInv, Messages
  <2>2. CASE CreateContact("import")
    BY <1>0, <1>3, <1>7, <2>2 DEF CreateContact, GivesUp, Goes, RaceInv, Calm
  <2>3. CASE FindConversation("import")
    BY <1>3, <1>7, <2>3 DEF FindConversation, GivesUp, Goes, CarryInv, Messages
  <2>4. CASE CreateConversation("import")
    BY <1>3, <1>7, <2>4 DEF CreateConversation, GivesUp
  <2> QED BY <1>4, <2>1, <2>2, <2>3, <2>4 DEF Sync
<1>5. ASSUME PostImport PROVE ImportHonest'
  <2>1. ASSUME convs' = Appended(conv["import"], Entry("import")) PROVE item["import"].id \in Delivered'
    <3>1. Says(conv["import"], Entry("import"))
      BY <1>0, <1>5, <2>1, PostSays DEF Posts, PostImport
    <3> QED BY <3>1, SaysDelivers DEF Entry, ConvsType
  <2>2. \/ UNCHANGED result
        \/ Counts("posted") /\ item["import"].id \in Delivered'
        \/ Counts("skipped") /\ (item["import"].id \in Delivered' \/ failures' > 0 \/ cancelled')
        \/ Counts("errored") /\ (~Calm' \/ cancelled')
    BY <1>0, <1>3, <1>5, <1>7, <2>1 DEF PostImport, GivesUp, Duplicate
  <2>3. at["import"] # "idle"
    BY <1>5 DEF PostImport
  <2> QED BY <1>1, <1>2, <2>2, <2>3
<1>6. ASSUME ~Sync("import"), ~PostImport PROVE UNCHANGED result
  <2>1. ASSUME Sync("live") PROVE UNCHANGED result
    BY <2>1 DEF Sync, FindContact, CreateContact, FindConversation, CreateConversation, GivesUp
  <2>2. ASSUME PostMessage \/ PostNotice \/ AfterPost PROVE UNCHANGED result
    BY <2>2 DEF PostMessage, PostNotice, AfterPost
  <2>3. ASSUME Agent \/ MarkBotSentInGroup \/ \E cutoff \in looks : ConversationUpdated(cutoff)
        PROVE  UNCHANGED result
    BY <2>3 DEF Agent, AgentLooks, AgentReplies, Resolve, Reopen, MarkBotSentInGroup, ConversationUpdated
  <2>4. ASSUME Receive \/ Import \/ BurstEnds \/ WindowElapses \/ UNCHANGED vars PROVE UNCHANGED result
    BY <2>4 DEF Receive, ReceiveMessage, ReceiveOwn, ReceiveReaction, ReceiveGroupInfo, Event, ImportNext,
       BurstEnds, WindowElapses, vars, Import
  <2> QED BY <1>0, <1>6, <2>1, <2>2, <2>3, <2>4 DEF Next
<1> QED BY <1>1, <1>2, <1>4, <1>5, <1>6


-----------------------------------------------------------------------------
(* No text is forgotten *)

\* A text that is not media was one before, or has just been handled; the new
\* set is no smaller.
LEMMA TextsGrow ==
  ASSUME WorkType, RestType, CarryInv, WaitingInv, [Next]_vars
  PROVE  /\ Texts \subseteq Texts' /\ IsFiniteSet(Texts')
         /\ Cardinality(Texts) <= Cardinality(Texts')
         /\ Cardinality(Texts) \in Nat /\ Cardinality(Texts') \in Nat
         /\ media \subseteq media' /\ media' \subseteq Handled'
<1>0. Handled \subseteq Handled' /\ \A i \in Handled : sent'[i] = sent[i]
  BY HandledGrows
<1>1. ASSUME AfterPost
      PROVE  /\ media \subseteq media' /\ media' \subseteq media \cup {item["live"].id}
             /\ item["live"].id \notin Handled /\ item["live"].id \in Handled'
  <2>1. /\ at["live"] # "idle" /\ item["live"].id = events /\ item["live"].id \in Ids
        /\ events' = events /\ at'["live"] = "idle" /\ events \in Nat
    BY <1>1, Constants DEF AfterPost, CarryInv, WorkType, Workers, Returns, RestType
  <2> QED BY <1>1, <2>1 DEF AfterPost, Handled, Ids
<1>2. ASSUME ~AfterPost PROVE UNCHANGED media
  <2>1. ASSUME NEW w \in Workers, Sync(w) PROVE UNCHANGED media
    BY <2>1 DEF Sync, FindContact, CreateContact, FindConversation, CreateConversation, here, reading
  <2>2. ASSUME PostMessage \/ PostNotice \/ PostImport PROVE UNCHANGED media
    BY <2>2 DEF PostMessage, PostNotice, PostImport, here, reading
  <2>3. ASSUME Agent \/ MarkBotSentInGroup \/ \E cutoff \in looks : ConversationUpdated(cutoff)
        PROVE  UNCHANGED media
    BY <2>3 DEF Agent, AgentLooks, AgentReplies, Resolve, Reopen, MarkBotSentInGroup, ConversationUpdated, reading
  <2>4. ASSUME Receive \/ Import \/ BurstEnds \/ WindowElapses \/ UNCHANGED vars PROVE UNCHANGED media
    BY <2>4 DEF Receive, ReceiveMessage, ReceiveOwn, ReceiveReaction, ReceiveGroupInfo, Event, ImportNext,
       BurstEnds, WindowElapses, vars, Import, reading
  <2> QED BY <1>2, <2>1, <2>2, <2>3, <2>4 DEF Next
<1>3. media' \cap Handled \subseteq media
  BY <1>1, <1>2
<1>4. Texts \subseteq Texts'
  BY <1>0, <1>3 DEF Texts
<1>5. IsFiniteSet(Texts')
  <2>1. Texts' \subseteq 1 .. events' /\ events' \in Nat
    BY SentKept DEF Texts, Handled
  <2>2. IsFiniteSet(1 .. events')
    BY <2>1, FS_Interval
  <2> QED BY <2>1, <2>2, FS_Subset
<1>6. IsFiniteSet(Texts) /\ Cardinality(Texts) <= Cardinality(Texts')
  BY <1>4, <1>5, FS_Subset
<1>7. media \subseteq media' /\ media' \subseteq Handled'
  BY <1>0, <1>1, <1>2 DEF WaitingInv
<1> QED BY <1>4, <1>5, <1>6, <1>7, FS_CardinalityType

\* A queue whose messages are texts, each there once, is no larger than those.
LEMMA QueueBound ==
  ASSUME NEW Q, NEW T, IsFiniteSet(T), \A e \in Q : e.id \in T, \A e, f \in Q : e.id = f.id => e = f
  PROVE  IsFiniteSet(Q) /\ Cardinality(Q) <= Cardinality(T)
<1> DEFINE f == [e \in Q |-> e.id]
<1>1. f \in Injection(Q, T)
  BY DEF Injection, IsInjective
<1> QED BY <1>1, FS_Injection

\* The rest of WaitingInv but NoTextForgotten is kept, and a text waits unless
\* the agent has read it or there are too many.
LEMMA WaitsKept ==
  ASSUME WorkType, ConvsType, RestType, CarryInv, WaitingInv, [Next]_vars
  PROVE  /\ Waiting' \subseteq Texts'
         /\ \A e, f \in waids' : e.id = f.id => e = f
         /\ failures' = 0 /\ Cardinality(Texts') <= Cap => Waiting \cup marked \subseteq Waiting' \cup marked'
         /\ AfterPost /\ failures' = 0 /\ Cardinality(Texts') <= Cap /\ item["live"].id \in Texts' =>
              item["live"].id \in Waiting'
<1>0. /\ Texts \subseteq Texts' /\ IsFiniteSet(Texts') /\ Waiting \subseteq Texts
      /\ \A e, f \in waids : e.id = f.id => e = f
  BY TextsGrow DEF WaitingInv
<1> DEFINE Goal ==
         /\ Waiting' \subseteq Texts'
         /\ \A e, f \in waids' : e.id = f.id => e = f
         /\ failures' = 0 /\ Cardinality(Texts') <= Cap => Waiting \cup marked \subseteq Waiting' \cup marked'
         /\ AfterPost /\ failures' = 0 /\ Cardinality(Texts') <= Cap /\ item["live"].id \in Texts' =>
              item["live"].id \in Waiting'
<1>1. ASSUME AfterPost PROVE Goal
  <2> DEFINE x == item["live"].id
             new == [id |-> x, at |-> agent]
  <2>1. /\ at["live"] # "idle" /\ x = events /\ x \in Ids /\ agent \in 0 .. MaxAgent
        /\ events' = events /\ at'["live"] = "idle" /\ events \in Nat /\ UNCHANGED <<sent, marked>>
        /\ item["live"].kind = sent[x].kind
    BY <1>1, Constants DEF AfterPost, CarryInv, WorkType, Workers, Returns, RestType
  <2>2. x \notin Handled /\ x \in Handled'
    BY <2>1 DEF Handled, Ids
  <2>3. x \notin media /\ x \notin Waiting
    BY <1>0, <2>2 DEF WaitingInv, Texts
  <2>4. \/ item["live"].kind = "text" /\ waids' = Kept(Waits(new)) /\ media' = media
        \/ item["live"].kind = "text" /\ media' = media \cup {x} /\ waids' = waids
        \/ item["live"].kind # "text" /\ waids' = waids /\ media' = media
    BY <1>1 DEF AfterPost
  <2>5. x \in Texts' => item["live"].kind = "text" /\ waids' = Kept(Waits(new))
    BY <2>1, <2>4 DEF Texts
  <2>6. CASE \/ item["live"].kind = "text" /\ media' = media \cup {x} /\ waids' = waids
             \/ item["live"].kind # "text" /\ waids' = waids /\ media' = media
    <3>1. waids' = waids /\ Waiting' = Waiting
      BY <2>6 DEF Waiting
    <3>2. x \notin Texts'
      BY <2>1, <2>6 DEF Texts
    <3> QED BY <1>0, <2>1, <3>1, <3>2
  <2>7. CASE item["live"].kind = "text" /\ waids' = Kept(Waits(new)) /\ media' = media
    <3>1. x \in Texts'
      BY <2>1, <2>2, <2>3, <2>7 DEF Texts
    <3> DEFINE Q == Waits(new)
    <3>2. Q = waids \cup {new} /\ new.id = x
      BY DEF Waits
    <3> HIDE DEF new, Q
    <3>3. \A e \in Q : e.id \in Texts'
      BY <1>0, <3>1, <3>2 DEF Waiting
    <3>4. \A e \in waids : e.id # x
      BY <2>3 DEF Waiting
    <3>5. \A e, f \in Q : e.id = f.id => e = f
      BY <1>0, <3>2, <3>4
    <3>6. IsFiniteSet(Q) /\ Cardinality(Q) <= Cardinality(Texts') /\ Cardinality(Q) \in Nat
          /\ Cardinality(Texts') \in Nat
      BY <1>0, <3>3, <3>5, QueueBound, FS_CardinalityType
    <3>7. waids' = Kept(Q)
      BY <2>7 DEF Q
    <3>8. waids' \subseteq Q
      BY <3>7 DEF Kept, AllButOldest
    <3>9. Cardinality(Texts') <= Cap => waids' = Q
      BY <3>6, <3>7, Constants DEF Kept
    <3>10. /\ Waiting' \subseteq Texts' /\ \A e, f \in waids' : e.id = f.id => e = f
      BY <3>3, <3>5, <3>8 DEF Waiting
    <3>11. Cardinality(Texts') <= Cap => Waiting \subseteq Waiting' /\ x \in Waiting'
      BY <3>2, <3>9 DEF Waiting
    <3> QED BY <2>1, <3>10, <3>11
  <2> QED BY <2>4, <2>6, <2>7
<1>2. ASSUME NEW cutoff \in looks, ConversationUpdated(cutoff) PROVE Goal
  <2>1. /\ waids' = waids \ ReadBy(cutoff) /\ failures \in Nat
        /\ marked' = marked \cup {e.id : e \in ReadBy(cutoff)} \/ failures' # 0
        /\ ~AfterPost \/ UNCHANGED item
    BY <1>2, Constants DEF ConversationUpdated, Works, Fails, RestType, worker
  <2>2. ~AfterPost
    BY <1>2 DEF ConversationUpdated, AfterPost, Returns, worker, WorkType, Workers
  <2> QED BY <1>0, <2>1, <2>2 DEF Waiting
<1>3. ASSUME ~AfterPost, ~\E cutoff \in looks : ConversationUpdated(cutoff) PROVE Goal
  <2>1. UNCHANGED <<waids, marked>>
    <3>1. ASSUME NEW w \in Workers, Sync(w) PROVE UNCHANGED <<waids, marked>>
      BY <3>1 DEF Sync, FindContact, CreateContact, FindConversation, CreateConversation, here, reading
    <3>2. ASSUME PostMessage \/ PostNotice \/ PostImport PROVE UNCHANGED <<waids, marked>>
      BY <3>2 DEF PostMessage, PostNotice, PostImport, here, reading
    <3>3. ASSUME Agent \/ MarkBotSentInGroup PROVE UNCHANGED <<waids, marked>>
      BY <3>3 DEF Agent, AgentLooks, AgentReplies, Resolve, Reopen, MarkBotSentInGroup, reading
    <3>4. ASSUME Receive \/ Import \/ BurstEnds \/ WindowElapses \/ UNCHANGED vars PROVE UNCHANGED <<waids, marked>>
      BY <3>4 DEF Receive, ReceiveMessage, ReceiveOwn, ReceiveReaction, ReceiveGroupInfo, Event, ImportNext,
         BurstEnds, WindowElapses, vars, Import, reading
    <3> QED BY <1>3, <3>1, <3>2, <3>3, <3>4 DEF Next
  <2> QED BY <1>0, <1>3, <2>1 DEF Waiting
<1> QED BY <1>1, <1>2, <1>3


\* A worker that has posted goes on with AfterPost.
LEMMA AfterIs ==
  ASSUME WorkType, [Next]_vars, at["live"] = "after", at'["live"] = "idle"
  PROVE  AfterPost
<1>0. at \in [Workers -> Places] /\ Workers = {"live", "import"}
  BY DEF WorkType, Workers
<1>1. ASSUME NEW w \in Workers, Sync(w) PROVE AfterPost
  BY <1>0, <1>1 DEF Sync, FindContact, CreateContact, FindConversation, CreateConversation, GivesUp, Goes, Returns
<1>2. ASSUME PostMessage \/ PostNotice \/ PostImport PROVE AfterPost
  BY <1>0, <1>2 DEF PostMessage, PostNotice, PostImport, GivesUp, Returns
<1>3. ASSUME Receive \/ Import PROVE AfterPost
  BY <1>0, <1>3 DEF Receive, ReceiveMessage, ReceiveOwn, ReceiveReaction, ReceiveGroupInfo, Event, Import, ImportNext,
     Takes
<1>4. ASSUME BurstEnds \/ WindowElapses \/ Agent \/ MarkBotSentInGroup \/ UNCHANGED vars
             \/ \E cutoff \in looks : ConversationUpdated(cutoff)
      PROVE  UNCHANGED at
  BY <1>4 DEF BurstEnds, WindowElapses, Agent, AgentLooks, AgentReplies, Resolve, Reopen,
     MarkBotSentInGroup, ConversationUpdated, worker, vars
<1> QED BY <1>1, <1>2, <1>3, <1>4 DEF Next

\* WaitingInv is kept.
LEMMA WaitingKept ==
  ASSUME WorkType, ConvsType, RestType, CarryInv, WaitingInv, [Next]_vars
  PROVE  WaitingInv'
<1>0. /\ Texts \subseteq Texts' /\ IsFiniteSet(Texts') /\ media' \subseteq Handled'
      /\ Cardinality(Texts) <= Cardinality(Texts')
      /\ Cardinality(Texts) \in Nat /\ Cardinality(Texts') \in Nat /\ media \subseteq media'
      /\ Workers = {"live", "import"} /\ at \in [Workers -> Places]
  BY TextsGrow DEF Workers, WorkType
<1>1. /\ Waiting' \subseteq Texts'
      /\ \A e, f \in waids' : e.id = f.id => e = f
  BY WaitsKept
<1>2. NoTextForgotten'
  <2> SUFFICES ASSUME failures' = 0, Cardinality(Texts') <= Cap,
                      NEW c \in DOMAIN convs', NEW i \in DOMAIN convs'[c].msgs,
                      convs'[c].msgs[i].by = "live", convs'[c].msgs[i].id \in Texts'
               PROVE  convs'[c].msgs[i].id \in Waiting' \cup marked'
    BY DEF NoTextForgotten
  <2> DEFINE e == convs'[c].msgs[i]
  <2>1. failures = 0 /\ Cardinality(Texts) <= Cap
    BY <1>0, CalmBefore, Constants
  <2>2. Waiting \cup marked \subseteq Waiting' \cup marked'
    BY WaitsKept
  <2>3. CASE c \in DOMAIN convs /\ i \in DOMAIN convs[c].msgs /\ convs'[c].msgs[i] = convs[c].msgs[i]
    <3>1. e.id \in Texts => e.id \in Waiting \cup marked
      BY <2>1, <2>3 DEF WaitingInv, NoTextForgotten
    <3>2. CASE e.id \notin Texts
      <4>1. e.id \in Handled' /\ sent'[e.id].kind = "text" /\ e.id \notin media'
        BY DEF Texts
      <4>2. e \in Entries(c) /\ c \in DOMAIN convs
        BY <2>3 DEF Entries
      <4>3. e.id \notin Handled
        <5>1. ASSUME e.id \in Handled PROVE e.id \in Texts
          <6>1. sent[e.id].kind = "text"
            BY <4>1, <5>1, HandledGrows
          <6> QED BY <1>0, <4>1, <5>1, <6>1 DEF Texts
        <5> QED BY <3>2, <5>1
      <4>4. /\ e.id = events' /\ e.id \in Ids
            /\ \/ ~Receive /\ at["live"] # "idle" /\ at'["live"] = "idle" /\ item["live"].id = e.id
               \/ Receive
        BY <4>1, <4>3, HandledGrows
      <4>5. e.id \in 1 .. events
        BY <4>2 DEF CarryInv
      <4>6. ~Receive
        <5>1. Receive => events' = events + 1 /\ events \in Nat
          BY ReceiveIs, Constants DEF RestType
        <5> QED BY <4>4, <4>5, <5>1
      <4>7. events' = events
        BY <4>6, LiveKeeps
      <4>8. at["live"] = "after"
        BY <4>2, <4>4, <4>6, <4>7 DEF CarryInv
      <4>9. AfterPost
        BY <4>4, <4>6, <4>8, AfterIs
      <4> QED BY <4>4, <4>6, <4>9, WaitsKept
    <3> QED BY <2>2, <3>1, <3>2
  <2>4. CASE Posts("live") /\ (PostMessage \/ PostNotice) /\ e = Entry("live")
    <3>1. /\ at["live"] = "post" /\ item["live"].id = events /\ item["live"].kind = sent[events].kind
          /\ e.id = item["live"].id /\ failures \in Nat /\ sent'[e.id] = sent[e.id]
      <4>1. at["live"] = "post" /\ e.id = item["live"].id /\ failures \in Nat
        BY <2>4, Constants DEF Posts, Entry, RestType
      <4>2. UNCHANGED sent
        BY <2>4 DEF PostMessage, PostNotice, here
      <4> QED BY <4>1, <4>2 DEF CarryInv
    <3>2. e.id \in Handled' /\ sent'[e.id].kind = "text"
      BY DEF Texts
    <3>3. item["live"].kind = "text"
      BY <3>1, <3>2
    <3>4. PostMessage /\ convs' # convs
      <4>1. PostMessage
        BY <2>4, <3>3 DEF PostNotice
      <4>2. Says(conv["live"], Entry("live"))
        BY <1>0, <2>4, PostSays
      <4>3. Len(convs'[conv["live"]].msgs) # Len(convs[conv["live"]].msgs)
        BY <4>2, SaysIs DEF ConvsType
      <4> QED BY <4>1, <4>3
    <3>5. Goes("live", "after") \/ failures' # 0
      BY <3>1, <3>4 DEF PostMessage, Fails, Works, Succeeds
    <3>6. at'["live"] = "after" /\ item'["live"] = item["live"]
      BY <1>0, <3>5 DEF Goes
    <3> QED BY <3>1, <3>2, <3>6 DEF Handled
  <2>5. e = Entry("import") \/ e = Reply => e.by # "live"
    BY DEF Entry, Reply
  <2> HIDE DEF e
  <2>6. e = convs'[c].msgs[i]
    BY DEF e
  <2> QED BY <2>3, <2>4, <2>5, <2>6, NewEntries
<1> QED BY <1>0, <1>1, <1>2 DEF WaitingInv


-----------------------------------------------------------------------------
(* A message without header follows one of its own sender *)

Latest(B) == CHOOSE j \in B : \A k \in B : k <= j

\* Numbers below a bound, of which there are some, have a greatest.
LEMMA LatestIs ==
  ASSUME NEW n \in Nat, NEW B \in SUBSET (1 .. n)
  PROVE  /\ B # {} => Latest(B) \in B
         /\ \A j \in B : (\A k \in B : k <= j) => Latest(B) = j
<1>0. \A k \in B : k \in Nat /\ k <= n
  OBVIOUS
<1>1. ASSUME NEW j \in B, \A k \in B : k <= j PROVE Latest(B) = j
  <2>1. Latest(B) \in B /\ \A k \in B : k <= Latest(B)
    BY <1>1 DEF Latest
  <2>2. Latest(B) <= j /\ j <= Latest(B)
    BY <1>1, <2>1
  <2>3. j \in Nat /\ Latest(B) \in Nat
    BY <1>0, <2>1
  <2> QED BY <2>2, <2>3
<1>2. ASSUME B # {} PROVE Latest(B) \in B
  <2> DEFINE S == {n - k : k \in B}
  <2>0. \A k \in B : n - k \in Nat
    BY <1>0
  <2>1. S \in SUBSET Nat /\ S # {}
    BY <1>2, <2>0
  <2>2. PICK x \in S : \A y \in S : x <= y
    BY <2>1, Least
  <2>3. PICK j \in B : x = n - j
    OBVIOUS
  <2>4. ASSUME NEW k \in B PROVE k <= j
    <3>1. n - j <= n - k
      BY <2>2, <2>3
    <3> QED BY <1>0, <3>1
  <2> QED BY <1>1, <2>4
<1> QED BY <1>1, <1>2

\* A conversation keeps what was said in it.
LEMMA EntriesKept ==
  ASSUME WorkType, ConvsType, [Next]_vars, NEW c \in DOMAIN convs
  PROVE  /\ c \in DOMAIN convs' /\ Len(convs[c].msgs) \in Nat /\ Len(convs'[c].msgs) \in Nat
         /\ DOMAIN convs[c].msgs = 1 .. Len(convs[c].msgs)
         /\ DOMAIN convs'[c].msgs = 1 .. Len(convs'[c].msgs)
         /\ Len(convs[c].msgs) <= Len(convs'[c].msgs)
         /\ \A j \in 1 .. Len(convs[c].msgs) : convs'[c].msgs[j] = convs[c].msgs[j]
<1>1. convs \in Seq(ConvType) /\ convs' \in Seq(ConvType) /\ c \in DOMAIN convs'
  BY NextGrows DEF Grows, ConvsType
<1>11. convs[c] \in ConvType /\ convs'[c] \in ConvType
  BY <1>1
<1>2. convs[c].msgs \in Seq(EntryType) /\ convs'[c].msgs \in Seq(EntryType)
  BY <1>11 DEF ConvType
<1>3. /\ Len(convs[c].msgs) \in Nat /\ Len(convs'[c].msgs) \in Nat
      /\ DOMAIN convs[c].msgs = 1 .. Len(convs[c].msgs)
      /\ DOMAIN convs'[c].msgs = 1 .. Len(convs'[c].msgs)
  BY <1>2
<1>4. CASE convs'[c].msgs = convs[c].msgs
  BY <1>1, <1>3, <1>4
<1>5. CASE SameMessages
  BY <1>4, <1>5 DEF SameMessages
<1>6. CASE Opens
  BY <1>1, <1>4, <1>6, OpensIs
<1>7. ASSUME NEW d, NEW e, Says(d, e) PROVE convs'[c].msgs \in {convs[c].msgs, Append(convs[c].msgs, e)}
  BY <1>1, <1>7, SaysIs
<1>8. ASSUME NEW e, convs'[c].msgs = Append(convs[c].msgs, e), e \in EntryType
      PROVE  /\ Len(convs'[c].msgs) = Len(convs[c].msgs) + 1
             /\ \A j \in 1 .. Len(convs[c].msgs) : convs'[c].msgs[j] = convs[c].msgs[j]
  BY <1>2, <1>8, AppendProperties
<1>9. ASSUME NEW d, NEW e, Says(d, e)
      PROVE  /\ Len(convs[c].msgs) <= Len(convs'[c].msgs)
             /\ \A j \in 1 .. Len(convs[c].msgs) : convs'[c].msgs[j] = convs[c].msgs[j]
  <2>1. e \in EntryType
    BY <1>9 DEF Says
  <2> QED BY <1>3, <1>7, <1>8, <1>9, <2>1
<1> QED BY <1>1, <1>3, <1>5, <1>6, <1>9, NextGrows DEF Grows

\* So the messages before one of it stay the same.
LEMMA BeforeKept ==
  ASSUME WorkType, ConvsType, RestType, CarryInv, [Next]_vars,
         NEW c \in DOMAIN convs, NEW i \in 1 .. Len(convs[c].msgs) + 1
  PROVE  Before(c, i)' = Before(c, i) /\ Before(c, i) \subseteq 1 .. i - 1
<1>1. /\ Len(convs[c].msgs) \in Nat /\ DOMAIN convs[c].msgs = 1 .. Len(convs[c].msgs)
      /\ \A j \in 1 .. Len(convs[c].msgs) : convs'[c].msgs[j] = convs[c].msgs[j]
  BY EntriesKept
<1>2. 1 .. i - 1 \subseteq 1 .. Len(convs[c].msgs)
  BY <1>1
<1>3. ASSUME NEW j \in 1 .. i - 1 PROVE IsMessage(convs[c].msgs[j])' <=> IsMessage(convs[c].msgs[j])
  <2> DEFINE e == convs[c].msgs[j]
  <2>1. convs'[c].msgs[j] = e /\ e \in Entries(c)
    BY <1>1, <1>2 DEF Entries
  <2>2. e.id \in 1 .. events \cup Old \cup {0}
    BY <2>1 DEF CarryInv
  <2>3. /\ events \in Nat /\ events' \in Nat /\ events' \in {events, events + 1} /\ events' <= MaxEvents
        /\ MaxEvents \in Nat /\ MaxOld \in Nat
    BY SentKept, Constants
  <2>4. e.id \in 1 .. events' <=> e.id \in 1 .. events
    BY <2>2, <2>3 DEF Old
  <2> QED BY <2>1, <2>4 DEF IsMessage
<1> QED BY <1>3 DEF Before


\* Whoever wrote last is still the last while no message is said.
LEMMA LastKept ==
  ASSUME WorkType, ConvsType, RestType, CarryInv, [Next]_vars, NEW x, LastIsBy(x),
         \A c \in DOMAIN convs' : \A i \in DOMAIN convs'[c].msgs :
           (c \in DOMAIN convs /\ i \in DOMAIN convs[c].msgs)
             \/ ~(convs'[c].msgs[i].id \in 1 .. events' /\ convs'[c].msgs[i].kind \in Messages)
  PROVE  LastIsBy(x)'
<1>1. PICK c \in DOMAIN convs : \E j \in Before(c, Len(convs[c].msgs) + 1) :
        /\ \A k \in Before(c, Len(convs[c].msgs) + 1) : k <= j
        /\ convs[c].msgs[j].from = x
  BY DEF LastIsBy
<1>0. /\ c \in DOMAIN convs' /\ Len(convs[c].msgs) \in Nat /\ Len(convs'[c].msgs) \in Nat
      /\ Len(convs[c].msgs) <= Len(convs'[c].msgs)
      /\ DOMAIN convs[c].msgs = 1 .. Len(convs[c].msgs) /\ DOMAIN convs'[c].msgs = 1 .. Len(convs'[c].msgs)
      /\ \A k \in 1 .. Len(convs[c].msgs) : convs'[c].msgs[k] = convs[c].msgs[k]
  BY EntriesKept
<1>2. PICK n \in Nat : n = Len(convs[c].msgs)
  BY <1>0
<1>3. PICK m \in Nat : m = Len(convs'[c].msgs)
  BY <1>0
<1>4. PICK j \in Before(c, n + 1) :
        (\A k \in Before(c, n + 1) : k <= j) /\ convs[c].msgs[j].from = x
  BY <1>1, <1>2
<1>5. Before(c, n + 1)' = Before(c, n + 1) /\ Before(c, n + 1) \subseteq 1 .. n
  <2>1. n + 1 \in 1 .. n + 1 /\ n + 1 - 1 = n
    OBVIOUS
  <2> QED BY <1>2, <2>1, BeforeKept
<1>6. ASSUME NEW k \in 1 .. m, convs'[c].msgs[k].id \in 1 .. events', convs'[c].msgs[k].kind \in Messages
      PROVE  k \in Before(c, n + 1)'
  <2>1. k \in 1 .. n
    BY <1>0, <1>2, <1>3, <1>6
  <2>2. n + 1 - 1 = n
    OBVIOUS
  <2> QED BY <1>6, <2>1, <2>2 DEF Before, IsMessage
<1>7. Before(c, m + 1)' = Before(c, n + 1)
  <2>1. \A k : k \in Before(c, m + 1)' <=>
          k \in 1 .. m /\ convs'[c].msgs[k].id \in 1 .. events' /\ convs'[c].msgs[k].kind \in Messages
    <3>1. m + 1 - 1 = m
      OBVIOUS
    <3> QED BY <3>1 DEF Before, IsMessage
  <2>2. \A k \in Before(c, n + 1)' : convs'[c].msgs[k].id \in 1 .. events' /\ convs'[c].msgs[k].kind \in Messages
    BY DEF Before, IsMessage
  <2>3. \A k \in 1 .. n : k \in 1 .. m
    BY <1>0, <1>2, <1>3
  <2> QED BY <1>5, <1>6, <2>1, <2>2, <2>3
<1>8. convs'[c].msgs[j].from = x
  BY <1>0, <1>2, <1>4, <1>5
<1>9. /\ j \in Before(c, m + 1)' /\ \A k \in Before(c, m + 1)' : k <= j
  BY <1>4, <1>7
<1>10. Before(c, Len(convs[c].msgs) + 1)' = Before(c, m + 1)'
  BY <1>3 DEF Before, IsMessage
<1> QED BY <1>0, <1>8, <1>9, <1>10 DEF LastIsBy

\* Whoever is said to have written a message is the last.
LEMMA LastNew ==
  ASSUME ConvsType, NEW c, NEW e, Says(c, e), e.id \in 1 .. events', e.kind \in Messages
  PROVE  LastIsBy(e.from)'
<1> DEFINE n == Len(convs[c].msgs)
<1>1. /\ c \in DOMAIN convs' /\ convs[c].msgs \in Seq(EntryType) /\ convs'[c].msgs = Append(convs[c].msgs, e)
      /\ convs'[c].msgs[n + 1] = e /\ e \in EntryType
  BY SaysIs DEF ConvsType, Says
<1>2. n \in Nat /\ Len(convs'[c].msgs) = n + 1
  BY <1>1, AppendProperties
<1>3. \A k : k \in Before(c, Len(convs[c].msgs) + 1)' <=>
        k \in 1 .. (n + 1) + 1 - 1 /\ convs'[c].msgs[k].id \in 1 .. events' /\ convs'[c].msgs[k].kind \in Messages
  BY <1>2 DEF Before, IsMessage
<1>4. n + 1 \in 1 .. (n + 1) + 1 - 1 /\ \A k \in 1 .. (n + 1) + 1 - 1 : k <= n + 1
  BY <1>2
<1>5. n + 1 \in Before(c, Len(convs[c].msgs) + 1)'
  BY <1>1, <1>3, <1>4
<1>6. \A k \in Before(c, Len(convs[c].msgs) + 1)' : k <= n + 1
  BY <1>3, <1>4
<1> QED BY <1>1, <1>5, <1>6 DEF LastIsBy


\* A text the live worker carries was said by it or by the import, if it is
\* delivered in this step.
LEMMA TextSaid ==
  ASSUME WorkType, ConvsType, RestType, CarryInv, [Next]_vars, ~Receive,
         \A c \in DOMAIN convs' : \A i \in DOMAIN convs'[c].msgs :
           (c \in DOMAIN convs /\ i \in DOMAIN convs[c].msgs)
             \/ ~(convs'[c].msgs[i].id \in 1 .. events' /\ convs'[c].msgs[i].kind \in Messages),
         at["live"] # "idle", item["live"].kind = "text", item["live"].id \in Delivered'
  PROVE  item["live"].id \in Delivered
<1> DEFINE x == item["live"].id
<1>1. /\ x = events /\ x \in Ids /\ sent[x].kind = "text" /\ events' = events /\ events \in Nat
      /\ UNCHANGED sent
  BY LiveKeeps, Constants DEF CarryInv, WorkType, Workers, RestType
<1>2. x \in 1 .. events' /\ x # 0
  BY <1>1, Constants DEF Ids
<1>3. (item["live"].id \in Delivered)' <=>
        \E c \in DOMAIN convs' : \E i \in DOMAIN convs'[c].msgs : convs'[c].msgs[i].id = item'["live"].id
  BY DEF Delivered, Posted
<1>4. PICK c \in DOMAIN convs' : \E i \in DOMAIN convs'[c].msgs : convs'[c].msgs[i].id = x
  BY DEF Delivered, Posted
<1>5. PICK i \in DOMAIN convs'[c].msgs : convs'[c].msgs[i].id = x
  BY <1>4
<1>6. CASE c \in DOMAIN convs /\ i \in DOMAIN convs[c].msgs /\ convs'[c].msgs[i] = convs[c].msgs[i]
  BY <1>5, <1>6, DeliveredIs
<1>7. ASSUME convs'[c].msgs[i].kind = "text" PROVE c \in DOMAIN convs /\ i \in DOMAIN convs[c].msgs
  BY <1>2, <1>5, <1>7 DEF Messages
<1>8. ASSUME c \in DOMAIN convs, i \in DOMAIN convs[c].msgs PROVE x \in Delivered
  <2>1. convs'[c].msgs[i] = convs[c].msgs[i]
    BY <1>8, EntriesKept
  <2> QED BY <1>5, <1>8, <2>1, DeliveredIs
<1>9. convs'[c].msgs[i] = Entry("live") => convs'[c].msgs[i].kind = "text"
  BY DEF Entry
<1>10. Posts("import") /\ convs'[c].msgs[i] = Entry("import") => convs'[c].msgs[i].kind = "text"
  BY DEF Entry, CarryInv, Posts
<1>11. convs'[c].msgs[i] # Reply
  BY <1>2, <1>5 DEF Reply
<1> QED BY <1>6, <1>7, <1>8, <1>9, <1>10, <1>11, NewEntries

\* Without a failure or a race, a message is said by live, which then goes on,
\* or it is the text live is about to post.
LEMMA MessageSaid ==
  ASSUME WorkType, ConvsType, RestType, CarryInv, LostOnlyWithCause, [Next]_vars, Calm', refused = {},
         NEW c \in DOMAIN convs', NEW i \in DOMAIN convs'[c].msgs,
         ~(c \in DOMAIN convs /\ i \in DOMAIN convs[c].msgs),
         convs'[c].msgs[i].id \in 1 .. events', convs'[c].msgs[i].kind \in Messages
  PROVE  /\ UNCHANGED <<events, sent, burst>> /\ item'["live"] = item["live"]
         /\ at["live"] # "idle" /\ at'["live"] # "idle"
         /\ \E w \in Workers :
              /\ Says(c, Entry(w)) /\ Entry(w).id \in 1 .. events' /\ Entry(w).kind \in Messages
              /\ w = "live" \/ (item["live"].kind = "text" /\ item["live"].from = item[w].from)
         /\ item["live"].kind \in Messages
<1>0. /\ at \in [Workers -> Places] /\ item \in [Workers -> ItemType] /\ Workers = {"live", "import"}
      /\ Calm /\ failures \in Nat /\ failures = 0 /\ failures' = 0 /\ events \in Nat
  BY CalmBefore, Constants DEF RestType, WorkType, Workers, Calm
<1>1. ~Fails
  BY <1>0 DEF Fails
<1>2. CASE Posts("live") /\ (PostMessage \/ PostNotice) /\ c = conv["live"] /\ convs'[c].msgs[i] = Entry("live")
  <2>1. item["live"].kind \in Messages
    BY <1>2 DEF Entry
  <2>2. PostMessage
    BY <1>2, <2>1 DEF PostNotice, Messages
  <2>3. Says(c, Entry("live"))
    BY <1>0, <1>2, PostSays
  <2>4. convs' # convs
    <3>1. Len(convs'[c].msgs) # Len(convs[c].msgs)
      BY <2>3, SaysIs DEF ConvsType
    <3> QED BY <3>1
  <2>5. Goes("live", "after")
    BY <1>1, <2>2, <2>4 DEF PostMessage
  <2>6. UNCHANGED <<events, sent, burst>> /\ item'["live"] = item["live"] /\ at["live"] # "idle" /\ at'["live"] # "idle"
    BY <1>0, <2>2, <2>5 DEF PostMessage, here, trackers, Goes
  <2> QED BY <1>0, <1>2, <2>1, <2>3, <2>6
<1>3. CASE Posts("import") /\ PostImport /\ c = conv["import"] /\ convs'[c].msgs[i] = Entry("import")
  <2> DEFINE x == item["import"].id
  <2>1. /\ UNCHANGED <<events, sent, burst>> /\ at["import"] = "post" /\ at'["live"] = at["live"]
        /\ item'["live"] = item["live"]
    BY <1>0, <1>3 DEF PostImport, here, trackers, Returns, GivesUp
  <2>2. Says(c, Entry("import"))
    BY <1>0, <1>3, PostSays
  <2>3. x \in 1 .. events
    BY <1>3, <2>1 DEF Entry
  <2>4. x \notin Old
    BY <2>3, SentKept, Constants DEF Old
  <2>5. sent[x].kind = "text" /\ item["import"].from = sent[x].from
    BY <2>1, <2>4 DEF CarryInv
  <2>6. convs' # convs
    <3>1. Len(convs'[c].msgs) # Len(convs[c].msgs)
      BY <2>2, SaysIs DEF ConvsType
    <3> QED BY <3>1
  <2>7. x \notin Delivered
    BY <1>3, <2>6 DEF PostImport, Duplicate
  <2>8. x \notin Handled
    BY <1>0, <2>5, <2>7 DEF LostOnlyWithCause, GivenUp
  <2>9. at["live"] # "idle" /\ item["live"].id = x
    BY <2>3, <2>8 DEF Handled
  <2>10. item["live"].kind = "text" /\ item["live"].from = item["import"].from
    BY <2>5, <2>9 DEF CarryInv
  <2> QED BY <1>0, <1>3, <2>1, <2>2, <2>9, <2>10 DEF Messages
<1>4. convs'[c].msgs[i] # Reply
  <2>1. 0 \notin 1 .. events'
    BY SentKept
  <2> QED BY <2>1 DEF Reply
<1> QED BY <1>2, <1>3, <1>4, NewEntries


\* BurstInv is kept when an event comes.
LEMMA ReceiveBursts ==
  ASSUME WorkType, ConvsType, RestType, CarryInv, CauseInv, BurstInv, Receive, [Next]_vars
  PROVE  BurstInv'
<1> SUFFICES ASSUME Calm', refused' = {}, Len(convs') <= 1
    PROVE
      /\ burst' \in Senders /\ (at'["live"] = "idle" \/ item'["live"].kind = "notice") => LastIsBy(burst)'
      /\ burst' \in Senders /\ at'["live"] # "idle" /\ item'["live"].kind # "notice" =>
           item'["live"].kind = "text" /\ item'["live"].from = burst'
      /\ at'["live"] # "idle" /\ item'["live"].kind = "text" /\ item'["live"].id \in Delivered' =>
           LastIsBy(item["live"].from)'
      /\ at'["live"] # "idle" /\ item'["live"].kind = "text" /\ Unmarked(item["live"])' =>
           LastIsBy(item["live"].from)'
  BY DEF BurstInv
<1>1. /\ at \in [Workers -> Places] /\ item \in [Workers -> ItemType] /\ Workers = {"live", "import"}
      /\ Calm /\ UNCHANGED convs /\ at["live"] = "idle" /\ events' = events + 1 /\ events \in Nat
      /\ events' \in Ids /\ events < MaxEvents /\ Owner \notin Senders /\ Nobody \notin Senders
      /\ refused = {}
  <2>1. Calm /\ refused \subseteq refused'
    BY CalmBefore, CausesGrow
  <2>2. /\ UNCHANGED convs /\ at["live"] = "idle" /\ events' = events + 1 /\ events' \in Ids
        /\ events < MaxEvents
    BY ReceiveIs
  <2>3. /\ at \in [Workers -> Places] /\ item \in [Workers -> ItemType] /\ Workers = {"live", "import"}
        /\ events \in Nat
    BY Constants DEF RestType, WorkType, Workers
  <2> QED BY <2>1, <2>2, <2>3, Constants
<1>2. ASSUME NEW x, LastIsBy(x) PROVE LastIsBy(x)'
  BY <1>1, <1>2, LastKept
<1>3. burst \in Senders => LastIsBy(burst)
  BY <1>1 DEF BurstInv
<1>4. events' \notin Delivered'
  <2>1. events' \notin Delivered
    <3> SUFFICES ASSUME NEW c \in DOMAIN convs, NEW i \in DOMAIN convs[c].msgs
                 PROVE  convs[c].msgs[i].id # events'
      BY DeliveredIs
    <3>1. convs[c].msgs[i] \in Entries(c)
      BY DEF Entries
    <3>2. convs[c].msgs[i].id \in 1 .. events \cup Old \cup {0}
      BY <3>1 DEF CarryInv
    <3> QED BY <1>1, <3>2, Constants DEF Old
  <2> QED BY <1>1, <2>1 DEF Delivered, Posted
<1>5. ASSUME NEW from \in Senders, ReceiveMessage(from)
      PROVE  /\ burst' = from /\ at'["live"] = "contact"
             /\ \E h : h = (burst # from /\ Header(from))
                     /\ item'["live"] = [id |-> events', kind |-> "text", from |-> from, header |-> h]
  BY <1>1, <1>5 DEF ReceiveMessage, BurstOf, Takes
<1>6. ASSUME NEW content \in Contents, ReceiveOwn(content)
      PROVE  /\ burst' = Owner
             /\ \/ at'["live"] = "idle"
                \/ at'["live"] = "contact" /\ item'["live"].kind = "own"
  BY <1>1, <1>6 DEF ReceiveOwn, BurstOf, Takes
<1>7. ASSUME ReceiveReaction \/ ReceiveGroupInfo
      PROVE  burst' = burst /\ at'["live"] = "contact" /\ item'["live"].kind = "notice"
  BY <1>1, <1>7 DEF ReceiveReaction, ReceiveGroupInfo, Takes, Notice, trackers
<1>8. ASSUME NEW from \in Senders, ReceiveMessage(from), Unmarked(item["live"])'
      PROVE  LastIsBy(item["live"].from)'
  <2>1. PICK h : /\ h = (burst # from /\ Header(from))
                 /\ item'["live"] = [id |-> events', kind |-> "text", from |-> from, header |-> h]
    BY <1>5, <1>8
  <2>5. item'["live"].header = h /\ from = item'["live"].from
    BY <2>1
  <2>2. burst = from
    BY <1>8, <2>1, <2>5 DEF Unmarked, Header
  <2>3. LastIsBy(from)
    BY <1>3, <2>2
  <2>4. LastIsBy(from)'
    BY <1>2, <2>3
  <2> QED BY <2>4, <2>5 DEF LastIsBy
<1>9. ASSUME ReceiveReaction \/ ReceiveGroupInfo, burst \in Senders PROVE LastIsBy(burst)'
  <2>1. PICK x : x = burst
    OBVIOUS
  <2>2. LastIsBy(x)
    BY <1>3, <1>9, <2>1
  <2>3. LastIsBy(x)'
    BY <1>2, <2>2
  <2>4. burst' = x
    BY <1>7, <1>9, <2>1
  <2> QED BY <2>3, <2>4 DEF LastIsBy
<1>10. CASE \E from \in Senders : ReceiveMessage(from)
  <2>1. PICK from \in Senders : ReceiveMessage(from)
    BY <1>10
  <2>4. PICK h : /\ burst' = from /\ at'["live"] = "contact"
                 /\ item'["live"] = [id |-> events', kind |-> "text", from |-> from, header |-> h]
    BY <1>5, <2>1
  <2>2. /\ burst' = from /\ at'["live"] = "contact" /\ item'["live"].id = events'
        /\ item'["live"].kind = "text" /\ item'["live"].from = from
    BY <2>4
  <2>3. Unmarked(item["live"])' => LastIsBy(item["live"].from)'
    BY <1>8, <2>1
  <2> QED BY <1>4, <2>2, <2>3
<1>11. CASE \E content \in Contents : ReceiveOwn(content)
  BY <1>1, <1>6, <1>11
<1>12. CASE ReceiveReaction \/ ReceiveGroupInfo
  BY <1>7, <1>9, <1>12
<1> QED BY <1>10, <1>11, <1>12 DEF Receive

\* It is kept by every other step.
LEMMA StepBursts ==
  ASSUME WorkType, ConvsType, RestType, CarryInv, RaceInv, CauseInv, LostOnlyWithCause, BurstInv, ~Receive,
         [Next]_vars
  PROVE  BurstInv'
<1> SUFFICES ASSUME Calm', refused' = {}, Len(convs') <= 1
    PROVE
      /\ burst' \in Senders /\ (at'["live"] = "idle" \/ item'["live"].kind = "notice") => LastIsBy(burst)'
      /\ burst' \in Senders /\ at'["live"] # "idle" /\ item'["live"].kind # "notice" =>
           item'["live"].kind = "text" /\ item'["live"].from = burst'
      /\ at'["live"] # "idle" /\ item'["live"].kind = "text" /\ item'["live"].id \in Delivered' =>
           LastIsBy(item["live"].from)'
      /\ at'["live"] # "idle" /\ item'["live"].kind = "text" /\ Unmarked(item["live"])' =>
           LastIsBy(item["live"].from)'
  BY DEF BurstInv
<1>0. /\ Calm /\ refused = {} /\ UNCHANGED <<events, sent>> /\ Owner \notin Senders /\ Nobody \notin Senders
      /\ at'["live"] # "idle" => at["live"] # "idle" /\ item'["live"] = item["live"]
  BY CalmBefore, CausesGrow, LiveKeeps, Constants
<1>1. Len(convs) <= 1
  <2>1. /\ Len(convs) \in Nat /\ Len(convs') \in Nat /\ DOMAIN convs = 1 .. Len(convs)
        /\ DOMAIN convs' = 1 .. Len(convs') /\ DOMAIN convs \subseteq DOMAIN convs'
    BY NextGrows DEF Grows, ConvsType
  <2> QED BY <2>1
<1>2. burst' = burst \/ burst' \notin Senders
  <2>1. ASSUME NEW w \in Workers, Sync(w) PROVE burst' = burst
    BY <2>1 DEF Sync, FindContact, CreateContact, FindConversation, CreateConversation, here, trackers
  <2>2. ASSUME PostMessage \/ PostNotice \/ PostImport \/ AfterPost PROVE burst' = burst
    BY <2>2 DEF PostMessage, PostNotice, PostImport, AfterPost, here, trackers
  <2>3. ASSUME Agent \/ \E cutoff \in looks : ConversationUpdated(cutoff) PROVE burst' = burst
    BY <2>3 DEF Agent, AgentLooks, AgentReplies, Resolve, Reopen, ConversationUpdated, trackers
  <2>4. ASSUME Import \/ WindowElapses \/ UNCHANGED vars PROVE burst' = burst
    BY <2>4 DEF Import, ImportNext, WindowElapses, vars, trackers
  <2>5. ASSUME BurstEnds \/ MarkBotSentInGroup PROVE burst' \in {Nobody, Owner}
    BY <2>5 DEF BurstEnds, MarkBotSentInGroup, BurstOf
  <2> QED BY <1>0, <2>1, <2>2, <2>3, <2>4, <2>5 DEF Next
<1> DEFINE Said(c, i) == /\ ~(c \in DOMAIN convs /\ i \in DOMAIN convs[c].msgs)
                         /\ convs'[c].msgs[i].id \in 1 .. events' /\ convs'[c].msgs[i].kind \in Messages
<1>3. ASSUME NEW c \in DOMAIN convs', NEW i \in DOMAIN convs'[c].msgs, Said(c, i)
      PROVE  /\ item'["live"] = item["live"] /\ at["live"] # "idle" /\ at'["live"] # "idle"
             /\ burst' = burst /\ item["live"].kind \in Messages
             /\ item["live"].kind = "text" => LastIsBy(item["live"].from)'
  <2>1. /\ UNCHANGED burst /\ item'["live"] = item["live"] /\ at["live"] # "idle" /\ at'["live"] # "idle"
        /\ item["live"].kind \in Messages
    BY <1>0, <1>3, MessageSaid
  <2>2. PICK w \in Workers :
          /\ Says(c, Entry(w)) /\ Entry(w).id \in 1 .. events' /\ Entry(w).kind \in Messages
          /\ w = "live" \/ (item["live"].kind = "text" /\ item["live"].from = item[w].from)
    BY <1>0, <1>3, MessageSaid
  <2>3. PICK e : e = Entry(w)
    OBVIOUS
  <2>4. LastIsBy(e.from)'
    BY <2>2, <2>3, LastNew
  <2>5. e.from = item["live"].from
    BY <2>2, <2>3 DEF Entry
  <2>6. e.from = item'["live"].from
    BY <2>1, <2>5
  <2> QED BY <2>1, <2>4, <2>6 DEF LastIsBy
<1>4. CASE \E c \in DOMAIN convs' : \E i \in DOMAIN convs'[c].msgs : Said(c, i)
  <2>1. /\ item'["live"] = item["live"] /\ at["live"] # "idle" /\ at'["live"] # "idle"
        /\ burst' = burst /\ item["live"].kind \in Messages
        /\ item["live"].kind = "text" => LastIsBy(item["live"].from)'
    BY <1>3, <1>4
  <2> HIDE DEF Said
  <2> QED BY <1>0, <1>1, <2>1 DEF BurstInv, Messages
<1>5. CASE ~\E c \in DOMAIN convs' : \E i \in DOMAIN convs'[c].msgs : Said(c, i)
  <2>1. \A c \in DOMAIN convs' : \A i \in DOMAIN convs'[c].msgs :
           (c \in DOMAIN convs /\ i \in DOMAIN convs[c].msgs)
             \/ ~(convs'[c].msgs[i].id \in 1 .. events' /\ convs'[c].msgs[i].kind \in Messages)
    BY <1>5
  <2> HIDE DEF Said
  <2>2. ASSUME NEW x, LastIsBy(x) PROVE LastIsBy(x)'
    BY <2>1, <2>2, LastKept
  <2>3. at["live"] # "idle" /\ item["live"].kind = "text" /\ item["live"].id \in Delivered' =>
          LastIsBy(item["live"].from)
    BY <1>0, <1>1, <2>1, TextSaid DEF BurstInv
  <2>4. ASSUME burst' \in Senders, at'["live"] = "idle" \/ item'["live"].kind = "notice"
        PROVE  LastIsBy(burst)
    <3>1. burst' = burst
      BY <1>2, <2>4
    <3>2. CASE at["live"] = "idle" \/ item["live"].kind = "notice"
      BY <1>0, <1>1, <2>4, <3>1, <3>2 DEF BurstInv
    <3>3. CASE at["live"] # "idle" /\ item["live"].kind # "notice"
      <4>1. item["live"].kind = "text" /\ item["live"].from = burst
        BY <1>0, <1>1, <2>4, <3>1, <3>3 DEF BurstInv
      <4>2. at'["live"] = "idle"
        BY <1>0, <2>4, <4>1
      <4>3. item["live"].id \in Delivered'
        BY <3>3, <4>1, <4>2, LiveReturns
      <4> QED BY <2>3, <3>3, <4>1, <4>3
    <3> QED BY <3>2, <3>3
  <2>5. ASSUME burst' \in Senders, at'["live"] = "idle" \/ item'["live"].kind = "notice"
        PROVE  LastIsBy(burst)'
    <3>1. PICK x : x = burst
      OBVIOUS
    <3>2. LastIsBy(x)'
      BY <2>2, <2>4, <2>5, <3>1
    <3>3. x = burst'
      BY <1>2, <2>5, <3>1
    <3> QED BY <3>2, <3>3 DEF LastIsBy
  <2>6. ASSUME at'["live"] # "idle", LastIsBy(item["live"].from) PROVE LastIsBy(item["live"].from)'
    <3>1. PICK x : x = item["live"].from
      OBVIOUS
    <3>2. LastIsBy(x)' /\ x = item'["live"].from
      BY <1>0, <2>2, <2>6, <3>1
    <3> QED BY <3>2 DEF LastIsBy
  <2>7. at'["live"] # "idle" /\ item'["live"].kind = "text" /\ Unmarked(item["live"])' =>
          LastIsBy(item["live"].from)
    BY <1>0, <1>1 DEF BurstInv, Unmarked
  <2>8. burst' \in Senders /\ at'["live"] # "idle" /\ item'["live"].kind # "notice" =>
           item'["live"].kind = "text" /\ item'["live"].from = burst'
    BY <1>0, <1>1, <1>2 DEF BurstInv
  <2> QED BY <1>0, <2>3, <2>5, <2>6, <2>7, <2>8
<1> QED BY <1>4, <1>5


\* BareFollowsItsSender is kept.
LEMMA BareKept ==
  ASSUME WorkType, ConvsType, RestType, CarryInv, CauseInv, BurstInv, BareFollowsItsSender, [Next]_vars
  PROVE  BareFollowsItsSender'
<1> SUFFICES ASSUME Calm', refused' = {}, Len(convs') <= 1, NEW c \in DOMAIN convs', NEW i \in DOMAIN convs'[c].msgs,
                    convs'[c].msgs[i].kind = "text", Unmarked(convs[c].msgs[i])'
             PROVE  /\ Before(c, i)' # {}
                    /\ Previous(c, i)'.from = convs'[c].msgs[i].from
  BY DEF BareFollowsItsSender, Bare, Unmarked
<1>0. /\ Calm /\ refused = {} /\ Len(convs) <= 1 /\ Workers = {"live", "import"}
      /\ Len(convs) \in Nat /\ DOMAIN convs = 1 .. Len(convs)
  <2>1. /\ Len(convs) \in Nat /\ Len(convs') \in Nat /\ DOMAIN convs = 1 .. Len(convs)
        /\ DOMAIN convs' = 1 .. Len(convs') /\ DOMAIN convs \subseteq DOMAIN convs'
    BY NextGrows DEF Grows, ConvsType
  <2>2. Calm
    BY CalmBefore
  <2>3. refused \subseteq refused'
    BY CausesGrow
  <2> QED BY <2>1, <2>2, <2>3 DEF Workers
<1>1. ASSUME c \in DOMAIN convs, i \in 1 .. Len(convs[c].msgs) + 1, Before(c, i) # {},
             NEW x, convs[c].msgs[Latest(Before(c, i))].from = x
      PROVE  Before(c, i)' # {} /\ Previous(c, i)'.from = x
  <2>1. Before(c, i)' = Before(c, i) /\ Before(c, i) \subseteq 1 .. i - 1
    BY <1>1, BeforeKept
  <2>2. /\ Len(convs[c].msgs) \in Nat
        /\ \A j \in 1 .. Len(convs[c].msgs) : convs'[c].msgs[j] = convs[c].msgs[j]
    BY <1>1, EntriesKept
  <2>3. i - 1 \in Nat /\ 1 .. i - 1 \subseteq 1 .. Len(convs[c].msgs)
    BY <1>1, <2>2
  <2>4. Latest(Before(c, i)) \in 1 .. Len(convs[c].msgs)
    BY <1>1, <2>1, <2>3, LatestIs
  <2>5. Previous(c, i)' = convs'[c].msgs[Latest(Before(c, i)')]
    BY DEF Previous, Latest
  <2> QED BY <1>1, <2>1, <2>2, <2>4, <2>5
<1>2. CASE c \in DOMAIN convs /\ i \in DOMAIN convs[c].msgs /\ convs'[c].msgs[i] = convs[c].msgs[i]
  <2>1. Before(c, i) # {} /\ Previous(c, i).from = convs[c].msgs[i].from
    BY <1>0, <1>2 DEF BareFollowsItsSender, Bare, Unmarked
  <2>2. Previous(c, i) = convs[c].msgs[Latest(Before(c, i))]
    BY DEF Previous, Latest
  <2>3. i \in 1 .. Len(convs[c].msgs) + 1
    BY <1>2, EntriesKept
  <2> QED BY <1>1, <1>2, <2>1, <2>2, <2>3
<1>3. CASE /\ Posts("live") /\ c = conv["live"]
           /\ i = Len(convs[c].msgs) + 1 /\ convs'[c].msgs[i] = Entry("live")
  <2>1. /\ at["live"] = "post" /\ item["live"].kind = "text" /\ Unmarked(item["live"])
        /\ convs'[c].msgs[i].from = item["live"].from
    BY <1>3 DEF Posts, Entry, Unmarked
  <2>2. c \in DOMAIN convs
    BY <1>0, <2>1, <1>3 DEF WorkType
  <2>8. PICK d \in DOMAIN convs : \E j \in Before(d, Len(convs[d].msgs) + 1) :
          /\ \A k \in Before(d, Len(convs[d].msgs) + 1) : k <= j
          /\ convs[d].msgs[j].from = item["live"].from
    BY <1>0, <2>1 DEF BurstInv, LastIsBy
  <2>3. PICK j \in Before(d, Len(convs[d].msgs) + 1) :
          /\ \A k \in Before(d, Len(convs[d].msgs) + 1) : k <= j
          /\ convs[d].msgs[j].from = item["live"].from
    BY <2>8
  <2>4. d = c
    BY <1>0, <2>2
  <2>5. /\ i \in 1 .. Len(convs[c].msgs) + 1 /\ i - 1 \in Nat
    BY <1>3, <2>2, EntriesKept
  <2>6. Before(c, i) \in SUBSET (1 .. i - 1)
    BY <2>2, <2>5, BeforeKept
  <2>7. Latest(Before(c, i)) = j
    BY <1>3, <2>3, <2>4, <2>5, <2>6, LatestIs
  <2> QED BY <1>1, <1>3, <2>1, <2>2, <2>3, <2>4, <2>5, <2>7
<1>4. ~(Posts("import") /\ convs'[c].msgs[i] = Entry("import"))
  BY DEF Entry, Posts, CarryInv, Unmarked
<1>5. convs'[c].msgs[i] # Reply
  BY DEF Reply
<1> QED BY <1>2, <1>3, <1>4, <1>5, NewEntries

-----------------------------------------------------------------------------
(* The theorems *)

\* The invariant holds before the first event.
LEMMA InitInv == Init => IncomingInv
<1> SUFFICES ASSUME Init PROVE IncomingInv
  OBVIOUS
<1>1. /\ convs = <<>> /\ DOMAIN convs = {} /\ events = 0 /\ waids = {} /\ looks = {} /\ marked = {} /\ media = {}
      /\ recent = {} /\ at = [w \in Workers |-> "idle"] /\ burst = Nobody
      /\ sent = [i \in Ids |-> [kind |-> "none", from |-> Nobody, content |-> Nobody]]
      /\ result = [i \in Ids |-> "none"] /\ shown = {} /\ refused = {} /\ resolved = FALSE
  BY DEF Init
<1>2. Handled = {} /\ Waiting = {} /\ Texts = {}
  BY <1>1 DEF Handled, Waiting, Texts
<1>3. CarryInv
  BY <1>1 DEF CarryInv, Workers
<1>4. RaceInv /\ CauseInv /\ TwinInv /\ LostOnlyWithCause /\ SeenInv /\ ImportHonest
  BY <1>1, <1>2 DEF RaceInv, CauseInv, TwinInv, LostOnlyWithCause, SeenInv, ImportHonest
<1>5. IncomingTypeOK
  BY <1>4, InitTypes, IncomingTypes
<1>6. WaitingInv
  BY <1>1, <1>2 DEF WaitingInv, NoTextForgotten
<1>7. BurstInv /\ BareFollowsItsSender
  BY <1>1, Constants DEF BurstInv, BareFollowsItsSender, Workers
<1> QED BY <1>3, <1>4, <1>5, <1>6, <1>7 DEF IncomingInv

\* Every step keeps it.
LEMMA NextInv == IncomingInv /\ [Next]_vars => IncomingInv'
<1> SUFFICES ASSUME IncomingInv, [Next]_vars PROVE IncomingInv'
  OBVIOUS
<1>1. WorkType /\ ConvsType /\ RestType
  BY IncomingTypes DEF IncomingInv
<1>7. CauseInv'
  BY <1>1, CauseKept DEF IncomingInv
<1>2. IncomingTypeOK'
  <2>1. WorkType' /\ ConvsType' /\ RestType'
    BY <1>1, NextTypes
  <2> QED BY <1>7, <2>1 DEF IncomingTypeOK, WorkType, ConvsType, ConvType, RestType, FlagType, CauseInv
<1>3. CarryInv'
  BY <1>1, ReceiveCarries, ImportCarries, StepCarries DEF IncomingInv
<1>4. RaceInv' /\ TwinInv' /\ LostOnlyWithCause'
  BY <1>1, <1>7, RaceKept, TwinKept, LostKept DEF IncomingInv
<1>5. SeenInv' /\ WaitingInv' /\ ImportHonest'
  BY <1>1, SeenKept, WaitingKept, HonestKept DEF IncomingInv
<1>6. BurstInv' /\ BareFollowsItsSender'
  BY <1>1, ReceiveBursts, StepBursts, BareKept DEF IncomingInv
<1> QED BY <1>2, <1>3, <1>4, <1>5, <1>6, <1>7 DEF IncomingInv

\* It is an invariant of the program: what the live worker and the import do to
\* the conversations of a group, the trackers and the agent, in any order.
THEOREM IncomingSafe == Spec => []IncomingInv
BY InitInv, NextInv, PTL DEF Spec

\* Every variable keeps its type, and the waidTracker keeps within its cap.
THEOREM TypeCorrect == Spec => []IncomingTypeOK
<1>1. IncomingInv => IncomingTypeOK
  BY DEF IncomingInv
<1> QED BY <1>1, IncomingSafe, PTL

\* A message handed over is delivered unless a call failed, the workers were
\* about to create the same thing, or the source id of the chat was refused,
\* which takes an agent who resolved a conversation of it; an own message may
\* have been dropped for its twin, which is delivered or met one of these.
THEOREM NothingLost == Spec => []LostOnlyWithCause
<1>1. IncomingInv => LostOnlyWithCause
  BY DEF IncomingInv
<1> QED BY <1>1, IncomingSafe, PTL

\* A message whose header was left out follows one of its own sender, while
\* nothing failed or was refused and the chat has one conversation.
THEOREM BareFollows == Spec => []BareFollowsItsSender
<1>1. IncomingInv => BareFollowsItsSender
  BY DEF IncomingInv
<1> QED BY <1>1, IncomingSafe, PTL

\* What the sender sees as read was in the downstream when the agent looked at a
\* conversation of the chat; it was on the screen if the chat has no second one.
THEOREM MarkedWasRead == Spec => []OnlyReadIsMarked
<1>1. IncomingInv => OnlyReadIsMarked
  BY DEF IncomingInv, SeenInv, OnlyReadIsMarked
<1> QED BY <1>1, IncomingSafe, PTL

\* No text the live worker posted is forgotten by the waidTracker while there
\* are no more of them than its cap and no call fails.
THEOREM TextsWait == Spec => []NoTextForgotten
<1>1. IncomingInv => NoTextForgotten
  BY DEF IncomingInv, WaitingInv
<1> QED BY <1>1, IncomingSafe, PTL

\* The import counts as posted only what is there, as skipped only what is there
\* unless a call failed, and an error only with a cause.
THEOREM ImportCounts == Spec => []ImportHonest
<1>1. IncomingInv => ImportHonest
  BY DEF IncomingInv
<1> QED BY <1>1, IncomingSafe, PTL

\* A second conversation is opened beside an open one only if the workers, or
\* a worker and the agent, got in each other's way.
THEOREM SecondHasCause == Spec => SecondConversationRaced
<1>1. IncomingInv /\ [Next]_vars => [Len(convs') > Len(convs) /\ Open # {} => raced']_vars
  <2> SUFFICES ASSUME IncomingInv, [Next]_vars, Len(convs') > Len(convs), Open # {} PROVE raced'
    OBVIOUS
  <2>1. WorkType /\ ConvsType /\ RestType /\ RaceInv
    BY IncomingTypes DEF IncomingInv
  <2>2. Len(convs) \in Nat /\ convs \in Seq(ConvType)
    BY <2>1 DEF ConvsType
  <2>3. ASSUME NEW c, NEW e, Says(c, e) PROVE FALSE
    BY <2>2, <2>3, SaysIs
  <2>4. ASSUME NEW w \in Workers, Sync(w) PROVE raced'
    <3>1. CASE UNCHANGED convs
      BY <2>2, <3>1
    <3>2. CASE ~UNCHANGED convs
      <4>1. CreateConversation(w)
        BY <2>4, <3>2 DEF Sync, FindContact, CreateContact, FindConversation, downstream
      <4>2. at[w] = "open" /\ raced' = raced
        BY <4>1 DEF CreateConversation
      <4> QED BY <2>1, <4>2 DEF RaceInv
    <3> QED BY <3>1, <3>2
  <2>5. ASSUME NEW w \in Workers, Posts(w) PROVE FALSE
    BY <2>1, <2>3, <2>5, PostSays
  <2>6. ASSUME SameMessages PROVE FALSE
    <3>1. convs' \in Seq(ConvType) /\ DOMAIN convs' = DOMAIN convs
      BY <2>1, <2>6, NextGrows DEF Grows, ConvsType, SameMessages
    <3>2. 1 .. Len(convs') = 1 .. Len(convs) /\ Len(convs') \in Nat
      BY <2>2, <3>1
    <3>3. Len(convs') \in 1 .. Len(convs')
      BY <2>2, <3>2
    <3> QED BY <2>2, <3>2, <3>3
  <2>7. ASSUME Agent PROVE FALSE
    <3>1. Reply \in EntryType
      BY DEF Reply, EntryType, People, Kinds, Messages
    <3>2. ASSUME NEW c \in DOMAIN convs, AgentReplies(c) PROVE FALSE
      BY <2>3, <3>1, <3>2 DEF AgentReplies, Says, Reply
    <3>3. ASSUME NEW c \in DOMAIN convs, Resolve(c) \/ Reopen(c) PROVE FALSE
      BY <2>1, <2>6, <3>3, SwitchGrows DEF Resolve, Reopen
    <3>4. ASSUME NEW c \in DOMAIN convs, AgentLooks(c) PROVE FALSE
      BY <2>2, <3>4 DEF AgentLooks
    <3> QED BY <2>7, <3>2, <3>3, <3>4 DEF Agent
  <2>8. ASSUME PostMessage \/ PostNotice \/ PostImport PROVE FALSE
    <3>1. UNCHANGED convs \/ Posts("live") \/ Posts("import")
      BY <2>8 DEF PostMessage, PostNotice, PostImport, Posts
    <3> QED BY <2>2, <2>5, <3>1 DEF Workers
  <2>9. ASSUME ~(Agent \/ PostMessage \/ PostNotice \/ PostImport \/ \E w \in Workers : Sync(w))
        PROVE  UNCHANGED convs
    BY <2>9 DEF Next, vars, downstream, Receive, Import, BurstEnds, WindowElapses, ReceiveMessage, ReceiveOwn,
       ReceiveReaction, ReceiveGroupInfo, Event, ImportNext, AfterPost, MarkBotSentInGroup, ConversationUpdated
  <2> QED BY <2>2, <2>4, <2>7, <2>8, <2>9
<1> QED BY <1>1, IncomingSafe, PTL DEF Spec, SecondConversationRaced
=============================================================================
