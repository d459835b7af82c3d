------------------------------ MODULE Incoming ------------------------------
(***************************************************************************)
(* One WhatsApp group on its way to the downstream (internal/bridge/       *)
(* incoming.go and the import of internal/bridge/history_import.go).       *)
(*                                                                         *)
(* whatsmeow hands the events of an instance over one at a time: they are  *)
(* the worker "live".  A history sync runs in a goroutine of its own, the  *)
(* worker "import".  Both look up the contact and the conversation of the  *)
(* chat, create what is missing and post, one HTTP call after the other,   *)
(* with no lock between the calls.  The agent answers, resolves and reads  *)
(* the conversation meanwhile.                                             *)
(*                                                                         *)
(* The downstream is external: as the code's comments have it, it refuses  *)
(* a second contact with the same identifier and a second message with the *)
(* same source id (422).  A conversation is created with the identifier of *)
(* the chat as its source id: when the chat has had one, the downstream    *)
(* refuses another (client.go) or creates it; both are modelled.           *)
(***************************************************************************)
EXTENDS Integers, Sequences, FiniteSets, SequencesExt

CONSTANTS
  Senders,     \* participants of the group
  Nameless,    \* those of whom neither a phone nor a name is known
  Contents,    \* texts the owner of the phone sends
  Cap,         \* capPerKey of the waidTracker
  MaxEvents,   \* bound: events handed over live
  MaxOld,      \* bound: messages only the history sync brings
  MaxImports,  \* bound: messages of the history sync
  MaxConvs,    \* bound: conversations created
  MaxAgent,    \* bound: things the agent does
  MaxFailures  \* bound: failed calls

ASSUME IncomingAssumption ==
  /\ Cap \in Nat \ {0} /\ Nameless \subseteq Senders
  /\ {MaxEvents, MaxOld, MaxImports, MaxConvs, MaxAgent, MaxFailures} \subseteq Nat
  /\ "_bot" \notin Senders /\ "none" \notin Senders

Workers == {"live", "import"}
Owner == "_bot"
Nobody == "none"
Old == (MaxEvents + 1) .. (MaxEvents + MaxOld)
Ids == 1 .. (MaxEvents + MaxOld)

Messages == {"text", "own"}
Kinds == Messages \cup {"notice"}

VARIABLES
  contact,   \* the downstream has the contact of the group
  convs,     \* its conversations, oldest first: whether open, and the messages
  agent,     \* things the agent has done
  replies,   \* replies on their way to WhatsApp
  events,    \* events handed over so far
  sent,      \* what each id was: its kind, its sender and its content
  burst,     \* groupSenderTracker: who wrote last
  recent,    \* bridge_dedup: contents of own messages within the window
  at,        \* at[w]: the call each worker is about to make
  item,      \* item[w]: the message it carries
  conv,      \* conv[w]: the conversation it found
  tries,     \* attempts of the import to post its message
  cancelled, \* the context of the import is done
  result,    \* what the import counted each message as
  waids,     \* waidTracker: messages waiting for the agent to read them, the
             \* oldest the one with the least id
  looks,     \* agent_last_seen_at of the updates on their way
  marked,    \* messages marked as read in WhatsApp
  seen,      \* history: messages the agent had on the screen
  shown,     \* history: messages in any conversation when the agent looked at one
  media,     \* history: messages that turned out to be media
  failures,
  raced,     \* history: both workers were about to create the same thing
  resolved,  \* history: the agent has resolved a conversation
  refused    \* history: who gave up which message as the chat's id was taken

downstream == <<contact, convs, agent, replies>>
worker == <<at, item, conv, tries>>
reading == <<waids, looks, marked, seen, shown, media>>
trackers == <<burst, recent>>
vars == <<downstream, events, sent, trackers, worker, cancelled, result, reading,
          failures, raced, resolved, refused>>
causes == <<resolved, refused>>

AllButOldest(queue) == {e \in queue : \E f \in queue : f.id < e.id}

NoItem == [id |-> 0, kind |-> "text", from |-> Nobody, header |-> FALSE]

Init ==
  /\ contact = FALSE /\ convs = <<>> /\ agent = 0 /\ replies = 0
  /\ events = 0
  /\ sent = [i \in Ids |-> [kind |-> "none", from |-> Nobody, content |-> Nobody]]
  /\ burst = Nobody /\ recent = {}
  /\ at = [w \in Workers |-> "idle"] /\ item = [w \in Workers |-> NoItem]
  /\ conv = [w \in Workers |-> 0] /\ tries = 0
  /\ cancelled = FALSE /\ result = [i \in Ids |-> "none"]
  /\ waids = {} /\ looks = {} /\ marked = {} /\ seen = {} /\ shown = {} /\ media = {}
  /\ failures = 0 /\ raced = FALSE /\ resolved = FALSE /\ refused = {}

Other(w) == CHOOSE o \in Workers : o # w
Open == {c \in DOMAIN convs : convs[c].open}
Posted(c) == {convs[c].msgs[i].id : i \in DOMAIN convs[c].msgs}
Delivered == UNION {Posted(c) : c \in DOMAIN convs}

Works == UNCHANGED failures
Fails == failures < MaxFailures /\ failures' = failures + 1

Succeeds == Works /\ UNCHANGED cancelled

\* A call fails by itself; one of the import also because Disconnect cancelled
\* the context of the Conn, which the import notices at its next call.
CallFails(w) ==
  \/ Fails /\ UNCHANGED cancelled
  \/ w = "import" /\ Works /\ cancelled' = TRUE

-----------------------------------------------------------------------------
(* What a worker does next *)

Goes(w, place) == at' = [at EXCEPT ![w] = place] /\ UNCHANGED <<item, conv, tries>>

\* It is done with the message.
Returns(w) ==
  /\ at' = [at EXCEPT ![w] = "idle"]
  /\ item' = [item EXCEPT ![w] = NoItem]
  /\ conv' = [conv EXCEPT ![w] = 0]
  /\ tries' = IF w = "import" THEN 0 ELSE tries

Counts(what) == result' = [result EXCEPT ![item["import"].id] = what]

Takes(w, e, place) ==
  /\ at' = [at EXCEPT ![w] = place]
  /\ item' = [item EXCEPT ![w] = e]
  /\ UNCHANGED conv

-----------------------------------------------------------------------------
(* Slips a maintainer could make, each caught by a property below.         *)

\* The tracker compares before it records, and forgets to record the owner.
BurstOfSilent(from) == IF from = Owner THEN burst ELSE from

\* The result of the search is not looked at.
NeedsConversationAlways(w) == item[w].kind \in Messages

\* Messages are drained by the second after the agent looked.
ReadByLate(cutoff) == {e \in waids : e.at <= cutoff + 1}

\* A failed look-up of the import is counted as nothing to do.
GivesUpSkipped(w) ==
  /\ Returns(w)
  /\ IF w = "import" THEN Counts("skipped") ELSE UNCHANGED result

\* The source id is made from the sender instead of the message.
DuplicateBySender(w) ==
  \E c \in DOMAIN convs : \E i \in DOMAIN convs[c].msgs : convs[c].msgs[i].from = item[w].from

\* Only the newest message waits for the agent.
WaitsLatest(e) == {e}

\* It drops the message: nothing is tried again later.
GivesUp(w) ==
  /\ Returns(w)
  /\ IF w = "import" THEN Counts("errored") ELSE UNCHANGED result

-----------------------------------------------------------------------------
(* Handle, up to the downstream *)

\* RecordAndCheck: whoever writes is the last sender, the owner as _bot.
BurstOf(from) == from

Event(kind, from, content) ==
  /\ at["live"] = "idle" /\ events < MaxEvents
  /\ events' = events + 1
  /\ sent' = [sent EXCEPT ![events'] = [kind |-> kind, from |-> from, content |-> content]]
  /\ UNCHANGED <<downstream, tries, cancelled, result, reading, failures, raced, causes>>

\* The header names the sender by phone and name; without either there is none
\* (renderSenderHeader).
Header(from) == from \notin Nameless

\* A message of a participant, text or media: the header is left out while the
\* same one goes on writing.  The tracker is updated before anything is posted.
ReceiveMessage(from) ==
  /\ Event("text", from, Nobody)
  /\ burst' = BurstOf(from)
  /\ Takes("live", [id |-> events', kind |-> "text", from |-> from,
                    header |-> burst # from /\ Header(from)], "contact")
  /\ UNCHANGED recent

\* ShouldDrop: a content of the owner seen within the window.
SeenWithin(content) == content \in recent

\* A message the owner wrote on the phone: dropped when it is the twin of one
\* just handled.  If the table cannot be used it is handed on all the same.
ReceiveOwn(content) ==
  LET e == [id |-> events', kind |-> "own", from |-> Owner, header |-> FALSE] IN
  /\ at["live"] = "idle" /\ events < MaxEvents
  /\ events' = events + 1
  /\ sent' = [sent EXCEPT ![events'] = [kind |-> "own", from |-> Owner, content |-> content]]
  /\ burst' = BurstOf(Owner)
  /\ \/ /\ SeenWithin(content)
        /\ Works /\ UNCHANGED <<at, item, conv, recent>>
     \/ /\ ~SeenWithin(content)
        /\ Takes("live", e, "contact")
        /\ Works /\ recent' = recent \cup {content}
     \/ Takes("live", e, "contact") /\ Fails /\ UNCHANGED recent
  /\ UNCHANGED <<downstream, tries, cancelled, result, reading, raced, causes>>

\* Neither a reaction of a participant nor a change of the group is told to the
\* tracker.
Notice == [id |-> events', kind |-> "notice", from |-> Nobody, header |-> TRUE]

ReceiveReaction ==
  /\ Event("notice", Nobody, Nobody)
  /\ Takes("live", Notice, "contact")
  /\ UNCHANGED trackers

ReceiveGroupInfo ==
  /\ Event("notice", Nobody, Nobody)
  /\ Takes("live", Notice, "contact")
  /\ UNCHANGED trackers

\* The time to live of the burst, and the window of bridge_dedup, run out: it
\* matters when the next event comes.
BurstEnds ==
  /\ at["live"] = "idle" /\ burst # Nobody
  /\ burst' = Nobody
  /\ UNCHANGED <<downstream, events, sent, recent, worker, cancelled, result, reading, failures, raced, causes>>

WindowElapses ==
  /\ at["live"] = "idle" /\ recent # {}
  /\ recent' = {}
  /\ UNCHANGED <<downstream, events, sent, burst, worker, cancelled, result, reading, failures, raced, causes>>

-----------------------------------------------------------------------------
(* The history sync *)

\* The next message of the blob: one the group has had live, or an older one.
\* The header is there whatever the burst.
ImportNext(id) ==
  /\ at["import"] = "idle" /\ ~cancelled
  /\ result[id] = "none" /\ Cardinality({i \in Ids : result[i] # "none"}) < MaxImports
  /\ id \in Old \/ sent[id].kind = "text"
  /\ Takes("import", [id |-> id, kind |-> "text", from |-> sent[id].from,
                      header |-> Header(sent[id].from)], "contact")
  /\ tries' = 0
  /\ UNCHANGED <<downstream, events, sent, trackers, cancelled, result, reading, failures, raced, causes>>

-----------------------------------------------------------------------------
(* sync and postHistoryMsg: one action per call to the downstream *)

here == <<events, sent, trackers, reading, resolved>>

\* Reactions and group events do not create anything.  The look-up fails too
\* when the import has to create the contact and the inbox is not resolved.
FindContact(w) ==
  /\ at[w] = "contact"
  /\ \/ /\ Succeeds /\ contact
        /\ Goes(w, "conv") /\ UNCHANGED <<result, raced>>
     \/ /\ Succeeds /\ ~contact /\ item[w].kind \in Messages
        /\ Goes(w, "create") /\ raced' = (raced \/ at[Other(w)] = "create") /\ UNCHANGED result
     \/ /\ Succeeds /\ ~contact /\ item[w].kind \notin Messages
        /\ GivesUp(w) /\ UNCHANGED raced
     \/ CallFails(w) /\ GivesUp(w) /\ UNCHANGED raced
  /\ UNCHANGED <<downstream, here, refused>>

CreateContact(w) ==
  /\ at[w] = "create"
  /\ \/ Succeeds /\ ~contact /\ contact' = TRUE /\ Goes(w, "conv") /\ UNCHANGED result
     \/ Succeeds /\ contact /\ GivesUp(w) /\ UNCHANGED contact
     \/ CallFails(w) /\ GivesUp(w) /\ contact' \in {contact, TRUE}
  /\ UNCHANGED <<convs, agent, replies, here, raced, refused>>

NeedsConversation(w) == Open = {} /\ item[w].kind \in Messages

\* The most recent open conversation of the inbox.
FindConversation(w) ==
  /\ at[w] = "conv"
  /\ \/ /\ Succeeds /\ NeedsConversation(w)
        /\ Goes(w, "open") /\ raced' = (raced \/ at[Other(w)] = "open") /\ UNCHANGED result
     \/ /\ Succeeds /\ ~NeedsConversation(w)
        /\ at' = [at EXCEPT ![w] = "post"]
        /\ \E c \in Open : (\A d \in Open : d <= c) /\ conv' = [conv EXCEPT ![w] = c]
        /\ UNCHANGED <<item, tries, result, raced>>
     \/ /\ Succeeds /\ Open = {} /\ item[w].kind \notin Messages
        /\ GivesUp(w) /\ UNCHANGED raced
     \/ CallFails(w) /\ GivesUp(w) /\ UNCHANGED raced
  /\ UNCHANGED <<downstream, here, refused>>

NewConversation == Len(convs) < MaxConvs /\ convs' = Append(convs, [open |-> TRUE, msgs |-> <<>>])

\* The source id is the identifier of the chat, the same for each conversation
\* of it: nobody recovers from the refusal, the message is given up.
CreateConversation(w) ==
  /\ at[w] = "open"
  /\ \/ /\ Succeeds /\ NewConversation
        /\ at' = [at EXCEPT ![w] = "post"]
        /\ conv' = [conv EXCEPT ![w] = Len(convs')]
        /\ UNCHANGED <<item, tries, result, refused>>
     \/ /\ Succeeds /\ convs # <<>>
        /\ refused' = refused \cup {<<w, item[w].id>>}
        /\ GivesUp(w) /\ UNCHANGED convs
     \/ CallFails(w) /\ GivesUp(w) /\ (NewConversation \/ UNCHANGED convs) /\ UNCHANGED refused
  /\ UNCHANGED <<contact, agent, replies, here, raced>>

Appended(c, e) == [convs EXCEPT ![c].msgs = Append(@, e)]
Entry(w) == [id |-> item[w].id, from |-> item[w].from, by |-> w, kind |-> item[w].kind,
             header |-> item[w].header]

\* The source id of the message is there already.
Duplicate(w) == item[w].id \in Delivered

\* The live worker posts once.  A media whose download failed goes as text.
PostMessage ==
  /\ at["live"] = "post" /\ item["live"].kind \in Messages
  /\ \/ Succeeds /\ ~Duplicate("live") /\ convs' = Appended(conv["live"], Entry("live")) /\ Goes("live", "after")
     \/ Succeeds /\ Duplicate("live") /\ UNCHANGED convs /\ Returns("live")
     \/ /\ Fails /\ UNCHANGED cancelled /\ Returns("live")
        /\ \/ UNCHANGED convs
           \/ ~Duplicate("live") /\ convs' = Appended(conv["live"], Entry("live"))
  /\ UNCHANGED <<contact, agent, replies, here, result, raced, refused>>

\* Of a reaction or a change of the group nothing is remembered.
PostNotice ==
  /\ at["live"] = "post" /\ item["live"].kind = "notice"
  /\ \/ Succeeds /\ convs' = Appended(conv["live"], Entry("live"))
     \/ Fails /\ UNCHANGED cancelled /\ convs' \in {convs, Appended(conv["live"], Entry("live"))}
  /\ Returns("live")
  /\ UNCHANGED <<contact, agent, replies, here, result, raced, refused>>

\* The import tries three times, unless the answer is a 4xx or its context is
\* done.  An error is taken for a message imported before when "422" is in its
\* text: in the answer to a duplicate, and by chance in that of any call that
\* fails, whose text holds the path (conversation 1422).
PostImport ==
  /\ at["import"] = "post"
  /\ \/ Succeeds /\ ~Duplicate("import") /\ convs' = Appended(conv["import"], Entry("import")) /\ Counts("posted") /\ Returns("import")
     \/ Succeeds /\ Duplicate("import") /\ UNCHANGED convs /\ Counts("skipped") /\ Returns("import")
     \/ /\ CallFails("import")
        /\ \/ UNCHANGED convs
           \/ ~Duplicate("import") /\ convs' = Appended(conv["import"], Entry("import"))
        /\ \/ GivesUp("import")
           \/ Counts("skipped") /\ Returns("import")
           \/ tries < 2 /\ ~cancelled' /\ tries' = tries + 1 /\ UNCHANGED <<at, item, conv, result>>
  /\ UNCHANGED <<contact, agent, replies, here, raced, refused>>

-----------------------------------------------------------------------------
(* Mark as read *)

Waits(e) == waids \cup {e}
Kept(queue) == IF Cardinality(queue) > Cap THEN AllButOldest(queue) ELSE queue

\* The POST came back.  Only then is a message of a participant remembered,
\* and only a text: sync returns before for media, which differs nowhere else.
AfterPost ==
  /\ at["live"] = "after"
  /\ \/ /\ item["live"].kind = "text"
        /\ waids' = Kept(Waits([id |-> item["live"].id, at |-> agent]))
        /\ UNCHANGED media
     \/ /\ item["live"].kind = "text"
        /\ media' = media \cup {item["live"].id}
        /\ UNCHANGED waids
     \/ item["live"].kind # "text" /\ UNCHANGED <<waids, media>>
  /\ Returns("live")
  /\ UNCHANGED <<downstream, events, sent, trackers, cancelled, result, looks, marked, seen, shown, failures, raced, causes>>

ReadBy(cutoff) == {e \in waids : e.at <= cutoff}

\* conversation_updated: what was there when the agent looked is taken out and
\* marked in the background; if that fails it is not marked at all.
ConversationUpdated(cutoff) ==
  LET read == ReadBy(cutoff) IN
  /\ cutoff \in looks /\ looks' = looks \ {cutoff}
  /\ waids' = waids \ read
  /\ \/ Works /\ marked' = marked \cup {e.id : e \in read}
     \/ Fails /\ UNCHANGED marked
  /\ UNCHANGED <<downstream, events, sent, trackers, worker, cancelled, result, seen, shown, media, raced, causes>>

-----------------------------------------------------------------------------
(* The agent *)

Acts == agent < MaxAgent /\ agent' = agent + 1

\* agent_last_seen_at is in seconds: the moment itself, or a little before.
\* The agent has one conversation on the screen; what is drained afterwards is
\* all that waits for the chat, as the tracker knows no conversations.
AgentLooks(c) ==
  /\ Acts
  /\ seen' = seen \cup Posted(c) /\ shown' = shown \cup Delivered
  /\ \E cutoff \in {agent, agent - 1} : looks' = looks \cup {cutoff}
  /\ UNCHANGED <<contact, convs, replies, events, sent, trackers, worker, cancelled, result, waids, marked, media, failures, raced, causes>>

\* The reply is in the conversation first, then sent, then MarkBotSentInGroup.
AgentReplies(c) ==
  /\ Acts /\ c \in Open
  /\ convs' = Appended(c, [id |-> 0, from |-> Owner, by |-> "agent", kind |-> "own", header |-> FALSE])
  /\ replies' = replies + 1
  /\ UNCHANGED <<contact, events, sent, trackers, worker, cancelled, result, reading, failures, raced, causes>>

MarkBotSentInGroup ==
  /\ replies > 0 /\ replies' = replies - 1
  /\ burst' = BurstOf(Owner)
  /\ UNCHANGED <<contact, convs, agent, events, sent, recent, worker, cancelled, result, reading, failures, raced, causes>>

Resolve(c) ==
  /\ Acts /\ c \in Open
  /\ convs' = [convs EXCEPT ![c].open = FALSE]
  /\ resolved' = TRUE
  /\ UNCHANGED <<contact, replies, events, sent, trackers, worker, cancelled, result, reading, failures, raced, refused>>

Reopen(c) ==
  /\ Acts /\ c \in DOMAIN convs \ Open
  /\ convs' = [convs EXCEPT ![c].open = TRUE]
  /\ raced' = (raced \/ \E w \in Workers : at[w] = "open")
  /\ UNCHANGED <<contact, replies, events, sent, trackers, worker, cancelled, result, reading, failures, causes>>

-----------------------------------------------------------------------------
Receive ==
  \/ \E from \in Senders : ReceiveMessage(from)
  \/ \E content \in Contents : ReceiveOwn(content)
  \/ ReceiveReaction \/ ReceiveGroupInfo

Import == \E id \in Ids : ImportNext(id)

Sync(w) == FindContact(w) \/ CreateContact(w) \/ FindConversation(w) \/ CreateConversation(w)

Agent ==
  \/ \E c \in DOMAIN convs : AgentLooks(c) \/ AgentReplies(c) \/ Resolve(c) \/ Reopen(c)

Next ==
  \/ Receive \/ BurstEnds \/ WindowElapses
  \/ Import
  \/ \E w \in Workers : Sync(w)
  \/ PostMessage \/ PostNotice \/ PostImport \/ AfterPost
  \/ Agent \/ MarkBotSentInGroup
  \/ \E cutoff \in looks : ConversationUpdated(cutoff)

Spec == Init /\ [][Next]_vars

-----------------------------------------------------------------------------
(* Properties *)

Places == {"idle", "contact", "create", "conv", "open", "post", "after"}
People == Senders \cup {Owner, Nobody}
SentType == [kind : Kinds \cup {"none"}, from : People, content : Contents \cup {Nobody}]
ItemType == [id : Ids \cup {0}, kind : Kinds, from : People, header : BOOLEAN]
EntryType == [id : Ids \cup {0}, from : People, by : Workers \cup {"agent"}, kind : Kinds,
              header : BOOLEAN]

\* Every variable keeps its type; who is at work has a message, who posts a
\* conversation, and the tracker of ids keeps within its cap.
IncomingTypeOK ==
  /\ contact \in BOOLEAN /\ agent \in 0 .. MaxAgent /\ replies \in 0 .. agent
  /\ convs \in Seq([open : BOOLEAN, msgs : Seq(EntryType)]) /\ Len(convs) <= MaxConvs
  /\ events \in 0 .. MaxEvents /\ sent \in [Ids -> SentType]
  /\ burst \in People /\ recent \subseteq Contents
  /\ at \in [Workers -> Places] /\ item \in [Workers -> ItemType]
  /\ conv \in [Workers -> 0 .. MaxConvs] /\ tries \in 0 .. 2
  /\ \A w \in Workers : at[w] # "idle" => item[w].id \in Ids
  /\ \A w \in Workers : at[w] = "post" => conv[w] \in DOMAIN convs
  /\ result \in [Ids -> {"none", "posted", "skipped", "errored"}]
  /\ waids \subseteq [id : Ids, at : 0 .. MaxAgent] /\ Cardinality(waids) <= Cap
  /\ looks \subseteq -1 .. MaxAgent
  /\ marked \subseteq Ids /\ seen \subseteq shown /\ shown \subseteq Ids \cup {0} /\ media \subseteq Ids
  /\ failures \in 0 .. MaxFailures
  /\ raced \in BOOLEAN /\ cancelled \in BOOLEAN
  /\ resolved \in BOOLEAN /\ refused \subseteq Workers \X Ids

Calm == failures = 0 /\ ~raced
Handled == {i \in 1 .. events : at["live"] = "idle" \/ item["live"].id # i}

GivenUp(w, i) == <<w, i>> \in refused

\* A message handed over is in the downstream, although nothing is tried
\* again: it takes a failed call, a second worker that creates the contact or
\* the conversation meanwhile, or an agent who resolved a conversation of the
\* chat, whose source id the next one would need (Handle, sync).  An own
\* message may have been dropped for one with the same content, which then is
\* there or met one of these.
LostOnlyWithCause ==
  Calm =>
    /\ \A i \in Handled :
         /\ sent[i].kind = "text" => i \in Delivered \/ GivenUp("live", i)
         /\ sent[i].kind = "own" =>
              \E j \in 1 .. i : /\ sent[j].kind = "own" /\ sent[j].content = sent[i].content
                               /\ (j \in Delivered \/ GivenUp("live", j))
    /\ refused # {} => resolved

\* A second conversation is opened beside an open one only if two parties got
\* in each other's way between the look-up and the creation.
SecondConversationRaced == [][Len(convs') > Len(convs) /\ Open # {} => raced']_vars

\* The last message before the i-th of conversation c that came live.
IsMessage(e) == e.id \in 1 .. events /\ e.kind \in Messages
Before(c, i) == {j \in 1 .. i - 1 : IsMessage(convs[c].msgs[j])}
Previous(c, i) == convs[c].msgs[CHOOSE j \in Before(c, i) : \A k \in Before(c, i) : k <= j]
Bare(c, i) == LET e == convs[c].msgs[i] IN e.kind = "text" /\ ~e.header /\ e.from \notin Nameless

\* Among the messages that came live, one without header of a sender who has a
\* name follows one of its own sender, as long as nothing failed or was refused
\* and the chat has one conversation:
\* groupSenderTracker speaks of what was handled, not of what was posted.
BareFollowsItsSender ==
  Calm /\ refused = {} /\ Len(convs) <= 1 =>
    \A c \in DOMAIN convs : \A i \in DOMAIN convs[c].msgs :
      Bare(c, i) => /\ Before(c, i) # {}
                    /\ Previous(c, i).from = convs[c].msgs[i].from

\* What the sender sees as read was in the downstream when the agent looked at a
\* conversation of the chat (DrainBefore): it is remembered after its POST, and
\* drained by its time.  As long as the chat has one conversation, the agent
\* has had it on the screen; with more, a look at one marks the others' too.
OnlyReadIsMarked ==
  /\ marked \subseteq shown
  /\ Len(convs) <= 1 => marked \subseteq seen

Texts == {i \in Handled : sent[i].kind = "text"} \ media
Waiting == {e.id : e \in waids}

\* No text is forgotten: with fewer of them than the cap, and no failure, it
\* waits for the agent or has been marked, unless the history sync had brought
\* it before (RecordIncoming, DrainBefore).
NoTextForgotten ==
  failures = 0 /\ Cardinality(Texts) <= Cap =>
    \A c \in DOMAIN convs : \A i \in DOMAIN convs[c].msgs :
      LET e == convs[c].msgs[i] IN
      e.by = "live" /\ e.id \in Texts => e.id \in Waiting \cup marked

\* The import counts honestly: what it says is posted is there, what it says was
\* there already is, unless a call failed and 422 was in the text of an error,
\* and an error has a cause (runHistoryImport, postHistoryMsg).
ImportHonest ==
  \A i \in Ids :
    /\ result[i] = "posted" => i \in Delivered
    /\ result[i] = "skipped" => i \in Delivered \/ failures > 0 \/ cancelled
    /\ result[i] = "errored" => ~Calm \/ cancelled \/ GivenUp("import", i)

=============================================================================
