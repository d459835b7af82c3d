------------------------------ MODULE OnDemand -------------------------------
(***************************************************************************)
(* History on demand (ImportHistoryOnDemand, BulkImportHistory and         *)
(* onDemandLatchSet of internal/bridge/history_import.go, the JobStore of  *)
(* internal/bridge/jobs.go, and cmd/server/routes_history.go).             *)
(*                                                                         *)
(* A caller - an HTTP request, or the background job that goes through all *)
(* contacts - asks the phone for the history of a chat and waits on a      *)
(* channel that a map keeps under the chat's name.  Answers arrive as      *)
(* history syncs, each in a goroutine of its own that looks the channel    *)
(* up, unlocks, and then sends.  Who finds no channel imports the answer   *)
(* itself.                                                                 *)
(*                                                                         *)
(* An ask <<caller, chat>> names the request, its channel and its answer:  *)
(* a request asks once, the job asks once per chat.  The phone is          *)
(* external: it answers late, or never.                                    *)
(***************************************************************************)
EXTENDS Integers, FiniteSets

CONSTANTS
  Requests,   \* HTTP requests for one chat
  Chats,      \* contacts of the inbox
  PageCap     \* bound: pages of contacts (200 in the code)

Job == "job"
None == <<"none", "none">>

ASSUME OnDemandAssumption == Job \notin Requests /\ PageCap \in Nat /\ "none" \notin Requests

Callers == Requests \cup {Job}
Asks == Callers \X Chats

VARIABLES
  at,       \* at[r]: idle, anchor, request, wait, import, done
  chat,     \* chat[r]: the chat it asks for
  latches,  \* latches[c]: the ask whose channel the map holds
  channel,  \* channel[a]: the answer in the channel of ask a (capacity 1)
  phone,    \* requests the phone has
  answers,  \* answers[a]: none, arrived, found (a channel), inline, given, done
  target,   \* target[a]: the channel the goroutine of the answer found
  taken,    \* taken[r]: the answer it received
  reply,    \* reply[a]: none, imported, noAnchor, error, timeout
  imports,  \* history: imports[a]: times the answer was imported
  shared,   \* history: callers that had their chat together with another
  late,     \* history: answers put in a channel nobody waited on any more
  job,      \* its status in the JobStore, and none, purged
  page,     \* pages of contacts it has listed
  todo,     \* contacts of the page it has not come to
  counted   \* counted[c]: what the result counts the contact as, or none

caller == <<at, chat, taken, reply>>
latching == <<latches, channel>>
answering == <<phone, answers, target>>
history == <<imports, shared, late>>
bulk == <<job, page, todo, counted>>
vars == <<caller, latching, answering, history, bulk>>

Asking == {"anchor", "request", "wait", "import"}
Ask(r) == <<r, chat[r]>>
Others(r, c) == {o \in Callers \ {r} : at[o] \in Asking /\ chat[o] = c}
Waits(a) == at[a[1]] = "wait" /\ chat[a[1]] = a[2]

Init ==
  /\ at = [r \in Callers |-> "idle"] /\ chat = [r \in Callers |-> "none"]
  /\ latches = [c \in Chats |-> None] /\ channel = [a \in Asks |-> None]
  /\ phone = {} /\ answers = [a \in Asks |-> "none"] /\ target = [a \in Asks |-> None]
  /\ taken = [r \in Callers |-> None] /\ reply = [a \in Asks |-> "none"]
  /\ imports = [a \in Asks |-> 0] /\ shared = {} /\ late = {}
  /\ job = "none" /\ page = 0 /\ todo = {} /\ counted = [c \in Chats |-> "none"]

-----------------------------------------------------------------------------
(* The map of latches *)

\* A new channel takes the place of the one the map may have had.
Acquire(r, c) == latches' = [latches EXCEPT ![c] = <<r, c>>]

\* Deferred: whatever the map holds for the chat goes, on every return.
Release(c) == latches' = [latches EXCEPT ![c] = None]

-----------------------------------------------------------------------------
(* A caller: ImportHistoryOnDemand *)

Begin(r, c) ==
  /\ at' = [at EXCEPT ![r] = "anchor"] /\ chat' = [chat EXCEPT ![r] = c]
  /\ Acquire(r, c)
  /\ shared' = IF Others(r, c) = {} THEN shared \ {r} ELSE shared \cup {r} \cup Others(r, c)
  /\ UNCHANGED <<channel, answering, taken, reply, imports, late>>

\* What the job makes of an outcome; the error "no message anchor" is no error.
CountOf(outcome) ==
  CASE outcome = "imported" -> "imported"
    [] outcome = "noAnchor" -> "noAnchor"
    [] OTHER -> "errors"

Return(r, outcome) ==
  /\ at' = [at EXCEPT ![r] = IF r = Job THEN "idle" ELSE "done"]
  /\ reply' = [reply EXCEPT ![Ask(r)] = outcome]
  /\ counted' = IF r = Job THEN [counted EXCEPT ![chat[r]] = CountOf(outcome)] ELSE counted
  /\ Release(chat[r])
  /\ UNCHANGED <<chat, shared, late, job, page, todo>>

Receives(r, c) == r \in Requests /\ at[r] = "idle" /\ Begin(r, c) /\ UNCHANGED bulk

\* chatAnchor.Find, then msgHistory.FindLastForChat.
ResolveAnchor(r) ==
  /\ at[r] = "anchor"
  /\ \/ /\ at' = [at EXCEPT ![r] = "request"]
        /\ UNCHANGED <<chat, reply, latches, shared, late, bulk>>
     \/ Return(r, "noAnchor")
  /\ UNCHANGED <<channel, answering, taken, imports>>

RequestHistory(r) ==
  /\ at[r] = "request"
  /\ \/ /\ at' = [at EXCEPT ![r] = "wait"] /\ phone' = phone \cup {Ask(r)}
        /\ UNCHANGED <<chat, reply, latches, shared, late, bulk>>
     \/ Return(r, "error") /\ UNCHANGED phone
  /\ UNCHANGED <<channel, answers, target, taken, imports>>

ReceiveAnswer(r) ==
  /\ at[r] = "wait" /\ channel[Ask(r)] # None
  /\ taken' = [taken EXCEPT ![r] = channel[Ask(r)]]
  /\ channel' = [channel EXCEPT ![Ask(r)] = None]
  /\ at' = [at EXCEPT ![r] = "import"]
  /\ UNCHANGED <<chat, reply, latches, answering, history, bulk>>

\* The latch stays in the map until the import has ended.
ImportAnswer(r) ==
  /\ at[r] = "import"
  /\ imports' = [imports EXCEPT ![taken[r]] = @ + 1]
  /\ Return(r, "imported")
  /\ UNCHANGED <<channel, answering, taken>>

\* The timeout, for which zero and less mean thirty seconds; or the client of
\* an HTTP request has gone.  With an answer in the channel, either is picked.
TimeoutWithoutDefault(r) == FALSE
Timeout(r) ==
  /\ at[r] = "wait"
  /\ Return(r, "timeout")
  /\ UNCHANGED <<channel, answering, taken, imports>>

-----------------------------------------------------------------------------
(* Answers: HandleHistorySync and notify *)

PhoneAnswers(a) ==
  /\ a \in phone
  /\ phone' = phone \ {a}
  /\ answers' = [answers EXCEPT ![a] = "arrived"]
  /\ UNCHANGED <<caller, latching, target, history, bulk>>

\* One may think that a channel serves one answer and goes when it is found.
LookUpTakes(a) ==
  /\ answers[a] = "arrived"
  /\ target' = [target EXCEPT ![a] = latches[a[2]]]
  /\ answers' = [answers EXCEPT ![a] = IF latches[a[2]] = None THEN "inline" ELSE "found"]
  /\ latches' = [latches EXCEPT ![a[2]] = None]
  /\ UNCHANGED <<caller, channel, phone, history, bulk>>

LookUp(a) ==
  /\ answers[a] = "arrived"
  /\ target' = [target EXCEPT ![a] = latches[a[2]]]
  /\ answers' = [answers EXCEPT ![a] = IF latches[a[2]] = None THEN "inline" ELSE "found"]
  /\ UNCHANGED <<caller, latching, phone, history, bulk>>

\* select with default: a full channel refuses the answer.
FullDrops(a) == "given"
Full(a) == "inline"

Send(a) ==
  /\ answers[a] = "found"
  /\ IF channel[target[a]] = None
       THEN /\ channel' = [channel EXCEPT ![target[a]] = a]
            /\ answers' = [answers EXCEPT ![a] = "given"]
            /\ late' = IF Waits(target[a]) THEN late ELSE late \cup {a}
       ELSE /\ answers' = [answers EXCEPT ![a] = Full(a)]
            /\ UNCHANGED <<channel, late>>
  /\ UNCHANGED <<caller, latches, phone, target, imports, shared, bulk>>

ImportInline(a) ==
  /\ answers[a] = "inline"
  /\ answers' = [answers EXCEPT ![a] = "done"]
  /\ imports' = [imports EXCEPT ![a] = @ + 1]
  /\ UNCHANGED <<caller, latching, phone, target, shared, late, bulk>>

-----------------------------------------------------------------------------
(* The job: RunAsync and BulkImportHistory *)

JobCreate ==
  /\ job = "none" /\ job' = "pending"
  /\ UNCHANGED <<caller, latching, answering, history, page, todo, counted>>

JobStart ==
  /\ job = "pending" /\ job' = "running"
  /\ UNCHANGED <<caller, latching, answering, history, page, todo, counted>>

FreeAlways == TRUE
Free == at[Job] = "idle"

MorePages == page < PageCap

Uncounted == {c \in Chats : counted[c] = "none"}

\* Another page of contacts, as long as there are more and up to the cap.
JobList ==
  /\ job = "running" /\ Free /\ todo = {} /\ MorePages
  /\ page' = page + 1
  /\ todo' \in SUBSET Uncounted
  /\ UNCHANGED <<caller, latching, answering, history, job, counted>>

JobListFails ==
  /\ job = "running" /\ Free /\ todo = {} /\ MorePages
  /\ job' = "failed"
  /\ UNCHANGED <<caller, latching, answering, history, page, todo, counted>>

\* The identifier of a contact may be no chat.
JobSkips(c) ==
  /\ job = "running" /\ Free /\ c \in todo
  /\ todo' = todo \ {c} /\ counted' = [counted EXCEPT ![c] = "skipped"]
  /\ UNCHANGED <<caller, latching, answering, history, job, page>>

JobAsks(c) ==
  /\ job = "running" /\ Free /\ c \in todo
  /\ todo' = todo \ {c}
  /\ Begin(Job, c)
  /\ UNCHANGED <<job, page, counted>>

JobCompletes ==
  /\ job = "running" /\ Free /\ todo = {} /\ page > 0
  /\ job' = "completed"
  /\ UNCHANGED <<caller, latching, answering, history, page, todo, counted>>

\* cleanupLoop: a day after its end.
JobPurged ==
  /\ job \in {"completed", "failed"} /\ job' = "purged"
  /\ UNCHANGED <<caller, latching, answering, history, page, todo, counted>>

-----------------------------------------------------------------------------
Call(r) == ResolveAnchor(r) \/ RequestHistory(r) \/ ReceiveAnswer(r) \/ ImportAnswer(r) \/ Timeout(r)

Handle(a) == LookUp(a) \/ Send(a) \/ ImportInline(a)

JobStep == JobStart \/ JobList \/ JobListFails \/ JobCompletes \/ \E c \in Chats : JobSkips(c) \/ JobAsks(c)

Next ==
  \/ \E r \in Requests, c \in Chats : Receives(r, c)
  \/ \E r \in Callers : Call(r)
  \/ \E a \in Asks : PhoneAnswers(a) \/ Handle(a)
  \/ JobCreate \/ JobStep \/ JobPurged

Spec == Init /\ [][Next]_vars

\* Goroutines run and timers fire; nobody has to ask and the phone need not answer.
Fairness == WF_vars(JobStep) /\ \A r \in Callers : WF_vars(Call(r))
FairSpec == Spec /\ Fairness

-----------------------------------------------------------------------------
(* Properties *)

Outcomes == {"none", "imported", "noAnchor", "error", "timeout"}

\* Every variable keeps its type, and the job stops at the cap of pages.
OnDemandTypeOK ==
  /\ at \in [Callers -> Asking \cup {"idle", "done"}]
  /\ chat \in [Callers -> Chats \cup {"none"}]
  /\ latches \in [Chats -> Asks \cup {None}] /\ channel \in [Asks -> Asks \cup {None}]
  /\ phone \subseteq Asks /\ target \in [Asks -> Asks \cup {None}]
  /\ answers \in [Asks -> {"none", "arrived", "found", "inline", "given", "done"}]
  /\ taken \in [Callers -> Asks \cup {None}] /\ reply \in [Asks -> Outcomes]
  /\ imports \in [Asks -> Nat] /\ shared \subseteq Callers /\ late \subseteq Asks
  /\ job \in {"none", "pending", "running", "completed", "failed", "purged"}
  /\ page \in 0 .. PageCap /\ todo \subseteq Chats
  /\ counted \in [Chats -> {"none", "skipped", "imported", "noAnchor", "errors"}]

\* A channel in the map belongs to a caller that is asking for that chat now:
\* every return takes it out (acquire, release).
LatchHasOwner ==
  \A c \in Chats : latches[c] # None =>
    LET r == latches[c][1] IN at[r] \in Asking /\ chat[r] = c

\* A caller whose chat nobody else asks for meanwhile is found by its answer,
\* until it returns; one that shares it may be cut off by the other's acquire
\* or release (onDemandLatchSet).
AloneIsReachable ==
  \A r \in Callers : at[r] \in Asking /\ r \notin shared => latches[chat[r]] = Ask(r)

InChannel(a) == \E b \in Asks : Waits(b) /\ channel[b] = a
Importing(a) == \E r \in Callers : at[r] = "import" /\ taken[r] = a

\* An answer that was handed over is imported, once, unless its caller gave up
\* or had stopped waiting when it came (notify).
AnswerNotLost ==
  \A a \in Asks :
    /\ imports[a] <= 1
    /\ answers[a] = "given" =>
         \/ imports[a] = 1 \/ InChannel(a) \/ Importing(a)
         \/ a \in late \/ reply[target[a]] = "timeout"

\* A completed job has nothing of its own left in the map and counts every
\* contact it asked for; a chat counts as imported when the answer to its own
\* request was, unless somebody else had asked for it (BulkImportHistory).
JobHonest ==
  job = "completed" =>
    /\ \A c \in Chats : latches[c] # <<Job, c>>
    /\ \A c \in Chats : <<Job, c>> \in phone \/ imports[<<Job, c>>] > 0 => counted[c] # "none"
    /\ \A c \in Chats : counted[c] = "imported" =>
         imports[<<Job, c>>] = 1 \/ \E r \in Requests : chat[r] = c

\* Every call comes back, and the job ends in one way or the other, however
\* little the phone answers: no wait is without a timeout
\* (ImportHistoryOnDemand, BulkImportHistory).
EverythingReturns ==
  /\ \A r \in Callers : (at[r] = "anchor") ~> (at[r] \notin Asking)
  /\ (job = "pending") ~> (job \in {"completed", "failed"})

=============================================================================
