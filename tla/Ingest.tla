------------------------------- MODULE Ingest -------------------------------
(***************************************************************************)
(* How a WhatsApp message becomes a row (backend/apps/webhooks).           *)
(*                                                                         *)
(* WAHA delivers an event to a webhook thread, perhaps more than once and  *)
(* to several threads at a time.  The thread records the event, stores the *)
(* message in one transaction, runs the conversation engine on it and      *)
(* resolves the event.  Reconciliation (module Reconcile) stores messages  *)
(* it finds in WAHA's history through the same persist_message, in other   *)
(* processes.  A transaction reads its chat first and writes it last, and  *)
(* another may commit in between.  Any thread may end between two steps:   *)
(* its process is killed, or an exception leaves the handler, the answer   *)
(* is then an error and WAHA delivers again.                               *)
(*                                                                         *)
(* An event carries the id of its message (payload.id), so one name serves *)
(* both; events of other types are taken to have ids of their own.         *)
(* Contacts, names, offices and the counter of attempts are left out; the  *)
(* conversation engine is module Handoff and one step here.                *)
(***************************************************************************)
EXTENDS Integers

CONSTANTS Messages,   \* WhatsApp messages, by provider_message_id
          Notices,    \* events of other types than `message`, by payload.id
          Hooks,      \* webhook threads
          Jobs,       \* processes that reconcile
          Chats,
          ChatOf, At, \* a message's chat and timestamp
          Inbound,    \* messages not sent by this account
          Broken,     \* messages parse_message refuses
          NoEvent

ASSUME IngestAssumption ==
    /\ Messages \cap Notices = {} /\ Hooks \cap Jobs = {} /\ NoEvent \notin Messages \cup Notices
    /\ ChatOf \in [Messages -> Chats]
    /\ At \in [Messages -> Nat \ {0}]
    /\ Inbound \subseteq Messages /\ Broken \subseteq Messages

VARIABLES event,     \* WebhookEvent.status, "none" without a row
          source,    \* which path stored a message, "none" without a row
          last,      \* Chat.last_message_at, 0 for null
          known,     \* chats with a row
          at,        \* position of every webhook thread and job
          engaged    \* history: how often the engine ran on a message

db == <<event, source, last, known>>
vars == <<db, at, engaged>>

-----------------------------------------------------------------------------
(* Rows and threads                                                        *)

Events == Messages \cup Notices
Writers == Hooks \cup Jobs
Status == {"none", "pending", "processed", "failed", "unsupported"}
Resolved(e) == event[e] \in {"processed", "failed", "unsupported"}
Stored(m) == source[m] # "none"

\* saw: the last_message_at that the thread's open transaction has read.
Position == [pc : {"idle", "parse", "store", "engine", "mark"}, on : Events \cup {NoEvent}, saw : Nat]
Idle == [pc |-> "idle", on |-> NoEvent, saw |-> 0]
Busy(w) == at[w].pc # "idle"
Storing(w) == at[w].pc = "store"

Go(w, position) == at' = [at EXCEPT ![w] = position]
Step(w, pc) == Go(w, [pc |-> pc, on |-> at[w].on, saw |-> 0])
Resolve(w, status) == /\ event' = [event EXCEPT ![at[w].on] = status]
                      /\ Go(w, Idle)

Init ==
    /\ event = [e \in Events |-> "none"]
    /\ source = [m \in Messages |-> "none"]
    /\ last = [c \in Chats |-> 0]
    /\ known = {}
    /\ at = [w \in Writers |-> Idle]
    /\ engaged = [m \in Messages |-> 0]

-----------------------------------------------------------------------------
(* The webhook thread                                                      *)

\* get_or_create of the event.  A resolved one is answered at once; a pending
\* one, left by an earlier attempt or another thread's, is processed again.
Deliver(h, e) ==
    /\ ~Busy(h)
    /\ ~Resolved(e)
    /\ event' = [event EXCEPT ![e] = "pending"]
    /\ Go(h, [pc |-> "parse", on |-> e, saw |-> 0])
    /\ UNCHANGED <<source, last, known, engaged>>

\* Mutant: a status outside STATUS_CHOICES, which save() does not check.
Ignore(h) ==
    /\ at[h].pc = "parse" /\ at[h].on \in Notices
    /\ Resolve(h, "ignored")
    /\ UNCHANGED <<source, last, known, engaged>>

\* An event of another type.
Refuse(h) ==
    /\ at[h].pc = "parse" /\ at[h].on \in Notices
    /\ Resolve(h, "unsupported")
    /\ UNCHANGED <<source, last, known, engaged>>

\* MessageParsingError.
Fail(h) ==
    /\ at[h].pc = "parse" /\ at[h].on \in Broken
    /\ Resolve(h, "failed")
    /\ UNCHANGED <<source, last, known, engaged>>

-----------------------------------------------------------------------------
(* persist_message, one transaction of two steps                           *)

\* get_or_create of the chat: the insert of a new one waits for a transaction
\* that is inserting it.
ChatReadable(c) ==
    c \in known \/ \A w \in Writers : Storing(w) => ChatOf[at[w].on] # c

Read(w, m) ==
    /\ ChatReadable(ChatOf[m])
    /\ Go(w, [pc |-> "store", on |-> m, saw |-> last[ChatOf[m]]])
    /\ UNCHANGED <<db, engaged>>

OpenLive(h) ==
    /\ at[h].pc = "parse" /\ at[h].on \in Messages \ Broken
    /\ Read(h, at[h].on)

\* A run of the reconciliation found m in WAHA's history.
OpenBackfill(j, m) ==
    /\ ~Busy(j) /\ m \notin Broken
    /\ Read(j, m)

\* chat.last_message_at, if the message is later than what was read.
Bumped(w, m) ==
    IF At[m] > at[w].saw THEN [last EXCEPT ![ChatOf[m]] = At[m]] ELSE last

\* The insert and the commit.
Insert(w, m) ==
    /\ source' = [source EXCEPT ![m] = IF w \in Hooks THEN "webhook" ELSE "history"]
    /\ last' = Bumped(w, m)
    /\ known' = known \cup {ChatOf[m]}

\* A committed webhook message goes to the engine if it is inbound.
CommitLive(h) ==
    /\ Storing(h) /\ h \in Hooks /\ ~Stored(at[h].on)
    /\ Insert(h, at[h].on)
    /\ Step(h, IF at[h].on \in Inbound THEN "engine" ELSE "mark")
    /\ UNCHANGED <<event, engaged>>

CommitBackfill(j) ==
    /\ Storing(j) /\ j \in Jobs /\ ~Stored(at[j].on)
    /\ Insert(j, at[j].on)
    /\ Go(j, Idle)
    /\ UNCHANGED <<event, engaged>>

\* Mutant: the message that exists is fetched and processed.
DuplicateEngages(h) ==
    /\ Storing(h) /\ h \in Hooks /\ Stored(at[h].on)
    /\ Step(h, IF at[h].on \in Inbound THEN "engine" ELSE "mark")
    /\ UNCHANGED <<db, engaged>>

\* Mutant: a repeated message counts as activity of its chat.
DuplicateBumps(h) ==
    /\ Storing(h) /\ h \in Hooks /\ Stored(at[h].on)
    /\ last' = [last EXCEPT ![ChatOf[at[h].on]] = At[at[h].on]]
    /\ Step(h, "mark")
    /\ UNCHANGED <<event, source, known, engaged>>

\* IntegrityError, DuplicateMessage: everything is rolled back.
DuplicateLive(h) ==
    /\ Storing(h) /\ h \in Hooks /\ Stored(at[h].on)
    /\ Step(h, "mark")
    /\ UNCHANGED <<db, engaged>>

DuplicateBackfill(j) ==
    /\ Storing(j) /\ j \in Jobs /\ Stored(at[j].on)
    /\ Go(j, Idle)
    /\ UNCHANGED <<db, engaged>>

-----------------------------------------------------------------------------
(* After the transaction                                                   *)

\* handle_conversation_message
Engage(h) ==
    /\ at[h].pc = "engine"
    /\ engaged' = [engaged EXCEPT ![at[h].on] = @ + 1]
    /\ Step(h, "mark")
    /\ UNCHANGED db

Mark(h) ==
    /\ at[h].pc = "mark"
    /\ Resolve(h, "processed")
    /\ UNCHANGED <<source, last, known, engaged>>

\* The thread ends between two steps; an open transaction is rolled back.
Die(w) ==
    /\ Busy(w)
    /\ Go(w, Idle)
    /\ UNCHANGED <<db, engaged>>

Attempt(h) == Refuse(h) \/ Fail(h) \/ OpenLive(h) \/ CommitLive(h) \/ DuplicateLive(h) \/ Engage(h) \/ Mark(h)

Next ==
    \/ \E h \in Hooks : Attempt(h) \/ \E e \in Events : Deliver(h, e)
    \/ \E j \in Jobs : CommitBackfill(j) \/ DuplicateBackfill(j) \/ \E m \in Messages : OpenBackfill(j, m)
    \/ \E w \in Writers : Die(w)

Spec == Init /\ [][Next]_vars

-----------------------------------------------------------------------------
(* Properties                                                              *)

TypeOK ==
    /\ event \in [Events -> Status]
    /\ source \in [Messages -> {"none", "webhook", "history"}]
    /\ last \in [Chats -> Nat]
    /\ known \subseteq Chats
    /\ at \in [Writers -> Position]
    /\ engaged \in [Messages -> Nat]

\* The conversation engine answers a message at most once, however often and
\* to however many threads it is delivered, and whoever stored it.
EngagedOnce == \A m \in Messages : engaged[m] <= 1

\* What the engine answered arrived by webhook: a message that
\* reconciliation stored is never answered, not even when its webhook comes.
HistoryIsSilent == \A m \in Messages : engaged[m] > 0 => source[m] = "webhook"

\* A processed event's message is stored; a failed one's never will be, by no
\* path; and only events of other types are unsupported.
ResolutionIsRight ==
    /\ \A m \in Messages : event[m] = "processed" => Stored(m)
    /\ \A m \in Messages : event[m] = "failed" => m \in Broken /\ ~Stored(m)
    /\ \A e \in Events : event[e] = "unsupported" => e \in Notices

\* Threads that process one event at the same time, or again after a failure,
\* agree: once one has resolved it, none changes that.
ResolvedStays == [][\A e \in Events : Resolved(e) => event'[e] = event[e]]_vars

\* Chat.last_message_at is the time of a message of the chat that is stored,
\* never of one whose transaction was rolled back, and null until there is one.
ActivityIsStored ==
    \A c \in Chats :
        \/ last[c] = 0 /\ \A m \in Messages : Stored(m) => ChatOf[m] # c
        \/ \E m \in Messages : Stored(m) /\ ChatOf[m] = c /\ last[c] = At[m]

\* Threads, transactions and rows together keep the promises of Inbox: one
\* keeper, at most one answer and one verdict per message, each in one step.
Promise == INSTANCE Inbox WITH
               kept <- source,
               activity <- last,
               answered <- {m \in Messages : engaged[m] > 0},
               verdict <- [e \in Events |-> IF Resolved(e) THEN event[e] ELSE "open"]
InboxSpec == Promise!Spec

\* A processed event of an inbound message that the webhook stored has had
\* the engine run on it, or a thread is about to: webhooks/services.py:36-39.
ProcessedIsEngaged ==
    \A m \in Inbound :
        event[m] = "processed" /\ source[m] = "webhook" =>
            engaged[m] = 1 \/ \E h \in Hooks : at[h].on = m /\ at[h].pc = "engine"
=============================================================================
