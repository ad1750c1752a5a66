# Wamora in TLA+

Wamora is a WhatsApp dashboard: a Django backend with Celery workers keeps all
durable state, a Node BFF is the only caller of WAHA (the WhatsApp gateway), and
a React frontend talks to both. This directory holds TLA+ modules translated
from the backend's and the BFF's code, TLC configurations that check them on
small instances, and theorems about them that TLAPS checks for every value of
their constants.

`PROJECT.json` is the index: components, runs, mutants, the source lines of
every definition (`map`), disagreements between code and comments (`findings`),
hazards, and theorems.

| Component | Modules | State |
|---|---|---|
| Blast campaigns | `Blast`, `BlastContract`, `MCBlast`, `BlastProofs` | modelled, checked, proved |
| Conversation and operator handoff | `Handoff`, `Conversation`, `MCHandoff`, `HandoffProofs` | modelled, checked, proved |
| Webhook ingestion | `Ingest`, `Inbox`, `MCIngest`, `IngestProofs` | modelled, checked, proved |
| Reconciliation with WAHA's history | `Reconcile`, `MCReconcile`, `ReconcileProofs` | modelled, checked, proved |
| The BFF: sending under a key, lifecycle actions | `Bff`, `MCBff`, `BffProofs` | modelled, checked, proved |
| Accounts, roles, memberships, tokens | `Access`, `MCAccess`, `AccessProofs` | modelled, checked, proved |
| The bot's menus and their administration | `Bot`, `Conversation`, `MCBot`, `BotProofs` | modelled, checked, proved |

To check: `tlc -config blast_dispatch.cfg MCBlast` (likewise for the other
configurations, each with the MC module of its prefix), and `tlapm` on each
`*Proofs.tla`.

---

## 1. Inventory

Paths are relative to the repository. Two facts hold everywhere. The backend runs
in autocommit (`ATOMIC_REQUESTS` is not set), so outside the few
`transaction.atomic()` blocks every statement commits alone and another process
may act between any two. And a Celery message is acknowledged when its task
starts (`acks_late` is not set), so a task that is killed is not run again, while
one that waits longer than the broker's visibility timeout is delivered twice.

### 1.1 Blast campaigns (`backend/apps/blast`)

- *State*: `BlastCampaign.status` and `approved_by`, `BlastRecipient.status`, one
  `OutboundOperation` per recipient, the Celery queue.
- *Operations*: create, submit, approve, reject; the task that schedules a
  campaign; the task that dispatches one recipient (claim, check the number,
  register, send through the BFF, record twice, finalize); the manual resolution
  of a recipient stuck in `sending`; the daily budget.
- *Interactions*: views enqueue tasks; tasks call the BFF's `/blast/send`, which
  calls WAHA; the dispatch writes the same `OutboundOperation` table the BFF uses
  for 1:1 messages; both dispatch and resolution finalize the campaign.
- *Hard*: duplicated tasks, killed workers, lost answers, an administrator
  resolving a recipient whose dispatch is still running, two last recipients
  finishing together, statuses read one statement before the campaign closes.
- *Correct when*: nobody is messaged twice; a closed campaign has only settled
  recipients; the two tables agree; an approved campaign is closed in the end; a
  campaign follows its transition table and needs a second person's approval.

### 1.2 Conversation and operator handoff (`backend/apps/chats`)

- *State*: `Chat.office`, `Chat.assigned_to`, `Chat.last_message_at`, the
  `ConversationSession` rows of the chat (a partial unique index allows one live
  one), `Message.office`.
- *Operations*: an inbound message runs the engine (start, restart by trigger,
  menu item, Office selector, handoff); operators claim, assign, unassign, close
  and transfer; the internal endpoint selects an Office; a periodic task ends
  handoffs that went quiet; deleting a menu clears the position of conversations.
- *Interactions*: webhook threads, operator requests and the Celery task write
  the same rows, each by primary key with values decided when it read them.
- *Hard*: stale reads and blind writes; routing written in two statements; rounds
  that leave their Office and assignee behind; messages that are filed under the
  Office that some earlier statement read.
- *Correct when*: one session is live; a handoff ends only by a close or the
  expiry, and does end; nobody takes a chat from the operator who holds it; only
  the Office that owns the chat acts on it; an Office never sees what the citizen
  wrote to the bot or to another Office.

### 1.3 Webhook ingestion (`backend/apps/webhooks`)

- *State*: `WebhookEvent` (unique per session and provider event id; pending,
  processed, failed, unsupported), `Chat`, `Contact`, `Message` (unique per
  session and provider message id).
- *Operations*: record the event, store the message in one transaction, run the
  engine, mark the event.
- *Hard*: duplicate and retried deliveries, a death between storing and
  answering, reconciliation storing the message first.
- *Correct when*: a message is stored once; an event ends in the state that fits
  what happened; a live message is answered at most once.

### 1.4 Reconciliation (`backend/apps/sync`)

- *State*: `SyncCheckpoint` per session (status, watermark, last run and error).
- *Operations*: full and targeted runs over WAHA's paged history, started by
  beat, by the BFF after a send, by a dispatch, or by hand; retries of the task;
  manual recovery of a checkpoint that looks stuck.
- *Hard*: overlapping runs that share one row, pages that shift while they are
  read, a page budget, the watermark as the point where reading stops, a worker
  killed while `running`.
- *Correct when*: a run passes over no message of its window; recent messages are
  stored in the end; the watermark is the time of a stored message; `running` has
  a run behind it and ends; a recovery fails no run that is at work.

### 1.5 Outbound operations (`bff/src/routes/messages.ts`, `backend/apps/operations`)

- *State*: `OutboundOperation` (unique per session and idempotency key), the
  message at WAHA.
- *Operations*: register, send, resolve, then trigger reconciliation; the client
  repeats the call with the same key.
- *Hard*: lost answers at each of the three calls, a BFF that dies between them,
  two retries at once, late answers.
- *Correct when*: one key sends at most one message; the row says what happened;
  a key that may be retried can be.

### 1.6 BFF session control (`bff/src/routes/session.ts`, `operationLock.ts`)

- *State*: a process-local set of running actions.
- *Operations*: start, stop, restart, logout, pairing code, QR.
- *Hard*: a second click while WAHA is still working; every exit must give the
  lock back.

### 1.7 Accounts, roles, memberships and tokens (`backend/apps/offices`, `apps/authn`)

- *State*: `User.is_active`, `Role` (scopes and standing), `OfficeMembership` (one
  role and perhaps an Office), Django groups named after scopes, the tokens in
  the browsers.
- *Operations*: create and change users, change one's own profile, create, edit
  and delete roles, log in.
- *Interactions*: scopes reach groups only when a request copies them, and the
  views and the BFF only through the token of the next login; Django asks for the
  standing and the account anew each time, the BFF for the token alone.
- *Hard*: requests of several statements without a transaction, killed half-way
  or overlapping; rows saved whole as they were read; tokens that outlive what
  they were issued for.
- *Correct when*: groups follow roles; what is taken away ends with one token
  lifetime; an Office's administrator stays within the Office; a deactivated
  account stays so; a membership has an Office exactly when its role needs one.

### 1.8 Bot configuration (`backend/apps/bot`)

- *State*: `BotConfig` (per Office and one GLOBAL), `BotMenu` (a tree),
  `BotMenuItem` (of a menu; sends a text, shows a menu, completes, hands off),
  `BotTrigger`.
- *Operations*: create, change and delete each of them; the engine reads them at
  every message, each time afresh, and sends lists whose rows the citizen taps
  much later; the Office selector lists the Offices that are open at the moment.
- *Hard*: requests without a transaction that save every column of the row they
  read; a menu deleted between two reads of one message; taps on old lists; the
  number of pages falls under a page row already sent.
- *Correct when*: nothing refers to a deleted menu; an item that shows a menu has
  one; the list sent is that of the menu the session stands at; a tap gets the
  item it was made on; pages lead to Offices.

### 1.9 Dashboard, audit

Read-only views, and a table that is only added to; the audit rows of the BFF are
in `Bff`.

### 1.10 External blast API, frontend, deployment

Not modelled. `PROJECT.json` gives the reason for each.

---

## 2. Plan

1. `Blast` with `BlastContract`, `MCBlast`, `BlastProofs`. *Done.*
2. `Handoff` with `MCHandoff`, `HandoffProofs`. *Done.*
3. `Ingest` and `Reconcile`, each with its MC module and proofs. *Done.* The two
   meet in the rows they insert: `Ingest` has reconciling processes that store
   messages in its transaction, `Reconcile` has webhooks that store messages in
   one step.
4. `Bff`: the send route with its three calls and the lifecycle actions with their
   lock. *Done.*
5. `Access`: users, roles, memberships and tokens. *Done.*
6. `Bot`: the administration of menus under a citizen who walks through them. *Done.*
7. `Conversation`: what one chat promises, in two variables, implemented by
   `Handoff` (threads that overlap the expiry task) and by `Bot` (menus that
   change), which so agree on what a round is. *Done.*
8. `Inbox`: what ingestion promises about a message and its event, implemented by
   `Ingest`. *Done.*

What would come next, in this order: the composition of `Bff` and `Blast`, which
write one table under keys that must not meet; `Handoff`'s `OpenChat` to `Store` as
an implementation of the transaction of `Ingest`; memberships of `Access` that change
under the requests of `Handoff`, which takes them as constants; the send times of
two campaigns on one session.

---

## 3. Blast

### 3.1 The model

A *process* is a Django request thread or a Celery worker. It runs one handler at
a time and makes one statement or one call a step; `pc`, `job`, `todo` and `result`
are its position and local variables.

| TLA+ | Code |
|---|---|
| `camp`, `approvedBy` | `BlastCampaign.status`, `.approved_by` |
| `rcpt` | `BlastRecipient.status` |
| `op`, `today` | the recipient's `OutboundOperation.status`; the operations created this Jakarta day |
| `scheduleQ`, `dispatchQ` | messages of the two tasks in the broker |
| `CreateCampaign`, `CreateRecipients` | `BlastCampaignCreateSerializer.create`, two statements |
| `Submit`, `Reject` | compare-and-set views (one step: the write requires the status read) |
| `ApproveCheck`, `ApproveWrite`, `EnqueueSchedule` | `BlastCampaignApproveView.post` |
| `Resolve` | `BlastRecipientResolveView.post` |
| `ScheduleClaim` ... `ScheduleReturn` | `schedule_blast_campaign_task` |
| `DispatchStart` ... `RecordRecipient` | `dispatch_blast_recipient_task` |
| `FinalizeRead`, `FinalizeWrite` | `_maybe_finalize_campaign` |
| `NewDay`, `Redeliver`, `Crash` | midnight in Jakarta, the visibility timeout, a killed process |

`sends` and `accepted` record what happened outside: that WAHA was called, and
that WhatsApp took the message. `Answer` says which outcomes go with which: the
BFF reports `sent` only after WAHA said so, `unknown` when it gave up waiting, and
`failed` may hide a message that was taken.

Abstractions: one WAHA session; message texts, templates and send times are left
out; a compare-and-set on status and `updated_at` is one on the status, because a
campaign or recipient enters each status it is compared on only once; the branch
of `Register` that finds the operation already `sent` is there as in the code and
is never taken, because the claim comes first.

### 3.2 Runs

| Run | Instance | Shows |
|---|---|---|
| `blast_dispatch` | 1 campaign, 2 recipients, 2 workers, 1 request thread, 1 redelivery, 1 kill; symmetry | `TypeOK`, `AtMostOneSend`, `FinishedIsSettled`, `LedgerAgrees`, `NoLostFinalization`, `NoLostWork` |
| `blast_contract` | 2 campaigns of 2 creators with 1 recipient each, 2 request threads, 1 worker, no kill, no redelivery, fairness | `Blast` implements `BlastContract`; `ApprovedFinishes`, an approved campaign is closed in the end |

*Bounds.* Two recipients are what the finalization race needs (two last outcomes);
two workers and one redelivery what two runs of one recipient's task need; one
request thread beside them is the administrator. One kill is enough for a
property of the state it leaves: nothing resumes a killed handler. `killed` is a
history variable: at which step, and at what, processes were killed. The theorems
below have none of these bounds.

*Symmetry* is used for the safety properties of `blast_dispatch` only, over workers
and recipients, which the instance treats alike.

*Fairness* (`FairSpec`, in `blast_contract`): a worker that can take a message or
go on does eventually, request threads finish what they began, and nobody is
killed in that run (`MaxCrashes = 0`). The code justifies no more: after a kill
nothing resumes, and a campaign whose last recipient was settled just before
the kill stays `sending`. How little a kill costs is said by two safety properties
of `blast_dispatch` that are theorems too: `NoLostFinalization` (a settled campaign
has a finalizer under way unless one of its own was killed; kills elsewhere, and
the race of the last two recipients, lose none) and `LedgerAgrees` (the two tables
part only at a kill between the two writes, or where an administrator resolved the
recipient by hand; of those it says nothing, see section 10). `NoLostWork` says the same of everything
before the finalization: the schedule task of an approved campaign, the dispatch of
each pending recipient, the outcome of each claimed one are in the broker or in a
process's hands. It names what is lost: what a killed process had in hand, and
recipients inserted after their campaign was started (`late`, a history variable:
the campaign's row is committed before its recipients, so it can be approved and
scheduled in between).

`CHECK_DEADLOCK FALSE`: when all campaigns are closed nothing is left to do.

### 3.3 Proofs (`BlastProofs`)

The inductive invariant `IInv` consists of:

- `TypeOK`;
- `RowsTogether`: a campaign's recipients appear all at once;
- `StartedFirst`: work on a recipient happens in a started campaign only;
- `ClaimIsExclusive`: at most one process stands behind the claim of a recipient;
- `SendOnce`: a recipient's one call to WAHA lies between its claim and its first
  record, and before the call neither `sends` nor `op` show anything;
- `OutcomeKnown`, `AcceptanceIsKnown`, `LedgerIsSettled`: what a dispatch carries
  from its send to its two writes;
- `FinalizerIsRight`: what a finalizer read is still so, because outcomes are
  never taken back;
- `ApproverIsEntitled`: a pending approval is of someone who may approve;
- `FinishedIsSettled`, `NoLostFinalization`, `NoLostWork`.

`AtMostOneSend` alone is not inductive: that a second delivery sends nothing
follows only from the claim being exclusive and from `rcpt` never going back to
`pending`. Each action preserves each conjunct in a lemma of its own. Theorems:
`Invariance`, `TypeCorrect`, `SendsOnce`, `FinishesSettled`, `FinalizationNotLost`, `WorkNotLost`,
`SentHasReason`, `LedgersAgree`, `NeverReopens`, and `Implementation`
(`Spec => ContractSpec`: initial states map to initial states, every step to a step
or a stutter of `BlastContract`). `SentIsJustified` and `RecipientNeverReopens` are
proved and not among the properties of a run.

`ApprovedFinishes` is liveness under fairness and only model-checked. Its safety core
is proved: `CampaignsGoOn` (`NeverStandsStill`, from `NoLostWork` and
`NoLostFinalization`) says that a campaign that is approved, or sending with
recipients, has a task in the broker or a process at work for it, unless a process
was killed over it or its recipients came late.

---

## 4. Handoff

### 4.1 The model

One chat. Each inbound message `m` has a webhook thread `hook[m]`, and the session
that thread creates is `rows[m]`, so sessions need no numbering. Each operator
request `r` has a thread `req[r]`. `sweep` is the session the expiry task has
listed and not yet ended.

| TLA+ | Code |
|---|---|
| `rows[s]` | `ConversationSession`: state, current menu, Office (`st = "none"`: no row) |
| `chat` | `Chat.office`, `Chat.assigned_to` |
| `hook[m].office` | the Office that `persist_message` is going to store as `Message.office` |
| `quiet` | `Chat.last_message_at` is older than the expiry's cutoff |
| `OpenChat`, `FindOffice`, `AskHistory`, `Store` | the statements of `persist_message`: the chat, its live session, whether it ever had one, the insert and the commit |
| `Ignore`, `FindSession`, `MatchTrigger` | the engine's early returns, its read of the session, trigger matching |
| `Abandon`, `Create`, `StartFirst`, `Recover`, `Reshow` | the branches of `handle_conversation_message` |
| `ShowMenu`, `Finish`, `HandOff` | `_handle_menu_item` |
| `SelectOffice`, `RouteSession` | `_handle_office_selector_reply`: the chat, then the session |
| `OpenClaim`, `Claim` | `ChatClaimView`, `claim_chat`: checks on the row read, then a write by primary key |
| `OpenAssign`, `CheckClosed`, `Assign` | assign and unassign, the look for an open handoff in between |
| `OpenClose`, `FindWaiting`, `Close` | `ChatCloseSessionView`, `close_waiting_session` |
| `Transfer`, `TransferSession` | `transfer_chat`, two updates |
| `SelectByApi` | `POST /internal/operator-chat/select-office/` |
| `Scan`, `Expire`, `SweepDies` | the expiry task: list, end, or die |
| `HookDies`, `RequestDies` | a web process killed between two statements |
| `DeleteMenu` | `current_menu` is `SET_NULL` |

`Insert` and `StartWaiting` are the writes the partial unique index may refuse; the
`IntegrityError` is caught nowhere, so the thread ends. `Complete` saves a
session as completed whatever the row has become, as `save(update_fields=...)`
does. `routed` is a history variable: every Office the chat has had.

`persist_message` is a READ COMMITTED transaction: each statement sees what others
have committed by then, so a handoff may be closed, expire or be transferred, and a
round may begin, between any two of them. `had[m]` is a history variable: the Offices
that had the conversation at some moment between the first and the last of its
reads, and afterwards only the one it chose, if it is among them. `Track`, a conjunct
of `Next`, keeps it. Nothing that is modelled reads the stored message's Office.

*One worker or many.* The image starts gunicorn without `--workers`
(`backend/Dockerfile:19`), that is one synchronous worker, which serves requests in
turn; the settings and the models speak of several (`config/settings.py:402`,
`chats/models.py:101-105`), and the development server has threads. The
constant `OneWorker` covers both: when it is TRUE, a webhook or request thread
begins only when no other is under way. The Celery task and the deletion of menus
interleave either way.

Abstractions: replies to the citizen are best effort and change no row, so no
step sends them; wording is left out, menu contents and pages are
in `Bot`, and a menu is an ordinary one or the Office selector; memberships, roles and availability are
constants; group chats end in `Ignore`; outbound messages appear only as
`Reply` (they bump the activity time); one run of the expiry task at a time.

### 4.2 Runs

| Run | Instance | Shows |
|---|---|---|
| `handoff_serial` | `OneWorker`, 3 messages, 3 requests, 2 Offices, an operator, an admin, a global admin; symmetry | `OwnerBelongs`, and that `Handoff` implements `Conversation` |
| `handoff_pool` | many workers, 3 messages, 1 request, 2 Offices, an operator and a global admin, fairness | `TypeOK`, `SessionFollowsChat`, `OneLiveSession`, `NavigationIsPrivate`, `HandoffEnds` |
| `handoff_pending` | violation, `OneWorker` | a round that ends in a handoff menu item keeps the last round's assignee and is not pending |

*Bounds.* A message makes one step of the engine, so three are the least that
reach a second round after a handoff (open, hand off, return); with three in a
pool, two deliveries race while a third's session is live. Three requests in
turn are a claim, a transfer and a close. In the pool a single request is enough
for the properties that are checked there, which are about sessions: every
other writer is a message or the task.

*What `NavigationIsPrivate` says.* A message is stored under no Office, or under one
that had the conversation while `persist_message` looked: the Office where a handoff
was waiting, or the chat's own as long as the bot had never engaged. The Office may
have lost the conversation before the insert; that is the price of the two
statements, and the code pays it. What never happens, under any interleaving, is that
an Office which had only an earlier round receives what the citizen writes to the
menus. The mutant falls back to `Chat.office` whenever no session is live.

*Which properties need one worker.* With several, `OpenHandoffKeepsOwner`,
`ClosedByItsOffice`, `HandoffImmune`, `CompletedStays` and `OwnerBelongs` fail: each
view or engine branch decides on a row it read earlier and writes by primary key. A
claim even contradicts a promise of the repository in so many words then (section
10). With one worker nothing comes between the check and the write of
a claim, so there is nothing to check and no property is stated of it. The properties
of `handoff_pool` hold in both worlds: they rest on the unique index, on the order
of the two writes that route a chat, and on what a session's Office can have been.

*`Conversation`* has two variables: `phase`, who has the conversation (nobody, the
menus, the operators), and `turn`, whether the bot is acting on a message. The
mapping `Handoff!Talk` reads `phase` off the rows of the chat and takes a thread to
have its turn from the moment it found no waiting handoff (`found`, `abandon`,
`create`, `route`) until it ends. A write that the unique index refuses is `Yield`. The
refinement is a statement about one worker: with several, two threads have
overlapping turns and one may act after the other's handoff (see below for which
properties fail then).

*Fairness* (`FairSpec`): `WF(Scan)`, as beat starts the task again and again, and
`SF(Expire)`, as not every run of it is killed between listing and ending.
Nothing is assumed of web threads: `HandoffEnds` holds although any of them may
stop for ever.

`CHECK_DEADLOCK FALSE`: messages and requests are finite in number.

### 4.3 Proofs (`HandoffProofs`)

`IInv` holds with one worker and with many. Its parts:

- `TypeOK`, `OneLiveSession`;
- `BegunOnce`: the row named by a message is empty until the thread's last step, so
  an insert never meets an old row;
- `SeenExists`: what a thread read is a row; a session once waiting is waiting or
  completed ever after;
- `OnlyHandoffsAreRouted`: a session that never was a handoff has no Office;
- `RoutedFirst`: `SessionFollowsChat`, with the Offices still on their way into
  a session;
- `HoldersSeen`: what each statement of `persist_message` found is in `had`: the Office
  it goes on with had the conversation when it was read, and so is the chat's own as
  long as no session was ever seen;
- under `OneWorker`: `OneBusy` (one thread at a time), `SessionHolds` and `ChatHolds`
  (what a thread has read is still so when it writes).

From it: `TypeCorrect`, `SessionsFollow`, `OneLive`, `NavigationStaysPrivate` for any
number of workers, and, assuming `OneWorker`, `SerialCloses`,
`SerialAssigns`, `SerialOwners`, `SerialHandoffs`, `SerialConversation`, `SerialHistory`
(`ClosedByItsOffice`, `OpenHandoffKeepsOwner`, `CompletedStays` and `HandoffImmune`, which
`Conversation` says too, are proved and not among the properties of a run). `SerialHandoffs` and `SerialHistory` hold
although the expiry task interleaves: `SeenExists` says that the session the
task, or a close, is about to end never was given back to the bot.

`SerialConversation` (`Spec => ConversationSpec`) goes action by action: each step of
`Handoff` maps to a step of `Conversation` or a stutter. `OneBusy` gives that the turn
is the one thread's; `SessionHolds` gives the phase a writer finds, its part on
`create` that nothing is live when a round begins.

`HandoffEnds` is liveness and only model-checked.

---

## 5. Ingest

### 5.1 The model

A *hook* is a webhook thread, a *job* a process that reconciles; both store
messages through the same transaction. An event is named by its message, because
`provider_event_id` and `provider_message_id` are both the payload's id; events of
other types (`Notices`) are taken to have ids of their own.

| TLA+ | Code |
|---|---|
| `event` | `WebhookEvent.status`, `"none"` without a row |
| `source` | the `Message` row, and which path inserted it |
| `known`, `last` | the `Chat` row and its `last_message_at` |
| `at[w]` | a thread's position, the event it works on, the activity time its open transaction has read |
| `Deliver` | `get_or_create` of the event, a resolved one being answered at once |
| `Refuse`, `Fail` | other event types, `MessageParsingError` |
| `OpenLive`, `OpenBackfill` | the transaction begins and reads the chat |
| `CommitLive`, `CommitBackfill` | the insert succeeds; activity time and commit |
| `DuplicateLive`, `DuplicateBackfill` | `IntegrityError`, `DuplicateMessage`, rollback |
| `Engage`, `Mark` | `handle_conversation_message`, the event is processed |
| `Die` | the process is killed or an exception leaves the handler |

`engaged` is a history variable. WAHA's behaviour is the freedom of `Deliver`: any
event, any number of times, to any threads, in any order, or never. The insert
into a unique index waits for a transaction that inserted the same key, so the
order of commits decides who is the duplicate (`CommitLive` against
`DuplicateLive`), and the insert of a new chat does the same (`ChatReadable`).

Abstractions: the counter of attempts, contacts and their names, offices (in
`Handoff`) and the content of messages; the engine is one step; the time between
a commit and the next statement belongs to the next step.

### 5.2 Runs

| Run | Instance | Shows |
|---|---|---|
| `ingest_threads` | 4 messages of 2 chats (inbound, outbound, one that cannot be parsed), 1 other event, 2 hooks, 1 job; symmetry over hooks | `TypeOK`, `EngagedOnce`, and that `Ingest` implements `Inbox` |
| `ingest_retry` | violation, 1 hook | a thread that dies after the commit leaves an event whose retry answers nobody |

*Bounds.* Two threads and a job are what the races for one row need (two
deliveries of one message, and history). Two parsable messages of one chat with
different times are what overlapping transactions need. Deliveries and deaths
are not bounded.

*`Inbox`* says it in four variables and three steps: a message is kept, by one path
and together with its chat's activity; it is answered, at most once and only if
the webhook kept it; an event gets its verdict. The mapping `Ingest!Promise` hides the
threads, their open transactions and the pending events. A transaction of two
steps that is rolled back, or finds itself a duplicate, is a stutter. `Inbox` does
not promise that what the webhook keeps is answered: `ingest_retry` shows why.
`HistoryIsSilent` and `ResolutionIsRight` follow from it and have no run; a second
answer to one message would be a stutter of `Inbox`, so `EngagedOnce` is checked beside
it.

*Symmetry* exchanges the hooks.

Deadlock is checked: a job may always look at a message again.

### 5.3 Proofs (`IngestProofs`)

`IInv` consists of `TypeOK`; `ThreadsPlaced` (position and work agree, a thread at
`mark` has its message stored); `ParsedOnly`; `EngineOnce` (a thread before the
engine is alone there with its message, which the webhook inserted and the
engine has not seen); `ActivityKnown` (a time that an open transaction has read
was committed, so a rollback takes nothing back); `Resolutions`. `EngagedOnce` is not
inductive alone: it needs that the insert elects one thread, `EngineOnce`.
`ResolvedStays` follows because a `failed` event's message is broken for everybody
and a `processed` one's is stored for good. Theorems: `Invariance`, `TypeCorrect`,
`AnsweredOnce`, `HistoryStaysSilent`, `ResolvedRightly`, `ActivityHasMessage`,
`Implementation` (`Spec => InboxSpec`), `ResolutionsStay` (`ResolvedStays`,
`ActivityIsStored`, `HistoryIsSilent` and `ResolutionIsRight` are proved and not among the
properties of a run).

---

## 6. Reconcile

### 6.1 The model

A *slot* `r` holds one run at a time: a Celery task or a call in a request thread
or a shell (`Celery`), over all chats or one (`Full`). WAHA's history of a chat is
the sequence of its messages' timestamps, oldest first; it grows under the
reader. `faults` counts kills, exceptions and refusals of WAHA.

| TLA+ | Code |
|---|---|
| `cp` | `SyncCheckpoint.status` and `.checkpoint_value`; `by` (history): who last wrote `running` |
| `stored`, `known` | the `Message` and `Chat` rows |
| `run[r]` | a run's position and local variables: the watermark it read, chats to read, page, message, what it inserted |
| `recovery` | what a recovery request has read: the row as it is, or as it was |
| `Arrive`, `Live` | a message on WhatsApp; its webhook |
| `Dispatch` | beat, the command, the trigger after a send |
| `Begin`, `Announce` | the watermark is read; the row is saved as `running` |
| `Discover`, `DiscoverFails`, `List`, `Pick` | `_discover_chats`, the loop over chats |
| `Fetch`, `FetchFails` | one page by `limit` and `offset` |
| `ParseFails`, `Skip`, `Insert` | one message: refused, a duplicate, stored |
| `TurnPage`, `LeaveChat` | the three conditions that stop the reading (`LastPage`) |
| `Finish` | the terminal save, and the repetition of a targeted call that inserted nothing |
| `Raise`, `Escape`, `Retry` | an exception within the try block, or outside it; `autoretry_for` |
| `Kill` | a process that is gone |
| `RecoverRead`, `Recover`, `RecoveryConflict` | the recovery endpoint's read and compare-and-set |

Abstractions: one session; counters, error texts and the time of the last run;
`updated_at` is abstracted to whether the row was saved since it was read. A row
looks stuck after more time than Celery lets a task work, so `Stuck` asks that a
Celery run that last wrote `running` is over or between two tries; of other runs
it asks nothing, since nothing limits them. A message that cannot be parsed is so
for every reader.

### 6.2 Runs

| Run | Instance | Shows |
|---|---|---|
| `reconcile_runs` | 1 chat of up to 2 messages, the second broken; a periodic Celery slot with 1 retry and a targeted slot in a request with 2 attempts; pages of 1, 2 pages, 1 fault; fairness | `TypeOK`, `RecoverySparesTheLiving`, `ReadsItsWindow`, `Settles`, `RecentIsStored` |

*Bounds.* Two slots are two overlapping runs; one has each kind of caller. Two
messages and pages of one make two pages, and a message that arrives between
them pushes the other from the first to the second. One fault is enough to end a
run anywhere; a second one would hit a run that starts afresh. The safety
properties were also checked with three messages; the theorems have no bound.

*Fairness* (`FairSpec`): `WF(Dispatch(r))` and `WF(Work(r))` of the periodic slots: beat
starts the task again and again (`config/celery.py:24-28`), and a worker that has
a run goes on, as each call to WAHA has a timeout and the task a limit. Nothing is
assumed of targeted runs, webhooks or administrators, and faults are finite in
number: if every run were killed, nothing would ever end.

Deadlock is checked: a run under way can always go on, and a slot whose run is
over can be used again.

*What no property says.* The watermark is one per session. A run targeted at one
chat moves it past messages of another chat that were never read, and the next
run of that chat stops there. `ReadsItsWindow` is stated from the watermark a run
finds; the comment at `sync/reconciliation.py:17-19`, which takes everything
behind it for synced, is true of a session with one chat only.

### 6.3 Proofs (`ReconcileProofs`)

`IInv` consists of `TypeOK`; `HistoryOrdered`; `TimesAreStored` (the watermark on the
row, the one each run carries and may write back, and the latest each run will
write are times of stored messages); `Reading` for every run; `RunningHasOwner`; and
`FreshIsStuck` (what a recovery has read and nothing has overwritten is still stuck: a
Celery run cannot go to work without saving the row).

`Reading` is the heart of it: between two pages, a run has stored every message it
found at its beginning from the last page's oldest place on; within a page, those
above its place. Places are counted from the oldest message, so a message that
arrives moves only where the next page begins, towards messages already covered:
pages may overlap, never leave a gap. From it, `ReadsItsWindow`: when a run leaves a
chat, either the page was short, or its oldest was not later than the watermark
(and so is everything behind it, by `HistoryOrdered`), or the page budget is
used, and what is not stored is outside the window. Theorems: `Invariance`,
`TypeCorrect`, `RunningIsOwned`, `MarkHasMessage`, `RecoverySpares`, `ReadsWindows`
(`RunningHasOwner` and `MarkIsStored` are proved and not among the properties of a run).

`Settles` and `RecentIsStored` are liveness and only model-checked.

---

## 7. Bff

### 7.1 The model

One BFF process. Each HTTP request happens once and is a chain of awaited calls,
each of which ends with an answer or at its timeout; a browser that tries again is
another request under the same key. `late` holds the calls the BFF no longer waits
for: each may arrive afterwards, at any time and in any order, or never.

| TLA+ | Code |
|---|---|
| `ops[k]` | the `OutboundOperation` row of a key: status, whether older than the threshold, whose audit row it was written with |
| `log[r]` | the `AuditLog` row of a request |
| `locks` | `inFlight` of `operationLock.ts` |
| `req[r]` | position, key or action, how its message is backed, WAHA's outcome, the answer given |
| `Arrive`, `Register` | `POST .../messages`: the register call and what the route does with its answer |
| `RegisterUnanswered`, `LateRegister` | no answer from Django: the message is sent without an operation, the row may appear later |
| `BeginAction`, `RefuseAction` | `acquireOperationLock`; 409 |
| `WahaAccepts`, `WahaRefuses`, `WahaUnanswered`, `LateWaha` | `callWaha`: 2xx, another status, timeout or network error |
| `Record`, `RecordUnanswered`, `LateRecord` | the resolve call (operation and audit row in one transaction) or, for an action, `recordAudit`; the answer and the lock's release |
| `Age` | `updated_at` falls behind `OUTBOUND_OPERATION_STALE_SECONDS` |
| `Restart` | the process is restarted and forgets requests and locks |

`taken` is a history variable: the requests WAHA carried out. A request without an
operation (`by = "blind"`) records nothing, as `operation` is null in the route.

Abstractions: one session; a request refused for its token, its body or the state
of its session changes nothing and is no step; texts and error codes; the
reconciliation that is asked for after a send, which is a targeted run of
`Reconcile`; the rate limit. Starting, stopping, restarting and logging out are
alike, and so is the pairing code, which takes a lock of its own
(`session.ts:179-212`): one locked action stands for the five. QR takes none.

### 7.2 Runs

| Run | Instance | Shows |
|---|---|---|
| `bff_requests` | 3 requests, 1 key, 1 locked and 1 unlocked action, fairness | `TypeOK`, `ResendIsJustified`, `LedgerIsTrue`, `AnswerIsTrue`, `LockHasHolder`, `SentStays`, `Answered` |
| `bff_pending` | violation, 2 requests | an operation left pending by a restart is never sent again, although it is reported as retryable |

*Bounds.* Three requests under one key are a creator and two retries, the least
for two retries that both read the operation as stale; keys and actions do not
touch each other. Restarts, ageing and late arrivals are not bounded.

*What `ResendIsJustified` allows.* The protocol gives up "once" in two places: it
sends when Django does not answer (`blind`), and it retries an operation that has been
`pending` or `unknown` for longer than the threshold (`retrier`), which
`PHASE-6-FINAL-IMPLEMENTATION-CONTRACT.md:310, 321-324, 336-344` accepts as a residual
risk, the crash before the outcome is recorded included. The property says that there
is no third: of two requests of one key that WAHA carried out, one is of these two
kinds. It holds of the code, which retries `unknown` only, and would hold of the
documented policy; that the code does less than the policy is what `bff_pending`
shows. The mutant does not look at `retryable` and retries an operation at once.

*What `SentStays` allows.* The resolve call writes without a comparison, so of two
retries that both read the operation as stale the later record wins, and a sent
operation may become unknown again. Only a retry may do that, never the creator's
late record or a duplicate's registration.

*Fairness* (`FairSpec`): `WF(TimeOut(r))`. Every awaited call has an `AbortController`
with a timeout (`djangoClient.ts:50-63`, `wahaClient.ts:42-85`), after which the
route goes on. Nothing is assumed of Django, of WAHA or of late calls. It gives
`Answered`: every request ends.

`CHECK_DEADLOCK FALSE`: requests are finite in number.

### 7.3 Proofs (`BffProofs`)

`IInv` consists of `TypeOK`; `RequestsPlaced` (what a request has done at each
position); `CallsUnderWay` (a call that may still arrive was made once and has left
no trace); `Outcomes` (outcome, audit row and answer of a request tell the same);
`Ledger` (a settled operation is what the request of its audit row made of it);
`Creation` (an operation has one creator, stays pending until its creator's outcome
is recorded, and is retried only after WAHA left one of its requests unanswered);
and the properties on answers, audit rows and locks. `ResendIsJustified` follows from
`Creation` and `RequestsPlaced`: of two requests that WAHA carried out under one key, at
most one is the creator, and nobody goes on with an operation that is settled or young.
Theorems: `Invariance`, `TypeCorrect`,
`ResendsAreJustified`, `LedgerStaysTrue`, `AnswersStayTrue`, `AuditsSurvive`,
`LocksHaveHolders`, `SentOperationsStay`. `AuditSurvives` is a conjunct of
`LedgerIsTrue`. `Answered` is liveness and only model-checked.

---

## 8. Access

### 8.1 The model

Each administration request happens once; its steps are its statements, and
`req[q]` holds its position and what it has read.

| TLA+ | Code |
|---|---|
| `acct` | `User.is_active`, `"absent"` without a row |
| `role` | `Role`: scopes and standing (`global`, `admin`) |
| `member` | `OfficeMembership.role`, `.office` |
| `groups` | the user's Django groups named after scopes |
| `granted[u][l]` | the scopes of a user's tokens that have `l` units of time left |
| `Reach`, `May`, `Manages` | `_admin_scope`, the scope permission, `_get_target` |
| `BeginPatchUser`, `SaveProfile`, `Validate`, `WriteMember`, `Sync` | `UserDetailView.patch`: checks, `save()`, the checks of the role, `update_or_create`, `_sync_role_groups` one group at a time |
| `BeginPatchSelf` | `MyProfileView.patch`, then `SaveProfile` |
| `BeginCreateUser`, `CommitUser` | `UserListCreateView.post`, one transaction |
| `BeginPatchRole`, `SaveRole`, `ListMembers`, `Sync` | `RoleDetailView.patch` |
| `CreateRole`, `DeleteRole` | the superuser's, one statement |
| `Login`, `Tick` | a token with the scopes of the moment; time passes |
| `Honoured`, `Authenticated` | the BFF's `requireScope`, which sees the token alone; Django's `JWTAuthentication`, which also asks for the account |
| `Kill` | a process dies, or a statement raises |

History variables: `since[u][s]`, the time since the scope was last in the user's
role; `owed`, the users that a killed request has left out of step; `overlap`, that
two requests have been under way together.

*Taking turns.* The shipped image serves one request at a time
(`backend/Dockerfile:19`, see section 4.1). The model interleaves any number, and
the properties say of each run of the system what holds until two requests
overlap: then an assignment copies the scopes of the role it read, an edit of the
role those of the members it listed, and the older may be copied last.
`RoleInUseStays` holds in any case, and is proved and not among the properties of a run.

Abstractions: names, passwords, initials and menu items; availability and the
Offices' own rows; `requires_office`, which repeats whether the membership was
written with an Office and is what the database constraint compares; a superuser
has every scope. A request does not span a unit of time: it takes seconds, a token
lasts `JWT_ACCESS_TOKEN_LIFETIME_SECONDS` (eight hours).

### 8.2 Runs

| Run | Instance | Shows |
|---|---|---|
| `access_requests` | a superuser and 2 users, 2 Offices, 2 roles of 3 shapes, 2 scopes, 2 requests, lifetime 2; symmetry over requests | `TypeOK`, `ScopesFollowRole`, `AuthorityIsBounded`, `DeactivationHolds`, `KeepsToOffice` |

*Bounds.* The two initial situations of `MCInit` are those in which somebody besides
the superuser may administer users: the administrator of one Office with a member
of the other, and a global administrator with a newcomer. Two requests are one
that leaves something behind and one that meets it. Four bodies of a PATCH cover
activation, deactivation, both kinds of role, the own Office and another one. A
lifetime of 2 is the least with which a token issued before a change is neither new
nor expired. `Bound` leaves out that one of two overlapping requests is killed
half-way through the groups, of which no property but `TypeOK` says anything.

*Symmetry* exchanges the two requests, which differ in nothing.

*What no property says.* A role's standing may be edited while it has members.
`SaveRole` changes no membership, so a role made global leaves its members with an
Office, and one made an Office's leaves them without, although
`offices/models.py:155-167` says that such rows never, or always, have one and that
the constraint enforces it: the constraint compares the copy `requires_office`,
which nothing renews. A single request does it.

Deadlock is checked: time passes and tokens are issued for ever. No liveness is
stated: a request that is killed is not resumed by anything.

### 8.3 Proofs (`AccessProofs`)

`IInv` consists of `TypeOK`, `Placed` and `RootExists`; `Alone` (until two requests
overlap there is at most one) and `Fresh` (what it has read is then still so);
`RoleInUseStays`; `DueNow` (the clock of a scope that is due stands at 0); `InStep`
(every group of a user who is not owed anything is right, or the request under way
is about to set it); `HeldNow` (a scope still in a group has its clock at 0); and
`AuthorityIsBounded`. The bound on authority is not inductive alone: a login copies
groups, not the role, so that a new token is no older than the clock rests on
`HeldNow`, and that on `InStep`, since the clock only runs while no request is under
way. Theorems: `Invariance`, `TypeCorrect`, `RolesInUseStay`, `ScopesFollowRoles`,
`AuthorityBounded`, `DeactivationsHold`, `KeepToOffices`, for any users, Offices,
roles, scopes, requests and lifetime.

---

## 9. Bot

### 9.1 The model

One chat, whose messages the engine handles one at a time (overlapping messages
are `Handoff`'s), any number of administrators' requests, each performed once.
`hook` is the engine's thread and `req[q]` a request's: position, and what they
have read. A table maps identities to rows; an identity without a row is `Unused`
or `Deleted`.

| TLA+ | Code |
|---|---|
| `menu`, `item`, `trigger`, `config` | `BotMenu`, `BotMenuItem`, `BotTrigger`, `BotConfig` |
| `open` | Offices that `available_operator_chat_offices` returns |
| `chat`, `session` | `Chat.office`; the latest `ConversationSession` |
| `shown` | rows of all lists sent to the chat, with what each stood for |
| `Receive` | a typed text, or a tap on a row of any list ever sent |
| `ReadConfig`, `ReadSession`, `Match` | `_effective_config`, the query of the session, `_match_trigger` |
| `Abandon`, `Create` | `_abandon_active_session` or `_complete_session`, then `objects.create` |
| `PickItem`, `Picks` | `_match_menu_item`: the tapped key first, else the text against values and labels |
| `ShowMenu`, `Finish`, `HandOff` | `_handle_menu_item` |
| `Send`, `MenuRows`, `OfficeRows` | `_send_menu`, `_send_office_selector`: rows read when the list is sent |
| `ChooseNone`, `ShowPage`, `Choose`, `Route`, `Wait` | `_handle_office_selector_reply`, `select_office_for_chat` |
| `Toggle` | an Office, or its inbox, is switched on or off |
| `BeginConfig`, `InsertConfig`, `SaveConfig` | `get_or_create`, then the validated `save()` |
| `PatchItem`, `SaveItem` and the like | the row is read and validated; all its columns are saved |
| `CheckDelete`, `DeleteMenu` | Django's collector looks for protecting rows; one transaction deletes |
| `Die`, `DieRequest`, `Close` | killed processes; a handoff is closed or expires |

A save writes every column of the row as it was read, and inserts the row when it
was deleted meanwhile, as `save()` does; a reference to a menu that is gone, or a
trigger value that another item of the menu has taken, is refused by the database.
Deleting a menu deletes its items and empties references of configurations and
sessions; a protecting row that came in between undoes it.

Abstractions: texts, names, letter case; the order of items (of several that
match, any one); delays and the fallback to text of a list, which only make its
rows be tapped late or never; a menu's Office and its `enabled`, which the engine
does not read; who may administer (`Access`); an Office's inbox is switched in
one step. Three pairs of consecutive reads are one step each: the configuration of the
chat's Office and, without one, the GLOBAL one (`ReadConfig`); the triggers of the
two scopes (`Match`); the tapped key and, without a match, the text (`Picks`). A change
that commits between the two reads of a pair is taken to come before or after both.

### 9.2 Run

| Run | Instance | Shows |
|---|---|---|
| `bot_menus` | 4 menus (root, Office selector, a plain one, one to create), 3 items, 2 triggers, 2 configurations, 2 Offices on pages of 1, 3 messages, 2 requests; symmetry over requests | `TypeOK`, `MenuItemsLead`, `ShownIsPosition`, `TapFindsItsItem`, `PagesHold` |

About three million states. *Bounds.* Three messages open the root, choose or go to
the selector, and tap a row of a list that is old by then. Two requests are two
changes of one item that overlap, or a deletion between a read and its use. Words
coincide on purpose: a label of one item is the value of another, an Office's key
is the number of the other's place, so a tap or a text can be taken for something
else. Bodies are a sample of each kind of change. A second set-up, a
bot not switched on yet, has an item that keeps the menu it once showed, so that one
request may make it show that menu while another takes the menu away. `MCInit` starts with a new chat and
open Offices; `Toggle` closes them. The theorems hold for any set-up and any bodies.

*Symmetry* exchanges the two requests. `CHECK_DEADLOCK FALSE`: messages and requests
are finite in number. No liveness is stated: a killed thread is resumed by nothing,
and the citizen may stop at any menu.

*What no property says.* The model has these behaviours; each takes one or two
requests, contradicts at most a comment, and is recorded here instead of in a run.

- The first PATCH of an Office's configuration inserts a disabled row before its
  body is validated. Refused or killed, it leaves the row, which shadows the GLOBAL
  one: what `bot/views.py:76-86` was written to avoid for GET.
- Two first PATCHes of the GLOBAL configuration may insert two rows, as the unique
  index takes NULLs for distinct; from then on `get_or_create` raises.
  `bot/models.py:38-44` says that this cannot be.
- A PATCH that saves a row deleted meanwhile brings it back.
- `views.py:173-177` names configurations and conversations among what keeps a
  menu from being deleted; both references are emptied instead.
- A tap on a list of another menu is read in the menu the session stands at, and at
  the Office selector a menu item's value may be an Office's key
  (`conversation_engine.py:384`). `TapFindsItsItem` speaks of the current menu's rows.
- A trigger or a configuration that leads to the Office selector sends the list of
  the menu's items, and the next message is read as the choice of an Office
  (section 10). `ShownIsPosition` is about which menu's list is sent, not whether a
  selector has one.
- A tapped key that was given to another item since names that item.
- A handoff item leaves `current_menu` as it was (`conversation_engine.py:487`).

### 9.3 Proofs (`BotProofs`)

`IInv` consists of the types (`TypeOK` in parts); `Requested` (what a request is about
to save is a row of its table, and an item's is validated); `NothingDangles` (every
reference, the session's too, is to a menu that is there, and trigger values are
distinct within a menu); `MenuItemsLead`; `Position` (the session's menu is the one the
thread read, or was deleted since: no request moves a session elsewhere, and no other
message runs); and `ShownIsPosition`. Neither `MenuItemsLead` nor `ShownIsPosition` is
inductive alone: the first needs `Requested`, since a save is of a row read and
validated earlier, the second `Position` where an unknown reply shows the menu again.
Theorems: `Invariance`, `TypeCorrect`, `ReferencesHold`, `MenusLead`, `PositionShown`,
`TapsFindTheirItem`; the last rests on `Distinct`, which makes a tapped key name one
item. `ReferencesHold` (`NothingDangles`) is proved and not among the run's properties.

`PagesAlwaysHold` is about arithmetic over the number of Offices and the page
length, which are constants of no particular value: the number of the last page is
a quotient, and places on a page are sums of products. Its lemmas take that apart:
`Division` and `Multiples` are the facts about quotients and products, `Dimensions`
gives the page lengths that leave room for the rows that turn pages, `PlacesNumber`
the Offices' places, `LastPageEnds` that the last page is the first to reach the
last place, `PageHasOffice` and `OfficeHasPage` that pages and places cover each
other, `PagesAreLinked` which rows turn pages, and `PageFits` how many rows there
are. The one inductive fact is `TurnsArePages`: a row that turns a page, in whatever
list was sent before, carries a page number from 1 on.

`ConversationKept` (`Spec => ConversationSpec`) maps `phase` to the session's state and
`turn` to the thread's position after it has read the session. It needs
`TurnHolds`: what the thread read of the session's state still is so, because
`Close` only ends waiting ones and requests only clear a menu. It is proved and not
among the properties of the run.

---

## 10. Findings

Three runs show a sentence of the repository contradicted by the code; each is
quoted with its line in `PROJECT.json`: `handoff_pending`, `ingest_retry` and
`bff_pending`.

Four more sentences disagree with what the code does. No run is spent on them; the
formulas and behaviours given here can be tried in the instances named:

- `blast/views.py:223` says that "a campaign that would push the session over budget
  never leaves `pending_approval`". `FitsBudget` counts the operations already
  created today, as the code does, and not what other approved campaigns have yet to
  send: in the instance of `blast_contract`, whose two campaigns each use up the
  budget, both are approved and `Cardinality(today) <= Budget` fails.
- `blast/views.py:357` says that a manual resolution and "a concurrent legitimate
  completion" cannot overwrite each other, "or vice versa". The resolution is a
  compare-and-set; the dispatch writes by primary key (`blast/tasks.py:225`) and
  replaces the administrator's outcome. In the instance of `blast_dispatch`,
  `[][\A r \in Recipients : r \in manual => rcpt'[r] = rcpt[r]]_vars` fails.
  `LedgerAgrees` says nothing of recipients resolved by hand, so it holds whether the
  dispatch overwrites them, as the code does, or leaves them, as the comment says.
- `chats/assignment.py:114-115` says that a claim "never silently steals an in-progress
  conversation". `claim_chat` compares the assignee it was given and then writes by
  primary key (line 148). Where requests run at the same time (not in the shipped
  image, which has one worker) two claims both pass the check and the later takes
  the chat from the earlier: in the instance of `handoff_serial` with
  `OneWorker = FALSE`,
  `[][\A q \in Requests : Claim(q) => chat.owner = Nobody]_vars` fails.
- `bot/models.py:97-108` says that a selector shows Offices and that for its items "the
  engine never looks for any". A menu with items may be made a selector by a PATCH;
  reached by a trigger or as the root of a configuration it is sent with those items
  (`conversation_engine.py:583`, `:592`), and a tap on one is read as the key of an
  Office. In `bot_menus`: a PATCH makes `m1` a selector, the first message sends the
  rows of its items, and a tap on the row of `i2`, whose word is an Office's key,
  chooses that Office: `hook.pc = "route" => hook.msg.of \notin Items` fails.

## 11. Mutants

Every property of a passing run has a mutant: a definition with a plausible bug,
written just before the definition it replaces and marked `Mutant:`, for which
TLC reports the property violated. No specification uses them.

## 12. What is not covered

- The components that `PROJECT.json` lists as not modelled, with their reasons.
- Liveness and fairness are outside the prover: `ApprovedFinishes`, `HandoffEnds`,
  `Settles`, `RecentIsStored` and `Answered` rest on TLC's small instances.
- In the modelled components: replies and their delays, send times, contents,
  contacts.
- Some behaviours the models have and no property forbids, since the code has
  them and nothing promises otherwise: the activity time of a chat may be set
  back by a transaction that commits late (`webhooks/services.py:210`); an
  exception in discovery that is no `WahaClientError` leaves the checkpoint
  `running` until the next periodic run (`sync/reconciliation.py:269`); an approval
  whose task was never queued stays approved (`blast/views.py:274`).
- Some hazards outside the models: a message stored late never shows as unread
  (`chats/serializers.py:116`); an event of another type about a message carries
  the message's id (`webhooks/parsing.py:115`); two campaigns of one session that
  are scheduled at once compute the same send times (`blast/tasks.py:101`).
