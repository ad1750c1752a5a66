------------------------------- MODULE Blast -------------------------------
(***************************************************************************)
(* Bulk sends (backend/apps/blast): the campaign workflow of views.py, the *)
(* two Celery tasks of tasks.py, and the daily budget of limits.py.        *)
(*                                                                         *)
(* A process is a Django request thread or a Celery worker.  It runs one   *)
(* handler at a time, one database statement per step (the project runs    *)
(* with Django's autocommit, so every statement commits alone), and other  *)
(* processes interleave between any two steps.  pc, job, todo and result   *)
(* are its position and local variables.  A process may be killed between  *)
(* any two steps; nothing resumes what it was doing (tasks.py, "NO AUTO-RESUME").  *)
(* Dispatch messages wait in the broker for their countdown; one that      *)
(* waits past the broker's visibility timeout is delivered twice.          *)
(*                                                                         *)
(* A compare-and-set on a status and on updated_at is modelled as one on   *)
(* the status: a row enters each status it is compared on at most once, so *)
(* updated_at never decides.                                               *)
(***************************************************************************)
EXTENDS Naturals, FiniteSets

CONSTANTS Campaigns,       \* BlastCampaign rows that may come to exist, on one WAHA session
          Recipients,      \* BlastRecipient rows that may come to exist
          CampaignOf,      \* BlastRecipient.campaign
          Users,           \* dashboard users with the scopes the views ask for
          CreatorOf,       \* BlastCampaign.created_by
          Superusers,      \* User.is_superuser
          Workers,         \* Celery worker processes
          Requests,        \* Django request threads
          Budget,          \* settings.BLAST_MAX_RECIPIENTS_PER_SESSION_PER_DAY
          MaxRedeliveries, \* bound on duplicated task messages
          MaxCrashes,      \* bound on killed processes
          None             \* no campaign, recipient or user

Procs == Workers \cup Requests

ASSUME BlastAssumption ==
    /\ CampaignOf \in [Recipients -> Campaigns]
    /\ CreatorOf \in [Campaigns -> Users]
    /\ Superusers \subseteq Users
    /\ None \notin Campaigns \cup Recipients \cup Users
    /\ Budget \in Nat /\ MaxRedeliveries \in Nat /\ MaxCrashes \in Nat
    /\ IsFiniteSet(Recipients)

VARIABLES camp,        \* BlastCampaign.status, "none" before the row exists
          approvedBy,  \* BlastCampaign.approved_by
          rcpt,        \* BlastRecipient.status, "absent" before the row exists
          op,          \* the recipient's OutboundOperation.status, "none" before the row exists
          today,       \* recipients whose OutboundOperation was created this Jakarta day
          scheduleQ,   \* schedule_blast_campaign_task messages in the broker
          dispatchQ,   \* dispatch_blast_recipient_task messages in the broker
          pc,          \* where each process stands in its handler, "idle" between two
          job,         \* what the handler works on: a campaign, a recipient, a user
          todo,        \* recipients a schedule task has yet to enqueue
          result,      \* the outcome a handler carries to its next write
          sends,       \* how often WAHA's sendText was called for a recipient
          accepted,    \* recipients whose message WhatsApp took
          manual,      \* recipients resolved by an administrator
          redeliveries, crashes,
          killed,      \* history: where processes were killed, and at what
          late         \* history: recipients inserted into a campaign already started

db == <<camp, approvedBy, rcpt, op, today>>
broker == <<scheduleQ, dispatchQ>>
outside == <<sends, accepted>>
counters == <<redeliveries, crashes, killed, late>>
local == <<job, todo, result>>
task == <<pc, local>>
vars == <<db, broker, task, outside, manual, counters>>

-----------------------------------------------------------------------------
(* Rows and handlers                                                       *)

Terminal == {"sent", "failed", "invalid_number"}
Outcomes == {"sent", "failed", "unknown"}

CampaignStatus == {"none", "draft", "pending_approval", "approved", "sending",
                   "completed", "rejected", "failed"}
RecipientStatus == {"absent", "pending", "sending"} \cup Terminal
OperationStatus == {"none", "pending"} \cup Outcomes

\* Where a handler stands: the next database statement or call it will make.
Steps == {"idle", "create_recipients", "approve", "enqueue_schedule",
          "plan", "enqueue_dispatch",
          "claim", "check_number", "mark_invalid", "register", "send",
          "record_operation", "record_recipient", "finalize", "write_final"}

Job == [camp : Campaigns \cup {None}, rcpt : Recipients \cup {None}, user : Users \cup {None}]
NoJob == [camp |-> None, rcpt |-> None, user |-> None]

RecipientsOf(c) == {r \in Recipients : CampaignOf[r] = c}
Members(c) == {r \in RecipientsOf(c) : rcpt[r] # "absent"}
Started(c) == camp[c] \in {"sending", "completed", "failed"}

At(p, step) == pc[p] = step
Goto(p, step) == pc' = [pc EXCEPT ![p] = step]
Begin(p, step, c, r, u) ==
    /\ At(p, "idle")
    /\ Goto(p, step)
    /\ job' = [job EXCEPT ![p] = [camp |-> c, rcpt |-> r, user |-> u]]
    /\ UNCHANGED <<todo, result>>
Return(p) ==
    /\ Goto(p, "idle")
    /\ job' = [job EXCEPT ![p] = NoJob]
    /\ todo' = [todo EXCEPT ![p] = {}]
    /\ result' = [result EXCEPT ![p] = "none"]

\* UPDATE blast_blastcampaign SET status = to WHERE pk = c
SetCampaign(c, to) == camp' = [camp EXCEPT ![c] = to]
\* UPDATE blast_blastrecipient SET status = to WHERE pk = r
SetRecipient(r, to) == rcpt' = [rcpt EXCEPT ![r] = to]

Init ==
    /\ camp = [c \in Campaigns |-> "none"]
    /\ approvedBy = [c \in Campaigns |-> None]
    /\ rcpt = [r \in Recipients |-> "absent"]
    /\ op = [r \in Recipients |-> "none"]
    /\ today = {}
    /\ scheduleQ = [c \in Campaigns |-> 0]
    /\ dispatchQ = [r \in Recipients |-> 0]
    /\ pc = [p \in Procs |-> "idle"]
    /\ job = [p \in Procs |-> NoJob]
    /\ todo = [p \in Procs |-> {}]
    /\ result = [p \in Procs |-> "none"]
    /\ sends = [r \in Recipients |-> 0]
    /\ accepted = {}
    /\ manual = {}
    /\ redeliveries = 0
    /\ crashes = 0
    /\ killed = {}
    /\ late = {}

-----------------------------------------------------------------------------
(* The campaign workflow (request threads)                                 *)

\* POST /campaigns/: the serializer inserts the campaign row, then, in a
\* statement of its own, all of its recipients.
CreateCampaign(q, c) ==
    /\ camp[c] = "none"
    /\ Begin(q, "create_recipients", c, None, None)
    /\ SetCampaign(c, "draft")
    /\ UNCHANGED <<approvedBy, rcpt, op, today, broker, outside, manual, counters>>

CreateRecipients(q) ==
    /\ At(q, "create_recipients")
    /\ rcpt' = [r \in Recipients |->
                  IF CampaignOf[r] = job[q].camp THEN "pending" ELSE rcpt[r]]
    /\ late' = IF Started(job[q].camp) THEN late \cup RecipientsOf(job[q].camp) ELSE late
    /\ Return(q)
    /\ UNCHANGED <<camp, approvedBy, op, today, broker, outside, manual, redeliveries, crashes, killed>>

\* The creator's submit: read, transition check and compare-and-set.  Reading
\* and writing in one step loses nothing: the write requires the status read.
Submit(c) ==
    /\ camp[c] = "draft"
    /\ SetCampaign(c, "pending_approval")
    /\ UNCHANGED <<approvedBy, rcpt, op, today, broker, task, outside, manual, counters>>

Reject(c) ==
    /\ camp[c] = "pending_approval"
    /\ SetCampaign(c, "rejected")
    /\ UNCHANGED <<approvedBy, rcpt, op, today, broker, task, outside, manual, counters>>

\* A campaign may be approved by somebody else than its creator, or by a superuser.
MayApprove(u, c) == u # CreatorOf[c] \/ u \in Superusers

\* remaining_daily_budget covers every recipient of the campaign (a campaign
\* without recipients always fits: the remaining budget is never negative).
FitsBudget(c) ==
    Members(c) = {} \/ Cardinality(Members(c)) + Cardinality(today) <= Budget

\* Approval is three steps: the checks, the compare-and-set, and the enqueueing
\* of the schedule task.
ApproveCheck(q, c, u) ==
    /\ camp[c] = "pending_approval"
    /\ MayApprove(u, c)
    /\ FitsBudget(c)
    /\ Begin(q, "approve", c, None, u)
    /\ UNCHANGED <<db, broker, outside, manual, counters>>

\* Mutant: the approval writes whatever the campaign's status has become.
ApproveWriteBlind(q) ==
    LET c == job[q].camp IN
    /\ At(q, "approve")
    /\ SetCampaign(c, "approved")
    /\ approvedBy' = [approvedBy EXCEPT ![c] = job[q].user]
    /\ Goto(q, "enqueue_schedule") /\ UNCHANGED local
    /\ UNCHANGED <<rcpt, op, today, broker, outside, manual, counters>>

ApproveWrite(q) ==
    LET c == job[q].camp IN
    /\ At(q, "approve")
    /\ IF camp[c] = "pending_approval"
         THEN /\ SetCampaign(c, "approved")
              /\ approvedBy' = [approvedBy EXCEPT ![c] = job[q].user]
              /\ Goto(q, "enqueue_schedule") /\ UNCHANGED local
         ELSE /\ Return(q)
              /\ UNCHANGED <<camp, approvedBy>>
    /\ UNCHANGED <<rcpt, op, today, broker, outside, manual, counters>>

EnqueueSchedule(q) ==
    /\ At(q, "enqueue_schedule")
    /\ scheduleQ' = [scheduleQ EXCEPT ![job[q].camp] = @ + 1]
    /\ Return(q)
    /\ UNCHANGED <<db, dispatchQ, outside, manual, counters>>

\* An administrator records the outcome of a recipient stuck in `sending`, then
\* the campaign is finalized if that was the last one.
Resolve(q, r) ==
    /\ rcpt[r] = "sending"
    /\ \E outcome \in {"sent", "failed"} : SetRecipient(r, outcome)
    /\ manual' = manual \cup {r}
    /\ Begin(q, "finalize", CampaignOf[r], None, None)
    /\ UNCHANGED <<camp, approvedBy, op, today, broker, outside, counters>>

-----------------------------------------------------------------------------
(* schedule_blast_campaign_task                                            *)

\* Only the invocation that moves approved -> sending goes on.
ScheduleClaim(w, c) ==
    /\ scheduleQ[c] > 0
    /\ scheduleQ' = [scheduleQ EXCEPT ![c] = @ - 1]
    /\ At(w, "idle")
    /\ IF camp[c] = "approved"
         THEN /\ SetCampaign(c, "sending")
              /\ Begin(w, "plan", c, None, None)
         ELSE UNCHANGED <<camp, task>>
    /\ UNCHANGED <<approvedBy, rcpt, op, today, dispatchQ, outside, manual, counters>>

\* The pending recipients are read and given their send times (not modelled).
SchedulePlan(w) ==
    /\ At(w, "plan")
    /\ todo' = [todo EXCEPT ![w] = {r \in Members(job[w].camp) : rcpt[r] = "pending"}]
    /\ Goto(w, "enqueue_dispatch")
    /\ UNCHANGED <<db, broker, job, result, outside, manual, counters>>

\* One apply_async per recipient.
EnqueueDispatch(w) ==
    /\ At(w, "enqueue_dispatch")
    /\ \E r \in todo[w] :
          /\ dispatchQ' = [dispatchQ EXCEPT ![r] = @ + 1]
          /\ todo' = [todo EXCEPT ![w] = @ \ {r}]
    /\ UNCHANGED <<db, scheduleQ, pc, job, result, outside, manual, counters>>

ScheduleReturn(w) ==
    /\ At(w, "enqueue_dispatch")
    /\ todo[w] = {}
    /\ Return(w)
    /\ UNCHANGED <<db, broker, outside, manual, counters>>

-----------------------------------------------------------------------------
(* dispatch_blast_recipient_task                                           *)

\* The campaign is re-checked first; nothing is dispatched unless it is sending.
DispatchStart(w, r) ==
    /\ dispatchQ[r] > 0
    /\ dispatchQ' = [dispatchQ EXCEPT ![r] = @ - 1]
    /\ At(w, "idle")
    /\ IF camp[CampaignOf[r]] = "sending"
         THEN Begin(w, "claim", CampaignOf[r], r, None)
         ELSE UNCHANGED task
    /\ UNCHANGED <<db, scheduleQ, outside, manual, counters>>

\* The claim takes a recipient whose status is in `from`; the loser returns.
ClaimFrom(w, from) ==
    /\ At(w, "claim")
    /\ IF rcpt[job[w].rcpt] \in from
         THEN SetRecipient(job[w].rcpt, "sending") /\ Goto(w, "check_number") /\ UNCHANGED local
         ELSE Return(w) /\ UNCHANGED rcpt
    /\ UNCHANGED <<camp, approvedBy, op, today, broker, outside, manual, counters>>

\* Mutant: a recipient left in `sending` is taken over by the next delivery.
DispatchClaimTakesOver(w) == ClaimFrom(w, {"pending", "sending"})

DispatchClaim(w) == ClaimFrom(w, {"pending"})

\* Mutant: the task ends when the number cannot be checked.
CheckNumberGivesUp(w) ==
    /\ At(w, "check_number")
    /\ \/ \E step \in {"mark_invalid", "register"} : Goto(w, step) /\ UNCHANGED local
       \/ Return(w)
    /\ UNCHANGED <<db, broker, outside, manual, counters>>

\* Only a definite "no such number" ends the dispatch.
CheckNumber(w) ==
    /\ At(w, "check_number")
    /\ \E step \in {"mark_invalid", "register"} : Goto(w, step)
    /\ UNCHANGED <<db, broker, local, outside, manual, counters>>

\* Mutant: the early return for an invalid number skips the finalization.
MarkInvalidOnly(w) ==
    /\ At(w, "mark_invalid")
    /\ SetRecipient(job[w].rcpt, "invalid_number")
    /\ Return(w)
    /\ UNCHANGED <<camp, approvedBy, op, today, broker, outside, manual, counters>>

MarkInvalid(w) ==
    /\ At(w, "mark_invalid")
    /\ SetRecipient(job[w].rcpt, "invalid_number")
    /\ Goto(w, "finalize")
    /\ UNCHANGED <<camp, approvedBy, op, today, broker, local, outside, manual, counters>>

\* get_or_create of the OutboundOperation.  A row that already says `sent` is
\* reflected onto the recipient and nothing is sent.
Register(w) ==
    LET r == job[w].rcpt IN
    /\ At(w, "register")
    /\ IF op[r] = "none"
         THEN op' = [op EXCEPT ![r] = "pending"] /\ today' = today \cup {r}
         ELSE UNCHANGED <<op, today>>
    /\ IF op[r] = "sent"
         THEN SetRecipient(r, "sent") /\ Goto(w, "finalize")
         ELSE Goto(w, "send") /\ UNCHANGED rcpt
    /\ UNCHANGED <<camp, approvedBy, broker, local, outside, manual, counters>>

\* send_blast_message answers `sent` when WAHA said so, `unknown` when the BFF
\* gave up waiting for WAHA, `failed` when WAHA refused, or when the BFF could not
\* be reached or did not answer in time: WAHA may have been called all the same,
\* and WhatsApp may have taken the message.
Answer(outcome, called, took) ==
    /\ outcome \in {"sent", "unknown"} => called
    /\ outcome = "sent" => took
    /\ took => called

Send(w) ==
    LET r == job[w].rcpt IN
    /\ At(w, "send")
    /\ \E outcome \in Outcomes, called \in BOOLEAN, took \in BOOLEAN :
          /\ Answer(outcome, called, took)
          /\ result' = [result EXCEPT ![w] = outcome]
          /\ sends' = IF called THEN [sends EXCEPT ![r] = @ + 1] ELSE sends
          /\ accepted' = IF took THEN accepted \cup {r} ELSE accepted
    /\ Goto(w, "record_operation")
    /\ UNCHANGED <<db, broker, job, todo, manual, counters>>

RecordOperation(w) ==
    /\ At(w, "record_operation")
    /\ op' = [op EXCEPT ![job[w].rcpt] = result[w]]
    /\ Goto(w, "record_recipient")
    /\ UNCHANGED <<camp, approvedBy, rcpt, today, broker, local, outside, manual, counters>>

RecordAs(w, status) ==
    /\ At(w, "record_recipient")
    /\ SetRecipient(job[w].rcpt, status)
    /\ Goto(w, "finalize")
    /\ UNCHANGED <<camp, approvedBy, op, today, broker, local, outside, manual, counters>>

\* Mutant: BFF's word is stored as it came.
RecordRaw(w) == RecordAs(w, result[w])

\* Mutant: a message that may have been taken counts as sent.
RecordUnlessFailed(w) == RecordAs(w, IF result[w] = "failed" THEN "failed" ELSE "sent")

\* Whatever is not `sent` is recorded as `failed`; the row's current status is
\* not looked at.
RecordRecipient(w) == RecordAs(w, IF result[w] = "sent" THEN "sent" ELSE "failed")

-----------------------------------------------------------------------------
(* _maybe_finalize_campaign: read the statuses, then a compare-and-set.    *)

FinalStatus(c) ==
    IF \A r \in Members(c) : rcpt[r] = "failed" THEN "failed" ELSE "completed"

FinalizeWhen(p, settled) ==
    LET c == job[p].camp IN
    /\ At(p, "finalize")
    /\ IF camp[c] = "sending" /\ Members(c) # {} /\ \A r \in Members(c) : rcpt[r] \in settled
         THEN /\ result' = [result EXCEPT ![p] = FinalStatus(c)]
              /\ Goto(p, "write_final")
              /\ UNCHANGED <<job, todo>>
         ELSE Return(p)
    /\ UNCHANGED <<db, broker, outside, manual, counters>>

\* Mutant: only `pending` recipients keep a campaign open.
FinalizeReadEarly(p) == FinalizeWhen(p, Terminal \cup {"sending"})

\* Mutant: `invalid_number` is not known to be an outcome.
FinalizeReadForgets(p) == FinalizeWhen(p, {"sent", "failed"})

FinalizeRead(p) == FinalizeWhen(p, Terminal)

FinalizeWrite(p) ==
    LET c == job[p].camp IN
    /\ At(p, "write_final")
    /\ IF camp[c] = "sending" THEN SetCampaign(c, result[p]) ELSE UNCHANGED camp
    /\ Return(p)
    /\ UNCHANGED <<approvedBy, rcpt, op, today, broker, outside, manual, counters>>

-----------------------------------------------------------------------------
(* The environment                                                         *)

\* Midnight in Asia/Jakarta: blast_sends_today counts from zero again.
NewDay ==
    /\ today # {}
    /\ today' = {}
    /\ UNCHANGED <<camp, approvedBy, rcpt, op, broker, task, outside, manual, counters>>

\* A message still waiting for its worker is delivered a second time.
Redeliver ==
    /\ redeliveries < MaxRedeliveries
    /\ redeliveries' = redeliveries + 1
    /\ \/ /\ \E r \in Recipients :
                dispatchQ[r] > 0 /\ dispatchQ' = [dispatchQ EXCEPT ![r] = @ + 1]
          /\ UNCHANGED scheduleQ
       \/ /\ \E c \in Campaigns :
                scheduleQ[c] > 0 /\ scheduleQ' = [scheduleQ EXCEPT ![c] = @ + 1]
          /\ UNCHANGED dispatchQ
    /\ UNCHANGED <<db, task, outside, manual, crashes, killed, late>>

\* A process is killed; its task message was acknowledged when it started.
Crash(p) ==
    /\ crashes < MaxCrashes
    /\ ~At(p, "idle")
    /\ crashes' = crashes + 1
    /\ killed' = killed \cup {<<pc[p], job[p]>>}
    /\ Return(p)
    /\ UNCHANGED <<db, broker, outside, manual, redeliveries, late>>

-----------------------------------------------------------------------------
Request(q) ==
    \/ \E c \in Campaigns : CreateCampaign(q, c)
    \/ CreateRecipients(q)
    \/ \E c \in Campaigns, u \in Users : ApproveCheck(q, c, u)
    \/ ApproveWrite(q)
    \/ EnqueueSchedule(q)
    \/ \E r \in Recipients : Resolve(q, r)

\* The rest of a worker's current task, once it has taken it from the broker.
Continue(w) ==
    \/ SchedulePlan(w) \/ EnqueueDispatch(w) \/ ScheduleReturn(w)
    \/ DispatchClaim(w) \/ CheckNumber(w) \/ MarkInvalid(w) \/ Register(w)
    \/ Send(w) \/ RecordOperation(w) \/ RecordRecipient(w)

Finalize(p) == FinalizeRead(p) \/ FinalizeWrite(p)

Work(w) ==
    \/ \E c \in Campaigns : ScheduleClaim(w, c)
    \/ \E r \in Recipients : DispatchStart(w, r)
    \/ Continue(w)

Next ==
    \/ \E c \in Campaigns : Submit(c) \/ Reject(c)
    \/ \E q \in Requests : Request(q)
    \/ \E w \in Workers : Work(w)
    \/ \E p \in Procs : Finalize(p) \/ Crash(p)
    \/ NewDay
    \/ Redeliver

Spec == Init /\ [][Next]_vars

\* Workers and request threads keep running, and workers keep taking messages.
FairSpec ==
    /\ Spec
    /\ \A w \in Workers : WF_vars(Work(w))
    /\ \A q \in Requests : WF_vars(CreateRecipients(q) \/ ApproveWrite(q) \/ EnqueueSchedule(q))
    /\ \A p \in Procs : WF_vars(Finalize(p))

-----------------------------------------------------------------------------
(* Properties                                                              *)

\* Every variable keeps its type: the states a row or a handler can be in.
TypeOK ==
    /\ camp \in [Campaigns -> CampaignStatus]
    /\ approvedBy \in [Campaigns -> Users \cup {None}]
    /\ rcpt \in [Recipients -> RecipientStatus]
    /\ op \in [Recipients -> OperationStatus]
    /\ today \subseteq Recipients
    /\ scheduleQ \in [Campaigns -> Nat]
    /\ dispatchQ \in [Recipients -> Nat]
    /\ pc \in [Procs -> Steps]
    /\ job \in [Procs -> Job]
    /\ todo \in [Procs -> SUBSET Recipients]
    /\ result \in [Procs -> Outcomes \cup {"completed", "none"}]
    /\ sends \in [Recipients -> Nat]
    /\ accepted \subseteq Recipients
    /\ manual \subseteq Recipients
    /\ redeliveries \in 0..MaxRedeliveries
    /\ crashes \in 0..MaxCrashes
    /\ killed \subseteq Steps \X Job
    /\ late \subseteq Recipients

\* The steps of a dispatch after it won the claim on its recipient.
Claimed == {"check_number", "mark_invalid", "register", "send",
            "record_operation", "record_recipient"}
Holds(w, r) == pc[w] \in Claimed /\ job[w].rcpt = r

\* WAHA is asked to send to a recipient at most once, however often its task is
\* delivered, whoever is killed, and whatever an administrator resolves while a
\* worker is in flight (tasks.py: the claim and the OutboundOperation row).
AtMostOneSend == \A r \in Recipients : sends[r] <= 1

\* A campaign that says completed or failed has recipients, and each of them has
\* an outcome, although its statuses are read one statement before the campaign
\* is closed (_maybe_finalize_campaign).
FinishedIsSettled ==
    \A c \in Campaigns : camp[c] \in {"completed", "failed"} =>
        Members(c) # {} /\ \A r \in Members(c) : rcpt[r] \in Terminal

\* Once its dispatch is over, a recipient says `sent` exactly when its
\* OutboundOperation does, however often it was delivered and whoever was killed,
\* unless the dispatch was killed between its two writes, or an administrator
\* resolved the recipient: whose outcome should stand then, the code and the
\* comment on _resolve_sending_recipient decide differently (README, section 10).
CutShort(r) == \E k \in killed : k[1] = "record_recipient" /\ k[2].rcpt = r
LedgerAgrees ==
    \A r \in Recipients \ manual :
        (op[r] \in Outcomes /\ (\A w \in Workers : ~Holds(w, r)) /\ ~CutShort(r))
            => (rcpt[r] = "sent" <=> op[r] = "sent")

\* A recipient says `sent` only if WhatsApp took its message or an administrator
\* answered for it; an OutboundOperation says so only if WhatsApp took it.
SentIsJustified ==
    \A r \in Recipients :
        /\ rcpt[r] = "sent" => r \in accepted \cup manual
        /\ op[r] = "sent" => r \in accepted

AllSettled(c) == Members(c) # {} /\ \A r \in Members(c) : rcpt[r] \in Terminal
HasFinalizer(c) == \E p \in Procs : pc[p] \in {"finalize", "write_final"} /\ job[p].camp = c

\* When the last recipients are settled at nearly the same time, the campaign is
\* not left open: somebody who saw the last outcome is still to finalize it.
\* What can lose it is only a kill between that write and the finalization, of
\* this campaign; whoever is killed elsewhere, it is finalized.
LostFinalizer(c) == \E k \in killed : k[1] \in {"finalize", "write_final"} /\ k[2].camp = c
NoLostFinalization ==
    \A c \in Campaigns :
        camp[c] = "sending" /\ AllSettled(c) => HasFinalizer(c) \/ LostFinalizer(c)

\* Where processes were killed while they worked for a campaign, or a recipient.
KilledAt(steps, c) == \E k \in killed : k[1] \in steps /\ k[2].camp = c
KilledFor(steps, r) == \E k \in killed : k[1] \in steps /\ k[2].rcpt = r

\* The schedule task of a campaign, or the dispatch of a recipient, is still to come.
ToSchedule(c) == scheduleQ[c] > 0 \/ \E p \in Procs : At(p, "enqueue_schedule") /\ job[p].camp = c
ToDispatch(r) ==
    \/ dispatchQ[r] > 0
    \/ \E p \in Procs : At(p, "plan") /\ job[p].camp = CampaignOf[r]
    \/ \E p \in Procs : At(p, "enqueue_dispatch") /\ r \in todo[p]
    \/ \E p \in Procs : At(p, "claim") /\ job[p].rcpt = r

ScheduleKept ==
    \A c \in Campaigns : camp[c] = "approved" => ToSchedule(c) \/ KilledAt({"enqueue_schedule"}, c)
DispatchKept ==
    \A r \in Recipients \ late : camp[CampaignOf[r]] = "sending" /\ rcpt[r] = "pending" =>
        \/ ToDispatch(r)
        \/ KilledAt({"plan", "enqueue_dispatch"}, CampaignOf[r]) \/ KilledFor({"claim"}, r)
ClaimKept ==
    \A r \in Recipients : rcpt[r] = "sending" => (\E p \in Procs : Holds(p, r)) \/ KilledFor(Claimed, r)

\* No work is dropped on the way: what an approved campaign has yet to do is in the
\* broker or in a process's hands, whoever wins which claim and returns early.  Lost
\* is what a killed process had in hand (tasks.py: "the unscheduled remainder
\* simply never dispatches"), and recipients inserted after the campaign had started.
NoLostWork == ScheduleKept /\ DispatchKept /\ ClaimKept

\* A row's status only moves on: pending, sending, settled.
MovesOn ==
    \A r \in Recipients :
        /\ rcpt[r] \in Terminal => rcpt'[r] \in Terminal
        /\ rcpt[r] = "sending" => rcpt'[r] \in {"sending"} \cup Terminal
        /\ rcpt[r] = "pending" => rcpt'[r] \in {"pending", "sending"}

\* No step takes a settled recipient back to pending or sending, or a claimed
\* one back to pending: a recipient is dispatched once (models.py: `sending`
\* guards against a double pick).
RecipientNeverReopens == [][MovesOn]_vars

\* The workflow keeps the promises of BlastContract: the table of allowed
\* transitions, approval by a second person, one attempt per recipient and only
\* in a started campaign, and no campaign finished before its recipients are.
Contract == INSTANCE BlastContract WITH
                status <- camp,
                approver <- approvedBy,
                attempts <- sends,
                settled <- {r \in Recipients : rcpt[r] \in Terminal}
ContractSpec == Contract!Spec

\* A campaign approved with its recipients in place is eventually closed, when no
\* process is killed: every recipient gets its task, every task settles its
\* recipient, and the last one finalizes the campaign.
ApprovedFinishes ==
    \A c \in Campaigns :
        (camp[c] = "approved" /\ Members(c) = RecipientsOf(c))
            ~> camp[c] \in {"completed", "failed"}
=============================================================================
