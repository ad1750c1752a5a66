---------------------------- MODULE BlastProofs ----------------------------
(***************************************************************************)
(* Theorems about Blast for any number of campaigns, recipients, workers   *)
(* and request threads, any budget, and any number of redeliveries and     *)
(* kills: the type invariant, the inductive invariant, and what follows    *)
(* from it.                                                                *)
(***************************************************************************)
EXTENDS Blast, TLAPS

-----------------------------------------------------------------------------
(* The inductive invariant                                                 *)

\* A campaign's recipients are inserted by one statement: all of them exist, or
\* none does, and none does while the request that will insert them runs.
RowsTogether ==
    /\ \A r, s \in Recipients :
          CampaignOf[r] = CampaignOf[s] /\ rcpt[r] = "absent" => rcpt[s] = "absent"
    /\ \A p \in Procs : At(p, "create_recipients") =>
          /\ job[p].camp \in Campaigns
          /\ camp[job[p].camp] # "none"
          /\ \A r \in Recipients : CampaignOf[r] = job[p].camp => rcpt[r] = "absent"
    /\ \A p, q \in Procs :
          At(p, "create_recipients") /\ At(q, "create_recipients")
             /\ job[p].camp = job[q].camp => p = q
    /\ \A r \in Recipients : camp[CampaignOf[r]] = "none" => rcpt[r] = "absent"

\* Work on a recipient happens only in a campaign that was started.
StartedFirst ==
    /\ \A r \in Recipients :
          dispatchQ[r] > 0 \/ rcpt[r] \notin {"absent", "pending"} => Started(CampaignOf[r])
    /\ \A p \in Procs :
          /\ pc[p] \in {"plan", "enqueue_dispatch"} =>
                job[p].camp \in Campaigns /\ Started(job[p].camp)
          /\ At(p, "enqueue_dispatch") => \A r \in todo[p] : CampaignOf[r] = job[p].camp
    /\ \A p \in Procs : At(p, "claim") => Started(CampaignOf[job[p].rcpt])

\* A dispatch knows its recipient; once it has claimed it, no other does.
ClaimIsExclusive ==
    /\ \A p \in Procs : pc[p] \in Claimed \cup {"claim"} =>
          /\ job[p].rcpt \in Recipients
          /\ job[p].camp = CampaignOf[job[p].rcpt]
    /\ \A p \in Procs : pc[p] \in Claimed =>
          rcpt[job[p].rcpt] \notin {"absent", "pending"}
    /\ \A p, q \in Procs :
          pc[p] \in Claimed /\ pc[q] \in Claimed /\ job[p].rcpt = job[q].rcpt
             => p = q

\* WAHA has not been called for a recipient that nobody claimed, nor before the
\* claiming dispatch stands at its one call.
SendOnce ==
    /\ \A r \in Recipients : sends[r] <= 1
    /\ \A r \in Recipients : rcpt[r] \in {"absent", "pending"} =>
          sends[r] = 0 /\ op[r] = "none"
    /\ \A p \in Procs : pc[p] \in {"check_number", "mark_invalid", "register"} =>
          sends[job[p].rcpt] = 0 /\ op[job[p].rcpt] = "none"
    /\ \A p \in Procs : At(p, "send") => sends[job[p].rcpt] = 0

\* The outcome a dispatch carries to its two writes is one of BFF's three.
OutcomeKnown ==
    \A p \in Procs :
       pc[p] \in {"record_operation", "record_recipient"} => result[p] \in Outcomes

\* What a finalizer read stays true until it writes: settled stays settled.
FinalizerIsRight ==
    /\ \A p \in Procs : pc[p] \in {"finalize", "write_final"} =>
          job[p].camp \in Campaigns
    /\ \A p \in Procs : At(p, "write_final") =>
          /\ result[p] \in {"completed", "failed"}
          /\ Members(job[p].camp) # {}
          /\ \A r \in Members(job[p].camp) : rcpt[r] \in Terminal

\* An approval in progress is by somebody who may approve.
ApproverIsEntitled ==
    /\ \A p \in Procs : At(p, "approve") =>
          /\ job[p].camp \in Campaigns
          /\ job[p].user \in Users
          /\ MayApprove(job[p].user, job[p].camp)
    /\ \A p \in Procs : At(p, "enqueue_schedule") => job[p].camp \in Campaigns

\* A dispatch that carries the outcome `sent` was told so by WAHA.
AcceptanceIsKnown ==
    /\ SentIsJustified
    /\ \A p \in Procs :
          pc[p] \in {"record_operation", "record_recipient"} /\ result[p] = "sent"
             => job[p].rcpt \in accepted

\* The two writes of a dispatch carry one outcome, and when it is over the
\* recipient says what its OutboundOperation says, unless it was cut short.
LedgerIsSettled ==
    /\ \A p \in Procs : pc[p] \in {"register", "check_number", "mark_invalid", "send", "record_operation"} =>
          op[job[p].rcpt] \notin Outcomes
    /\ \A p \in Procs : At(p, "record_recipient") => op[job[p].rcpt] = result[p]
    /\ \A r \in Recipients :
          (op[r] \in Outcomes /\ (\A w \in Workers : ~Holds(w, r)) /\ ~CutShort(r))
             => rcpt[r] = IF op[r] = "sent" THEN "sent" ELSE "failed"

IInv ==
    /\ TypeOK
    /\ RowsTogether
    /\ StartedFirst
    /\ ClaimIsExclusive
    /\ SendOnce
    /\ OutcomeKnown
    /\ FinalizerIsRight
    /\ ApproverIsEntitled
    /\ FinishedIsSettled
    /\ NoLostFinalization
    /\ NoLostWork
    /\ AcceptanceIsKnown
    /\ LedgerIsSettled

-----------------------------------------------------------------------------
(* Steps                                                                   *)

\* The types of the processes' own variables.
LocalOK ==
    /\ pc \in [Procs -> Steps]
    /\ job \in [Procs -> Job]
    /\ todo \in [Procs -> SUBSET Recipients]
    /\ result \in [Procs -> Outcomes \cup {"completed", "none"}]

\* Starting, leaving and going on with a handler keeps them.
LEMMA LocalTyped ==
  ASSUME LocalOK, NEW p \in Procs
  PROVE  /\ \A step \in Steps, c \in Campaigns \cup {None}, r \in Recipients \cup {None},
               u \in Users \cup {None} : Begin(p, step, c, r, u) => LocalOK'
         /\ Return(p) => LocalOK'
         /\ \A step \in Steps : Goto(p, step) => pc' \in [Procs -> Steps]
<1>1. ASSUME NEW step \in Steps, NEW c \in Campaigns \cup {None}, NEW r \in Recipients \cup {None},
             NEW u \in Users \cup {None}, Begin(p, step, c, r, u)
      PROVE  LocalOK'
  <2>1. [camp |-> c, rcpt |-> r, user |-> u] \in Job
    BY DEF Job
  <2>2. QED
    BY <1>1, <2>1 DEF LocalOK, Begin, Goto
<1>2. ASSUME Return(p) PROVE LocalOK'
  <2>1. NoJob \in Job /\ "idle" \in Steps
    BY DEF Job, NoJob, Steps
  <2>2. QED
    BY <1>2, <2>1 DEF LocalOK, Return, Goto
<1>3. ASSUME NEW step \in Steps, Goto(p, step) PROVE pc' \in [Procs -> Steps]
  BY <1>3 DEF LocalOK, Goto
<1>4. QED
  BY <1>1, <1>2, <1>3

\* Every step of the system keeps the types.
LEMMA TypeStep == IInv /\ [Next]_vars => TypeOK'
<1> SUFFICES ASSUME IInv, [Next]_vars PROVE TypeOK'
  OBVIOUS
<1>a. TypeOK /\ ClaimIsExclusive /\ OutcomeKnown /\ FinalizerIsRight /\ ApproverIsEntitled
  BY DEF IInv
<1>b. LocalOK
  BY <1>a DEF TypeOK, LocalOK
<1> USE BlastAssumption, <1>a, <1>b, LocalTyped
    DEF TypeOK, LocalOK, SetCampaign, SetRecipient, Procs, local, task, broker, outside,
        counters, db,
        CampaignStatus, RecipientStatus, OperationStatus, Terminal, Outcomes, Steps
<1>1. ASSUME NEW c \in Campaigns, Submit(c) \/ Reject(c) PROVE TypeOK'
  BY <1>1 DEF Submit, Reject
<1>2. ASSUME NEW q \in Requests, NEW c \in Campaigns, CreateCampaign(q, c) PROVE TypeOK'
  BY <1>2 DEF CreateCampaign
<1>3. ASSUME NEW q \in Requests, CreateRecipients(q) PROVE TypeOK'
  <2>1. late' \subseteq Recipients
    BY <1>3 DEF CreateRecipients, RecipientsOf
  <2>2. UNCHANGED <<camp, approvedBy, op, today, broker, outside, manual, redeliveries, crashes, killed>>
    BY <1>3 DEF CreateRecipients
  <2>3. LocalOK' /\ rcpt' \in [Recipients -> RecipientStatus]
    BY <1>3 DEF CreateRecipients
  <2>4. QED
    BY <2>1, <2>2, <2>3
<1>4. ASSUME NEW q \in Requests, NEW c \in Campaigns, NEW u \in Users, ApproveCheck(q, c, u)
      PROVE  TypeOK'
  BY <1>4 DEF ApproveCheck
<1>5. ASSUME NEW q \in Requests, ApproveWrite(q) PROVE TypeOK'
  <2>1. job[q].camp \in Campaigns /\ job[q].user \in Users
    BY <1>5 DEF ApproveWrite, ApproverIsEntitled, At
  <2>2. UNCHANGED <<rcpt, op, today, broker, outside, manual, counters>>
    BY <1>5 DEF ApproveWrite
  <2>3. CASE camp[job[q].camp] = "pending_approval"
    <3>1. /\ camp' = [camp EXCEPT ![job[q].camp] = "approved"]
          /\ approvedBy' = [approvedBy EXCEPT ![job[q].camp] = job[q].user]
          /\ Goto(q, "enqueue_schedule") /\ UNCHANGED local
      BY <1>5, <2>3 DEF ApproveWrite
    <3>2. LocalOK'
      BY <3>1
    <3>3. camp' \in [Campaigns -> CampaignStatus] /\ approvedBy' \in [Campaigns -> Users \cup {None}]
      BY <2>1, <3>1
    <3>4. QED
      BY <2>2, <3>2, <3>3
  <2>4. CASE camp[job[q].camp] # "pending_approval"
    <3>1. Return(q) /\ UNCHANGED <<camp, approvedBy>>
      BY <1>5, <2>4 DEF ApproveWrite
    <3>2. QED
      BY <2>2, <3>1
  <2>5. QED
    BY <2>3, <2>4
<1>6. ASSUME NEW q \in Requests, EnqueueSchedule(q) PROVE TypeOK'
  BY <1>6 DEF EnqueueSchedule, ApproverIsEntitled, At
<1>7. ASSUME NEW q \in Requests, NEW r \in Recipients, Resolve(q, r) PROVE TypeOK'
  BY <1>7 DEF Resolve
<1>8. ASSUME NEW w \in Workers, NEW c \in Campaigns, ScheduleClaim(w, c) PROVE TypeOK'
  <2>1. CASE camp[c] = "approved"
    <3>1. Begin(w, "plan", c, None, None) /\ SetCampaign(c, "sending")
      BY <1>8, <2>1 DEF ScheduleClaim
    <3>2. LocalOK'
      BY <3>1
    <3>3. scheduleQ' \in [Campaigns -> Nat]
      BY <1>8 DEF ScheduleClaim
    <3>4. QED
      BY <1>8, <3>1, <3>2, <3>3 DEF ScheduleClaim
  <2>2. CASE camp[c] # "approved"
    BY <1>8, <2>2 DEF ScheduleClaim
  <2>3. QED
    BY <2>1, <2>2
<1>9. ASSUME NEW w \in Workers, SchedulePlan(w) PROVE TypeOK'
  BY <1>9 DEF SchedulePlan, Members, RecipientsOf
<1>10. ASSUME NEW w \in Workers, EnqueueDispatch(w) PROVE TypeOK'
  BY <1>10 DEF EnqueueDispatch
<1>11. ASSUME NEW w \in Workers, ScheduleReturn(w) PROVE TypeOK'
  BY <1>11 DEF ScheduleReturn
<1>12. ASSUME NEW w \in Workers, NEW r \in Recipients, DispatchStart(w, r) PROVE TypeOK'
  BY <1>12 DEF DispatchStart
<1>13. ASSUME NEW w \in Workers, DispatchClaim(w) PROVE TypeOK'
  BY <1>13 DEF DispatchClaim, ClaimFrom, ClaimIsExclusive, Claimed, At
<1>14. ASSUME NEW w \in Workers, CheckNumber(w) PROVE TypeOK'
  BY <1>14 DEF CheckNumber, At
<1>15. ASSUME NEW w \in Workers, MarkInvalid(w) PROVE TypeOK'
  BY <1>15 DEF MarkInvalid, At
<1>16. ASSUME NEW w \in Workers, Register(w) PROVE TypeOK'
  <2>1. job[w].rcpt \in Recipients
    BY <1>16 DEF Register, ClaimIsExclusive, Claimed, At
  <2>2. LocalOK'
    BY <1>16 DEF Register
  <2>3. op' \in [Recipients -> OperationStatus] /\ today' \subseteq Recipients
    <3>1. CASE op[job[w].rcpt] = "none"
      <4>1. op' = [op EXCEPT ![job[w].rcpt] = "pending"] /\ today' = today \cup {job[w].rcpt}
        BY <1>16, <3>1 DEF Register
      <4>2. QED
        BY <2>1, <4>1
    <3>2. CASE op[job[w].rcpt] # "none"
      BY <1>16, <3>2 DEF Register
    <3>3. QED
      BY <3>1, <3>2
  <2>4. rcpt' \in [Recipients -> RecipientStatus]
    BY <1>16, <2>1 DEF Register
  <2>5. QED
    BY <1>16, <2>2, <2>3, <2>4 DEF Register
<1>17. ASSUME NEW w \in Workers, Send(w) PROVE TypeOK'
  BY <1>17 DEF Send, Answer, ClaimIsExclusive, Claimed, At
<1>18. ASSUME NEW w \in Workers, RecordOperation(w) PROVE TypeOK'
  BY <1>18 DEF RecordOperation, OutcomeKnown, At
<1>19. ASSUME NEW w \in Workers, RecordRecipient(w) PROVE TypeOK'
  BY <1>19 DEF RecordRecipient, RecordAs, At
<1>20. ASSUME NEW p \in Procs, FinalizeRead(p) PROVE TypeOK'
  <2>1. FinalStatus(job[p].camp) \in {"failed", "completed"}
    BY DEF FinalStatus
  <2>2. QED
    <3>1. LocalOK'
      <4>1. CASE Return(p)
        BY <4>1
      <4>2. CASE /\ result' = [result EXCEPT ![p] = FinalStatus(job[p].camp)]
                 /\ Goto(p, "write_final")
                 /\ UNCHANGED <<job, todo>>
        BY <2>1, <4>2
      <4>3. QED
        BY <1>20, <4>1, <4>2 DEF FinalizeRead, FinalizeWhen
    <3>2. QED
      BY <1>20, <3>1 DEF FinalizeRead, FinalizeWhen
<1>21. ASSUME NEW p \in Procs, FinalizeWrite(p) PROVE TypeOK'
  <2>1. camp' \in [Campaigns -> CampaignStatus]
    <3>1. job[p].camp \in Campaigns /\ result[p] \in {"completed", "failed"}
      BY <1>21 DEF FinalizeWrite, FinalizerIsRight, At
    <3>2. \/ camp' = [camp EXCEPT ![job[p].camp] = result[p]]
          \/ camp' = camp
      BY <1>21 DEF FinalizeWrite
    <3>3. QED
      BY <3>1, <3>2
  <2>2. LocalOK'
    BY <1>21 DEF FinalizeWrite
  <2>3. QED
    BY <1>21, <2>1, <2>2 DEF FinalizeWrite
<1>22. CASE NewDay
  BY <1>22 DEF NewDay
<1>23. CASE Redeliver
  <2>1. dispatchQ' \in [Recipients -> Nat] /\ scheduleQ' \in [Campaigns -> Nat]
    <3>1. CASE \E r \in Recipients : dispatchQ' = [dispatchQ EXCEPT ![r] = @ + 1] /\ UNCHANGED scheduleQ
      BY <3>1
    <3>2. CASE \E c \in Campaigns : scheduleQ' = [scheduleQ EXCEPT ![c] = @ + 1] /\ UNCHANGED dispatchQ
      BY <3>2
    <3>3. QED
      BY <1>23, <3>1, <3>2 DEF Redeliver
  <2>2. redeliveries' \in 0..MaxRedeliveries
    BY <1>23 DEF Redeliver
  <2>3. QED
    BY <1>23, <2>1, <2>2 DEF Redeliver, task
<1>24. ASSUME NEW p \in Procs, Crash(p) PROVE TypeOK'
  BY <1>24 DEF Crash, At
<1>25. CASE UNCHANGED vars
  BY <1>25 DEF vars
<1>26. QED
  BY <1>1, <1>2, <1>3, <1>4, <1>5, <1>6, <1>7, <1>8, <1>9, <1>10, <1>11, <1>12, <1>13,
     <1>14, <1>15, <1>16, <1>17, <1>18, <1>19, <1>20, <1>21, <1>22, <1>23, <1>24, <1>25
     DEF Next, Request, Work, Continue, Finalize

\* A campaign's rows appear once and together.
LEMMA RowsTogetherStep == IInv /\ [Next]_vars => RowsTogether'
<1> SUFFICES ASSUME IInv, [Next]_vars PROVE RowsTogether'
  OBVIOUS
<1>a. TypeOK /\ RowsTogether /\ StartedFirst /\ ClaimIsExclusive /\ FinalizerIsRight
  BY DEF IInv
<1> USE BlastAssumption, <1>a DEF TypeOK, At, Goto, SetCampaign, SetRecipient, Procs,
        local, task, broker, outside, counters, db, RowsTogether, ClaimIsExclusive, Claimed,
        Terminal, FinalizerIsRight
<1>1. ASSUME NEW c \in Campaigns, Submit(c) \/ Reject(c) PROVE RowsTogether'
  BY <1>1 DEF Submit, Reject
<1>2. ASSUME NEW q \in Requests, NEW c \in Campaigns, CreateCampaign(q, c) PROVE RowsTogether'
  BY <1>2 DEF CreateCampaign, Begin
<1>3. ASSUME NEW q \in Requests, CreateRecipients(q) PROVE RowsTogether'
  BY <1>3 DEF CreateRecipients, Return
<1>4. ASSUME NEW q \in Requests, NEW c \in Campaigns, NEW u \in Users, ApproveCheck(q, c, u) PROVE RowsTogether'
  BY <1>4 DEF ApproveCheck, Begin
<1>5. ASSUME NEW q \in Requests, ApproveWrite(q) PROVE RowsTogether'
  BY <1>5 DEF ApproveWrite, Return
<1>6. ASSUME NEW q \in Requests, EnqueueSchedule(q) PROVE RowsTogether'
  BY <1>6 DEF EnqueueSchedule, Return
<1>7. ASSUME NEW q \in Requests, NEW r \in Recipients, Resolve(q, r) PROVE RowsTogether'
  BY <1>7 DEF Resolve, Begin
<1>8. ASSUME NEW w \in Workers, NEW c \in Campaigns, ScheduleClaim(w, c) PROVE RowsTogether'
  BY <1>8 DEF ScheduleClaim, Begin
<1>9. ASSUME NEW w \in Workers, SchedulePlan(w) PROVE RowsTogether'
  BY <1>9 DEF SchedulePlan
<1>10. ASSUME NEW w \in Workers, EnqueueDispatch(w) PROVE RowsTogether'
  BY <1>10 DEF EnqueueDispatch
<1>11. ASSUME NEW w \in Workers, ScheduleReturn(w) PROVE RowsTogether'
  BY <1>11 DEF ScheduleReturn, Return
<1>12. ASSUME NEW w \in Workers, NEW r \in Recipients, DispatchStart(w, r) PROVE RowsTogether'
  BY <1>12 DEF DispatchStart, Begin
<1>13. ASSUME NEW w \in Workers, DispatchClaim(w) PROVE RowsTogether'
  BY <1>13 DEF DispatchClaim, ClaimFrom, Return
<1>14. ASSUME NEW w \in Workers, CheckNumber(w) PROVE RowsTogether'
  BY <1>14 DEF CheckNumber
<1>15. ASSUME NEW w \in Workers, MarkInvalid(w) PROVE RowsTogether'
  BY <1>15 DEF MarkInvalid
<1>16. ASSUME NEW w \in Workers, Register(w) PROVE RowsTogether'
  BY <1>16 DEF Register
<1>17. ASSUME NEW w \in Workers, Send(w) PROVE RowsTogether'
  BY <1>17 DEF Send, Answer
<1>18. ASSUME NEW w \in Workers, RecordOperation(w) PROVE RowsTogether'
  BY <1>18 DEF RecordOperation
<1>19. ASSUME NEW w \in Workers, RecordRecipient(w) PROVE RowsTogether'
  BY <1>19 DEF RecordRecipient, RecordAs
<1>20. ASSUME NEW p \in Procs, FinalizeRead(p) PROVE RowsTogether'
  BY <1>20 DEF FinalizeRead, FinalizeWhen, Return
<1>21. ASSUME NEW p \in Procs, FinalizeWrite(p) PROVE RowsTogether'
  BY <1>21 DEF FinalizeWrite, Return
<1>22. CASE NewDay
  BY <1>22 DEF NewDay
<1>23. CASE Redeliver
  BY <1>23 DEF Redeliver
<1>24. ASSUME NEW p \in Procs, Crash(p) PROVE RowsTogether'
  BY <1>24 DEF Crash, Return
<1>25. CASE UNCHANGED vars
  BY <1>25 DEF vars
<1>26. QED
  BY <1>1, <1>2, <1>3, <1>4, <1>5, <1>6, <1>7, <1>8, <1>9, <1>10, <1>11, <1>12, <1>13,
     <1>14, <1>15, <1>16, <1>17, <1>18, <1>19, <1>20, <1>21, <1>22, <1>23, <1>24, <1>25
     DEF Next, Request, Work, Continue, Finalize

\* Nothing is done to a recipient before its campaign is started.
LEMMA StartedFirstStep == IInv /\ [Next]_vars => StartedFirst'
<1> SUFFICES ASSUME IInv, [Next]_vars PROVE StartedFirst'
  OBVIOUS
<1>a. TypeOK /\ RowsTogether /\ StartedFirst /\ ClaimIsExclusive /\ FinalizerIsRight
  BY DEF IInv
<1> USE BlastAssumption, <1>a DEF TypeOK, At, Goto, SetCampaign, SetRecipient, Procs,
        local, task, broker, outside, counters, db, StartedFirst, ClaimIsExclusive, Claimed,
        Started, Terminal, FinalizerIsRight
<1>1. ASSUME NEW c \in Campaigns, Submit(c) \/ Reject(c) PROVE StartedFirst'
  BY <1>1 DEF Submit, Reject
<1>2. ASSUME NEW q \in Requests, NEW c \in Campaigns, CreateCampaign(q, c) PROVE StartedFirst'
  BY <1>2 DEF CreateCampaign, Begin
<1>3. ASSUME NEW q \in Requests, CreateRecipients(q) PROVE StartedFirst'
  BY <1>3 DEF CreateRecipients, Return
<1>4. ASSUME NEW q \in Requests, NEW c \in Campaigns, NEW u \in Users, ApproveCheck(q, c, u) PROVE StartedFirst'
  BY <1>4 DEF ApproveCheck, Begin
<1>5. ASSUME NEW q \in Requests, ApproveWrite(q) PROVE StartedFirst'
  BY <1>5 DEF ApproveWrite, Return
<1>6. ASSUME NEW q \in Requests, EnqueueSchedule(q) PROVE StartedFirst'
  BY <1>6 DEF EnqueueSchedule, Return
<1>7. ASSUME NEW q \in Requests, NEW r \in Recipients, Resolve(q, r) PROVE StartedFirst'
  BY <1>7 DEF Resolve, Begin
<1>8. ASSUME NEW w \in Workers, NEW c \in Campaigns, ScheduleClaim(w, c) PROVE StartedFirst'
  <2>1. CASE camp[c] = "approved"
    BY <1>8, <2>1 DEF ScheduleClaim, Begin
  <2>2. CASE camp[c] # "approved"
    BY <1>8, <2>2 DEF ScheduleClaim
  <2>3. QED
    BY <2>1, <2>2
<1>9. ASSUME NEW w \in Workers, SchedulePlan(w) PROVE StartedFirst'
  <2>1. \A r \in todo'[w] : CampaignOf[r] = job[w].camp
    BY <1>9 DEF SchedulePlan, Members, RecipientsOf
  <2>2. QED
    BY <1>9, <2>1 DEF SchedulePlan
<1>10. ASSUME NEW w \in Workers, EnqueueDispatch(w) PROVE StartedFirst'
  BY <1>10 DEF EnqueueDispatch
<1>11. ASSUME NEW w \in Workers, ScheduleReturn(w) PROVE StartedFirst'
  BY <1>11 DEF ScheduleReturn, Return
<1>12. ASSUME NEW w \in Workers, NEW r \in Recipients, DispatchStart(w, r) PROVE StartedFirst'
  BY <1>12 DEF DispatchStart, Begin
<1>13. ASSUME NEW w \in Workers, DispatchClaim(w) PROVE StartedFirst'
  BY <1>13 DEF DispatchClaim, ClaimFrom, Return
<1>14. ASSUME NEW w \in Workers, CheckNumber(w) PROVE StartedFirst'
  BY <1>14 DEF CheckNumber
<1>15. ASSUME NEW w \in Workers, MarkInvalid(w) PROVE StartedFirst'
  BY <1>15 DEF MarkInvalid
<1>16. ASSUME NEW w \in Workers, Register(w) PROVE StartedFirst'
  BY <1>16 DEF Register
<1>17. ASSUME NEW w \in Workers, Send(w) PROVE StartedFirst'
  BY <1>17 DEF Send, Answer
<1>18. ASSUME NEW w \in Workers, RecordOperation(w) PROVE StartedFirst'
  BY <1>18 DEF RecordOperation
<1>19. ASSUME NEW w \in Workers, RecordRecipient(w) PROVE StartedFirst'
  BY <1>19 DEF RecordRecipient, RecordAs
<1>20. ASSUME NEW p \in Procs, FinalizeRead(p) PROVE StartedFirst'
  BY <1>20 DEF FinalizeRead, FinalizeWhen, Return
<1>21. ASSUME NEW p \in Procs, FinalizeWrite(p) PROVE StartedFirst'
  BY <1>21 DEF FinalizeWrite, Return
<1>22. CASE NewDay
  BY <1>22 DEF NewDay
<1>23. CASE Redeliver
  BY <1>23 DEF Redeliver
<1>24. ASSUME NEW p \in Procs, Crash(p) PROVE StartedFirst'
  BY <1>24 DEF Crash, Return
<1>25. CASE UNCHANGED vars
  BY <1>25 DEF vars
<1>26. QED
  BY <1>1, <1>2, <1>3, <1>4, <1>5, <1>6, <1>7, <1>8, <1>9, <1>10, <1>11, <1>12, <1>13,
     <1>14, <1>15, <1>16, <1>17, <1>18, <1>19, <1>20, <1>21, <1>22, <1>23, <1>24, <1>25
     DEF Next, Request, Work, Continue, Finalize

\* The claim compare-and-set has one winner per recipient.
LEMMA ClaimIsExclusiveStep == IInv /\ [Next]_vars => ClaimIsExclusive'
<1> SUFFICES ASSUME IInv, [Next]_vars PROVE ClaimIsExclusive'
  OBVIOUS
<1>a. TypeOK /\ ClaimIsExclusive /\ RowsTogether
  BY DEF IInv
<1> USE BlastAssumption, <1>a DEF TypeOK, At, Goto, SetCampaign, SetRecipient, Procs,
        local, task, broker, outside, counters, db, ClaimIsExclusive, Claimed, Terminal
<1>1. ASSUME NEW c \in Campaigns, Submit(c) \/ Reject(c) PROVE ClaimIsExclusive'
  BY <1>1 DEF Submit, Reject
<1>2. ASSUME NEW q \in Requests, NEW c \in Campaigns, CreateCampaign(q, c) PROVE ClaimIsExclusive'
  BY <1>2 DEF CreateCampaign, Begin
<1>3. ASSUME NEW q \in Requests, CreateRecipients(q) PROVE ClaimIsExclusive'
  <2>1. \A r \in Recipients :
           rcpt'[r] = rcpt[r] \/ (rcpt[r] = "absent" /\ rcpt'[r] = "pending")
    BY <1>3 DEF CreateRecipients, RowsTogether
  <2>2. QED
    BY <1>3, <2>1 DEF CreateRecipients, Return
<1>4. ASSUME NEW q \in Requests, NEW c \in Campaigns, NEW u \in Users, ApproveCheck(q, c, u) PROVE ClaimIsExclusive'
  BY <1>4 DEF ApproveCheck, Begin
<1>5. ASSUME NEW q \in Requests, ApproveWrite(q) PROVE ClaimIsExclusive'
  BY <1>5 DEF ApproveWrite, Return
<1>6. ASSUME NEW q \in Requests, EnqueueSchedule(q) PROVE ClaimIsExclusive'
  BY <1>6 DEF EnqueueSchedule, Return
<1>7. ASSUME NEW q \in Requests, NEW r \in Recipients, Resolve(q, r) PROVE ClaimIsExclusive'
  BY <1>7 DEF Resolve, Begin
<1>8. ASSUME NEW w \in Workers, NEW c \in Campaigns, ScheduleClaim(w, c) PROVE ClaimIsExclusive'
  BY <1>8 DEF ScheduleClaim, Begin
<1>9. ASSUME NEW w \in Workers, SchedulePlan(w) PROVE ClaimIsExclusive'
  BY <1>9 DEF SchedulePlan
<1>10. ASSUME NEW w \in Workers, EnqueueDispatch(w) PROVE ClaimIsExclusive'
  BY <1>10 DEF EnqueueDispatch
<1>11. ASSUME NEW w \in Workers, ScheduleReturn(w) PROVE ClaimIsExclusive'
  BY <1>11 DEF ScheduleReturn, Return
<1>12. ASSUME NEW w \in Workers, NEW r \in Recipients, DispatchStart(w, r) PROVE ClaimIsExclusive'
  BY <1>12 DEF DispatchStart, Begin
<1>13. ASSUME NEW w \in Workers, DispatchClaim(w) PROVE ClaimIsExclusive'
  BY <1>13 DEF DispatchClaim, ClaimFrom, Return
<1>14. ASSUME NEW w \in Workers, CheckNumber(w) PROVE ClaimIsExclusive'
  BY <1>14 DEF CheckNumber
<1>15. ASSUME NEW w \in Workers, MarkInvalid(w) PROVE ClaimIsExclusive'
  BY <1>15 DEF MarkInvalid
<1>16. ASSUME NEW w \in Workers, Register(w) PROVE ClaimIsExclusive'
  BY <1>16 DEF Register
<1>17. ASSUME NEW w \in Workers, Send(w) PROVE ClaimIsExclusive'
  BY <1>17 DEF Send, Answer
<1>18. ASSUME NEW w \in Workers, RecordOperation(w) PROVE ClaimIsExclusive'
  BY <1>18 DEF RecordOperation
<1>19. ASSUME NEW w \in Workers, RecordRecipient(w) PROVE ClaimIsExclusive'
  BY <1>19 DEF RecordRecipient, RecordAs
<1>20. ASSUME NEW p \in Procs, FinalizeRead(p) PROVE ClaimIsExclusive'
  BY <1>20 DEF FinalizeRead, FinalizeWhen, Return
<1>21. ASSUME NEW p \in Procs, FinalizeWrite(p) PROVE ClaimIsExclusive'
  BY <1>21 DEF FinalizeWrite, Return
<1>22. CASE NewDay
  BY <1>22 DEF NewDay
<1>23. CASE Redeliver
  BY <1>23 DEF Redeliver
<1>24. ASSUME NEW p \in Procs, Crash(p) PROVE ClaimIsExclusive'
  BY <1>24 DEF Crash, Return
<1>25. CASE UNCHANGED vars
  BY <1>25 DEF vars
<1>26. QED
  BY <1>1, <1>2, <1>3, <1>4, <1>5, <1>6, <1>7, <1>8, <1>9, <1>10, <1>11, <1>12, <1>13,
     <1>14, <1>15, <1>16, <1>17, <1>18, <1>19, <1>20, <1>21, <1>22, <1>23, <1>24, <1>25
     DEF Next, Request, Work, Continue, Finalize

\* The winner alone calls WAHA, once.
LEMMA SendOnceStep == IInv /\ [Next]_vars => SendOnce'
<1> SUFFICES ASSUME IInv, [Next]_vars PROVE SendOnce'
  OBVIOUS
<1>a. TypeOK /\ StartedFirst /\ ClaimIsExclusive /\ SendOnce /\ RowsTogether
  BY DEF IInv
<1> USE BlastAssumption, <1>a DEF TypeOK, At, Goto, SetCampaign, SetRecipient, Procs,
        local, task, broker, outside, counters, db, SendOnce, ClaimIsExclusive, Claimed, Terminal
<1>1. ASSUME NEW c \in Campaigns, Submit(c) \/ Reject(c) PROVE SendOnce'
  BY <1>1 DEF Submit, Reject
<1>2. ASSUME NEW q \in Requests, NEW c \in Campaigns, CreateCampaign(q, c) PROVE SendOnce'
  BY <1>2 DEF CreateCampaign, Begin
<1>3. ASSUME NEW q \in Requests, CreateRecipients(q) PROVE SendOnce'
  <2>1. \A r \in Recipients :
           rcpt'[r] = rcpt[r] \/ (rcpt[r] = "absent" /\ rcpt'[r] = "pending")
    BY <1>3 DEF CreateRecipients, RowsTogether
  <2>2. QED
    BY <1>3, <2>1 DEF CreateRecipients, Return
<1>4. ASSUME NEW q \in Requests, NEW c \in Campaigns, NEW u \in Users, ApproveCheck(q, c, u) PROVE SendOnce'
  BY <1>4 DEF ApproveCheck, Begin
<1>5. ASSUME NEW q \in Requests, ApproveWrite(q) PROVE SendOnce'
  BY <1>5 DEF ApproveWrite, Return
<1>6. ASSUME NEW q \in Requests, EnqueueSchedule(q) PROVE SendOnce'
  BY <1>6 DEF EnqueueSchedule, Return
<1>7. ASSUME NEW q \in Requests, NEW r \in Recipients, Resolve(q, r) PROVE SendOnce'
  BY <1>7 DEF Resolve, Begin
<1>8. ASSUME NEW w \in Workers, NEW c \in Campaigns, ScheduleClaim(w, c) PROVE SendOnce'
  BY <1>8 DEF ScheduleClaim, Begin
<1>9. ASSUME NEW w \in Workers, SchedulePlan(w) PROVE SendOnce'
  BY <1>9 DEF SchedulePlan
<1>10. ASSUME NEW w \in Workers, EnqueueDispatch(w) PROVE SendOnce'
  BY <1>10 DEF EnqueueDispatch
<1>11. ASSUME NEW w \in Workers, ScheduleReturn(w) PROVE SendOnce'
  BY <1>11 DEF ScheduleReturn, Return
<1>12. ASSUME NEW w \in Workers, NEW r \in Recipients, DispatchStart(w, r) PROVE SendOnce'
  BY <1>12 DEF DispatchStart, Begin
<1>13. ASSUME NEW w \in Workers, DispatchClaim(w) PROVE SendOnce'
  BY <1>13 DEF DispatchClaim, ClaimFrom, Return
<1>14. ASSUME NEW w \in Workers, CheckNumber(w) PROVE SendOnce'
  BY <1>14 DEF CheckNumber
<1>15. ASSUME NEW w \in Workers, MarkInvalid(w) PROVE SendOnce'
  BY <1>15 DEF MarkInvalid
<1>16. ASSUME NEW w \in Workers, Register(w) PROVE SendOnce'
  BY <1>16 DEF Register
<1>17. ASSUME NEW w \in Workers, Send(w) PROVE SendOnce'
  BY <1>17 DEF Send, Answer
<1>18. ASSUME NEW w \in Workers, RecordOperation(w) PROVE SendOnce'
  BY <1>18 DEF RecordOperation
<1>19. ASSUME NEW w \in Workers, RecordRecipient(w) PROVE SendOnce'
  BY <1>19 DEF RecordRecipient, RecordAs
<1>20. ASSUME NEW p \in Procs, FinalizeRead(p) PROVE SendOnce'
  BY <1>20 DEF FinalizeRead, FinalizeWhen, Return
<1>21. ASSUME NEW p \in Procs, FinalizeWrite(p) PROVE SendOnce'
  BY <1>21 DEF FinalizeWrite, Return
<1>22. CASE NewDay
  BY <1>22 DEF NewDay
<1>23. CASE Redeliver
  BY <1>23 DEF Redeliver
<1>24. ASSUME NEW p \in Procs, Crash(p) PROVE SendOnce'
  BY <1>24 DEF Crash, Return
<1>25. CASE UNCHANGED vars
  BY <1>25 DEF vars
<1>26. QED
  BY <1>1, <1>2, <1>3, <1>4, <1>5, <1>6, <1>7, <1>8, <1>9, <1>10, <1>11, <1>12, <1>13,
     <1>14, <1>15, <1>16, <1>17, <1>18, <1>19, <1>20, <1>21, <1>22, <1>23, <1>24, <1>25
     DEF Next, Request, Work, Continue, Finalize

\* A dispatch reaches its writes with one of the three outcomes.
LEMMA OutcomeKnownStep == IInv /\ [Next]_vars => OutcomeKnown'
<1> SUFFICES ASSUME IInv, [Next]_vars PROVE OutcomeKnown'
  OBVIOUS
<1>a. TypeOK /\ OutcomeKnown
  BY DEF IInv
<1> USE BlastAssumption, <1>a DEF TypeOK, At, Goto, SetCampaign, SetRecipient, Procs,
        local, task, broker, outside, counters, db, OutcomeKnown, Outcomes
<1>1. ASSUME NEW c \in Campaigns, Submit(c) \/ Reject(c) PROVE OutcomeKnown'
  BY <1>1 DEF Submit, Reject
<1>2. ASSUME NEW q \in Requests, NEW c \in Campaigns, CreateCampaign(q, c) PROVE OutcomeKnown'
  BY <1>2 DEF CreateCampaign, Begin
<1>3. ASSUME NEW q \in Requests, CreateRecipients(q) PROVE OutcomeKnown'
  BY <1>3 DEF CreateRecipients, Return
<1>4. ASSUME NEW q \in Requests, NEW c \in Campaigns, NEW u \in Users, ApproveCheck(q, c, u) PROVE OutcomeKnown'
  BY <1>4 DEF ApproveCheck, Begin
<1>5. ASSUME NEW q \in Requests, ApproveWrite(q) PROVE OutcomeKnown'
  BY <1>5 DEF ApproveWrite, Return
<1>6. ASSUME NEW q \in Requests, EnqueueSchedule(q) PROVE OutcomeKnown'
  BY <1>6 DEF EnqueueSchedule, Return
<1>7. ASSUME NEW q \in Requests, NEW r \in Recipients, Resolve(q, r) PROVE OutcomeKnown'
  BY <1>7 DEF Resolve, Begin
<1>8. ASSUME NEW w \in Workers, NEW c \in Campaigns, ScheduleClaim(w, c) PROVE OutcomeKnown'
  BY <1>8 DEF ScheduleClaim, Begin
<1>9. ASSUME NEW w \in Workers, SchedulePlan(w) PROVE OutcomeKnown'
  BY <1>9 DEF SchedulePlan
<1>10. ASSUME NEW w \in Workers, EnqueueDispatch(w) PROVE OutcomeKnown'
  BY <1>10 DEF EnqueueDispatch
<1>11. ASSUME NEW w \in Workers, ScheduleReturn(w) PROVE OutcomeKnown'
  BY <1>11 DEF ScheduleReturn, Return
<1>12. ASSUME NEW w \in Workers, NEW r \in Recipients, DispatchStart(w, r) PROVE OutcomeKnown'
  BY <1>12 DEF DispatchStart, Begin
<1>13. ASSUME NEW w \in Workers, DispatchClaim(w) PROVE OutcomeKnown'
  BY <1>13 DEF DispatchClaim, ClaimFrom, Return
<1>14. ASSUME NEW w \in Workers, CheckNumber(w) PROVE OutcomeKnown'
  BY <1>14 DEF CheckNumber
<1>15. ASSUME NEW w \in Workers, MarkInvalid(w) PROVE OutcomeKnown'
  BY <1>15 DEF MarkInvalid
<1>16. ASSUME NEW w \in Workers, Register(w) PROVE OutcomeKnown'
  BY <1>16 DEF Register
<1>17. ASSUME NEW w \in Workers, Send(w) PROVE OutcomeKnown'
  BY <1>17 DEF Send, Answer
<1>18. ASSUME NEW w \in Workers, RecordOperation(w) PROVE OutcomeKnown'
  BY <1>18 DEF RecordOperation
<1>19. ASSUME NEW w \in Workers, RecordRecipient(w) PROVE OutcomeKnown'
  BY <1>19 DEF RecordRecipient, RecordAs
<1>20. ASSUME NEW p \in Procs, FinalizeRead(p) PROVE OutcomeKnown'
  BY <1>20 DEF FinalizeRead, FinalizeWhen, Return
<1>21. ASSUME NEW p \in Procs, FinalizeWrite(p) PROVE OutcomeKnown'
  BY <1>21 DEF FinalizeWrite, Return
<1>22. CASE NewDay
  BY <1>22 DEF NewDay
<1>23. CASE Redeliver
  BY <1>23 DEF Redeliver
<1>24. ASSUME NEW p \in Procs, Crash(p) PROVE OutcomeKnown'
  BY <1>24 DEF Crash, Return
<1>25. CASE UNCHANGED vars
  BY <1>25 DEF vars
<1>26. QED
  BY <1>1, <1>2, <1>3, <1>4, <1>5, <1>6, <1>7, <1>8, <1>9, <1>10, <1>11, <1>12, <1>13,
     <1>14, <1>15, <1>16, <1>17, <1>18, <1>19, <1>20, <1>21, <1>22, <1>23, <1>24, <1>25
     DEF Next, Request, Work, Continue, Finalize

\* What a finalizer read is still so when it writes.
LEMMA FinalizerIsRightStep == IInv /\ [Next]_vars => FinalizerIsRight'
<1> SUFFICES ASSUME IInv, [Next]_vars PROVE FinalizerIsRight'
  OBVIOUS
<1>a. TypeOK /\ FinalizerIsRight /\ StartedFirst /\ RowsTogether /\ ClaimIsExclusive
  BY DEF IInv
<1> USE BlastAssumption, <1>a DEF TypeOK, At, Goto, SetCampaign, SetRecipient, Procs,
        local, task, broker, outside, counters, db, FinalizerIsRight, ClaimIsExclusive,
        Claimed, Terminal, Members, RecipientsOf
<1>1. ASSUME NEW c \in Campaigns, Submit(c) \/ Reject(c) PROVE FinalizerIsRight'
  BY <1>1 DEF Submit, Reject
<1>2. ASSUME NEW q \in Requests, NEW c \in Campaigns, CreateCampaign(q, c) PROVE FinalizerIsRight'
  BY <1>2 DEF CreateCampaign, Begin
<1>3. ASSUME NEW q \in Requests, CreateRecipients(q) PROVE FinalizerIsRight'
  <2>1. \A r \in Recipients : CampaignOf[r] = job[q].camp => rcpt[r] = "absent"
    BY <1>3 DEF CreateRecipients, RowsTogether
  <2>2. \A c \in Campaigns : Members(c) # {} =>
           \A r \in Recipients : CampaignOf[r] = c => rcpt'[r] = rcpt[r]
    BY <1>3, <2>1 DEF CreateRecipients
  <2>3. QED
    BY <1>3, <2>2 DEF CreateRecipients, Return
<1>4. ASSUME NEW q \in Requests, NEW c \in Campaigns, NEW u \in Users, ApproveCheck(q, c, u) PROVE FinalizerIsRight'
  BY <1>4 DEF ApproveCheck, Begin
<1>5. ASSUME NEW q \in Requests, ApproveWrite(q) PROVE FinalizerIsRight'
  BY <1>5 DEF ApproveWrite, Return
<1>6. ASSUME NEW q \in Requests, EnqueueSchedule(q) PROVE FinalizerIsRight'
  BY <1>6 DEF EnqueueSchedule, Return
<1>7. ASSUME NEW q \in Requests, NEW r \in Recipients, Resolve(q, r) PROVE FinalizerIsRight'
  BY <1>7 DEF Resolve, Begin
<1>8. ASSUME NEW w \in Workers, NEW c \in Campaigns, ScheduleClaim(w, c) PROVE FinalizerIsRight'
  BY <1>8 DEF ScheduleClaim, Begin
<1>9. ASSUME NEW w \in Workers, SchedulePlan(w) PROVE FinalizerIsRight'
  BY <1>9 DEF SchedulePlan
<1>10. ASSUME NEW w \in Workers, EnqueueDispatch(w) PROVE FinalizerIsRight'
  BY <1>10 DEF EnqueueDispatch
<1>11. ASSUME NEW w \in Workers, ScheduleReturn(w) PROVE FinalizerIsRight'
  BY <1>11 DEF ScheduleReturn, Return
<1>12. ASSUME NEW w \in Workers, NEW r \in Recipients, DispatchStart(w, r) PROVE FinalizerIsRight'
  BY <1>12 DEF DispatchStart, Begin
<1>13. ASSUME NEW w \in Workers, DispatchClaim(w) PROVE FinalizerIsRight'
  BY <1>13 DEF DispatchClaim, ClaimFrom, Return
<1>14. ASSUME NEW w \in Workers, CheckNumber(w) PROVE FinalizerIsRight'
  BY <1>14 DEF CheckNumber
<1>15. ASSUME NEW w \in Workers, MarkInvalid(w) PROVE FinalizerIsRight'
  BY <1>15 DEF MarkInvalid
<1>16. ASSUME NEW w \in Workers, Register(w) PROVE FinalizerIsRight'
  BY <1>16 DEF Register
<1>17. ASSUME NEW w \in Workers, Send(w) PROVE FinalizerIsRight'
  BY <1>17 DEF Send, Answer
<1>18. ASSUME NEW w \in Workers, RecordOperation(w) PROVE FinalizerIsRight'
  BY <1>18 DEF RecordOperation
<1>19. ASSUME NEW w \in Workers, RecordRecipient(w) PROVE FinalizerIsRight'
  BY <1>19 DEF RecordRecipient, RecordAs
<1>20. ASSUME NEW p \in Procs, FinalizeRead(p) PROVE FinalizerIsRight'
  <2>1. CASE /\ Members(job[p].camp) # {}
             /\ \A r \in Members(job[p].camp) : rcpt[r] \in Terminal
             /\ result' = [result EXCEPT ![p] = FinalStatus(job[p].camp)]
             /\ Goto(p, "write_final") /\ UNCHANGED <<job, todo>>
    <3>1. FinalStatus(job[p].camp) \in {"completed", "failed"}
      BY DEF FinalStatus
    <3>2. QED
      BY <1>20, <2>1, <3>1 DEF FinalizeRead, FinalizeWhen
  <2>2. CASE Return(p)
    BY <1>20, <2>2 DEF FinalizeRead, FinalizeWhen, Return
  <2>3. QED
    BY <1>20, <2>1, <2>2 DEF FinalizeRead, FinalizeWhen
<1>21. ASSUME NEW p \in Procs, FinalizeWrite(p) PROVE FinalizerIsRight'
  BY <1>21 DEF FinalizeWrite, Return
<1>22. CASE NewDay
  BY <1>22 DEF NewDay
<1>23. CASE Redeliver
  BY <1>23 DEF Redeliver
<1>24. ASSUME NEW p \in Procs, Crash(p) PROVE FinalizerIsRight'
  BY <1>24 DEF Crash, Return
<1>25. CASE UNCHANGED vars
  BY <1>25 DEF vars
<1>26. QED
  BY <1>1, <1>2, <1>3, <1>4, <1>5, <1>6, <1>7, <1>8, <1>9, <1>10, <1>11, <1>12, <1>13,
     <1>14, <1>15, <1>16, <1>17, <1>18, <1>19, <1>20, <1>21, <1>22, <1>23, <1>24, <1>25
     DEF Next, Request, Work, Continue, Finalize

\* The approver stays the one that was checked.
LEMMA ApproverIsEntitledStep == IInv /\ [Next]_vars => ApproverIsEntitled'
<1> SUFFICES ASSUME IInv, [Next]_vars PROVE ApproverIsEntitled'
  OBVIOUS
<1>a. TypeOK /\ ApproverIsEntitled
  BY DEF IInv
<1> USE BlastAssumption, <1>a DEF TypeOK, At, Goto, SetCampaign, SetRecipient, Procs,
        local, task, broker, outside, counters, db, ApproverIsEntitled, MayApprove
<1>1. ASSUME NEW c \in Campaigns, Submit(c) \/ Reject(c) PROVE ApproverIsEntitled'
  BY <1>1 DEF Submit, Reject
<1>2. ASSUME NEW q \in Requests, NEW c \in Campaigns, CreateCampaign(q, c) PROVE ApproverIsEntitled'
  BY <1>2 DEF CreateCampaign, Begin
<1>3. ASSUME NEW q \in Requests, CreateRecipients(q) PROVE ApproverIsEntitled'
  BY <1>3 DEF CreateRecipients, Return
<1>4. ASSUME NEW q \in Requests, NEW c \in Campaigns, NEW u \in Users, ApproveCheck(q, c, u) PROVE ApproverIsEntitled'
  BY <1>4 DEF ApproveCheck, Begin
<1>5. ASSUME NEW q \in Requests, ApproveWrite(q) PROVE ApproverIsEntitled'
  BY <1>5 DEF ApproveWrite, Return
<1>6. ASSUME NEW q \in Requests, EnqueueSchedule(q) PROVE ApproverIsEntitled'
  BY <1>6 DEF EnqueueSchedule, Return
<1>7. ASSUME NEW q \in Requests, NEW r \in Recipients, Resolve(q, r) PROVE ApproverIsEntitled'
  BY <1>7 DEF Resolve, Begin
<1>8. ASSUME NEW w \in Workers, NEW c \in Campaigns, ScheduleClaim(w, c) PROVE ApproverIsEntitled'
  BY <1>8 DEF ScheduleClaim, Begin
<1>9. ASSUME NEW w \in Workers, SchedulePlan(w) PROVE ApproverIsEntitled'
  BY <1>9 DEF SchedulePlan
<1>10. ASSUME NEW w \in Workers, EnqueueDispatch(w) PROVE ApproverIsEntitled'
  BY <1>10 DEF EnqueueDispatch
<1>11. ASSUME NEW w \in Workers, ScheduleReturn(w) PROVE ApproverIsEntitled'
  BY <1>11 DEF ScheduleReturn, Return
<1>12. ASSUME NEW w \in Workers, NEW r \in Recipients, DispatchStart(w, r) PROVE ApproverIsEntitled'
  BY <1>12 DEF DispatchStart, Begin
<1>13. ASSUME NEW w \in Workers, DispatchClaim(w) PROVE ApproverIsEntitled'
  BY <1>13 DEF DispatchClaim, ClaimFrom, Return
<1>14. ASSUME NEW w \in Workers, CheckNumber(w) PROVE ApproverIsEntitled'
  BY <1>14 DEF CheckNumber
<1>15. ASSUME NEW w \in Workers, MarkInvalid(w) PROVE ApproverIsEntitled'
  BY <1>15 DEF MarkInvalid
<1>16. ASSUME NEW w \in Workers, Register(w) PROVE ApproverIsEntitled'
  BY <1>16 DEF Register
<1>17. ASSUME NEW w \in Workers, Send(w) PROVE ApproverIsEntitled'
  BY <1>17 DEF Send, Answer
<1>18. ASSUME NEW w \in Workers, RecordOperation(w) PROVE ApproverIsEntitled'
  BY <1>18 DEF RecordOperation
<1>19. ASSUME NEW w \in Workers, RecordRecipient(w) PROVE ApproverIsEntitled'
  BY <1>19 DEF RecordRecipient, RecordAs
<1>20. ASSUME NEW p \in Procs, FinalizeRead(p) PROVE ApproverIsEntitled'
  BY <1>20 DEF FinalizeRead, FinalizeWhen, Return
<1>21. ASSUME NEW p \in Procs, FinalizeWrite(p) PROVE ApproverIsEntitled'
  BY <1>21 DEF FinalizeWrite, Return
<1>22. CASE NewDay
  BY <1>22 DEF NewDay
<1>23. CASE Redeliver
  BY <1>23 DEF Redeliver
<1>24. ASSUME NEW p \in Procs, Crash(p) PROVE ApproverIsEntitled'
  BY <1>24 DEF Crash, Return
<1>25. CASE UNCHANGED vars
  BY <1>25 DEF vars
<1>26. QED
  BY <1>1, <1>2, <1>3, <1>4, <1>5, <1>6, <1>7, <1>8, <1>9, <1>10, <1>11, <1>12, <1>13,
     <1>14, <1>15, <1>16, <1>17, <1>18, <1>19, <1>20, <1>21, <1>22, <1>23, <1>24, <1>25
     DEF Next, Request, Work, Continue, Finalize

\* A campaign is closed on settled recipients, and they stay settled.
LEMMA FinishedIsSettledStep == IInv /\ [Next]_vars => FinishedIsSettled'
<1> SUFFICES ASSUME IInv, [Next]_vars PROVE FinishedIsSettled'
  OBVIOUS
<1>a. TypeOK /\ FinishedIsSettled /\ FinalizerIsRight /\ ClaimIsExclusive /\ RowsTogether
  BY DEF IInv
<1> USE BlastAssumption, <1>a DEF TypeOK, At, Goto, SetCampaign, SetRecipient, Procs,
        local, task, broker, outside, counters, db, FinishedIsSettled, ClaimIsExclusive,
        Claimed, Terminal, Members, RecipientsOf, FinalizerIsRight
<1>1. ASSUME NEW c \in Campaigns, Submit(c) \/ Reject(c) PROVE FinishedIsSettled'
  BY <1>1 DEF Submit, Reject
<1>2. ASSUME NEW q \in Requests, NEW c \in Campaigns, CreateCampaign(q, c) PROVE FinishedIsSettled'
  BY <1>2 DEF CreateCampaign, Begin
<1>3. ASSUME NEW q \in Requests, CreateRecipients(q) PROVE FinishedIsSettled'
  <2>1. \A r \in Recipients : CampaignOf[r] = job[q].camp => rcpt[r] = "absent"
    BY <1>3 DEF CreateRecipients, RowsTogether
  <2>2. \A c \in Campaigns : Members(c) # {} =>
           \A r \in Recipients : CampaignOf[r] = c => rcpt'[r] = rcpt[r]
    BY <1>3, <2>1 DEF CreateRecipients
  <2>3. QED
    BY <1>3, <2>2 DEF CreateRecipients, Return
<1>4. ASSUME NEW q \in Requests, NEW c \in Campaigns, NEW u \in Users, ApproveCheck(q, c, u) PROVE FinishedIsSettled'
  BY <1>4 DEF ApproveCheck, Begin
<1>5. ASSUME NEW q \in Requests, ApproveWrite(q) PROVE FinishedIsSettled'
  BY <1>5 DEF ApproveWrite, Return
<1>6. ASSUME NEW q \in Requests, EnqueueSchedule(q) PROVE FinishedIsSettled'
  BY <1>6 DEF EnqueueSchedule, Return
<1>7. ASSUME NEW q \in Requests, NEW r \in Recipients, Resolve(q, r) PROVE FinishedIsSettled'
  BY <1>7 DEF Resolve, Begin
<1>8. ASSUME NEW w \in Workers, NEW c \in Campaigns, ScheduleClaim(w, c) PROVE FinishedIsSettled'
  BY <1>8 DEF ScheduleClaim, Begin
<1>9. ASSUME NEW w \in Workers, SchedulePlan(w) PROVE FinishedIsSettled'
  BY <1>9 DEF SchedulePlan
<1>10. ASSUME NEW w \in Workers, EnqueueDispatch(w) PROVE FinishedIsSettled'
  BY <1>10 DEF EnqueueDispatch
<1>11. ASSUME NEW w \in Workers, ScheduleReturn(w) PROVE FinishedIsSettled'
  BY <1>11 DEF ScheduleReturn, Return
<1>12. ASSUME NEW w \in Workers, NEW r \in Recipients, DispatchStart(w, r) PROVE FinishedIsSettled'
  BY <1>12 DEF DispatchStart, Begin
<1>13. ASSUME NEW w \in Workers, DispatchClaim(w) PROVE FinishedIsSettled'
  BY <1>13 DEF DispatchClaim, ClaimFrom, Return
<1>14. ASSUME NEW w \in Workers, CheckNumber(w) PROVE FinishedIsSettled'
  BY <1>14 DEF CheckNumber
<1>15. ASSUME NEW w \in Workers, MarkInvalid(w) PROVE FinishedIsSettled'
  BY <1>15 DEF MarkInvalid
<1>16. ASSUME NEW w \in Workers, Register(w) PROVE FinishedIsSettled'
  BY <1>16 DEF Register
<1>17. ASSUME NEW w \in Workers, Send(w) PROVE FinishedIsSettled'
  BY <1>17 DEF Send, Answer
<1>18. ASSUME NEW w \in Workers, RecordOperation(w) PROVE FinishedIsSettled'
  BY <1>18 DEF RecordOperation
<1>19. ASSUME NEW w \in Workers, RecordRecipient(w) PROVE FinishedIsSettled'
  BY <1>19 DEF RecordRecipient, RecordAs
<1>20. ASSUME NEW p \in Procs, FinalizeRead(p) PROVE FinishedIsSettled'
  BY <1>20 DEF FinalizeRead, FinalizeWhen, Return
<1>21. ASSUME NEW p \in Procs, FinalizeWrite(p) PROVE FinishedIsSettled'
  BY <1>21 DEF FinalizeWrite, Return
<1>22. CASE NewDay
  BY <1>22 DEF NewDay
<1>23. CASE Redeliver
  BY <1>23 DEF Redeliver
<1>24. ASSUME NEW p \in Procs, Crash(p) PROVE FinishedIsSettled'
  BY <1>24 DEF Crash, Return
<1>25. CASE UNCHANGED vars
  BY <1>25 DEF vars
<1>26. QED
  BY <1>1, <1>2, <1>3, <1>4, <1>5, <1>6, <1>7, <1>8, <1>9, <1>10, <1>11, <1>12, <1>13,
     <1>14, <1>15, <1>16, <1>17, <1>18, <1>19, <1>20, <1>21, <1>22, <1>23, <1>24, <1>25
     DEF Next, Request, Work, Continue, Finalize

\* Recipients are not settled by being taken up for sending.
LEMMA SettledBefore ==
  ASSUME NEW c \in Campaigns, AllSettled(c)',
         \A r \in Recipients : rcpt'[r] = rcpt[r] \/ (rcpt[r] # "absent" /\ rcpt'[r] = "sending")
  PROVE  AllSettled(c)
<1>1. \A r \in Recipients : rcpt'[r] \in Terminal \/ rcpt'[r] = "absent" => rcpt'[r] = rcpt[r]
  BY DEF Terminal
<1>2. Members(c)' = {r \in RecipientsOf(c) : rcpt'[r] # "absent"} /\ RecipientsOf(c) \subseteq Recipients
  BY DEF Members, RecipientsOf
<1>3. Members(c)' = Members(c)
  BY <1>1, <1>2 DEF Members
<1>4. QED
  BY <1>1, <1>2, <1>3 DEF AllSettled

\* The dispatch that settles the last recipient goes on to finalize.
LEMMA NoLostFinalizationStep == IInv /\ [Next]_vars => NoLostFinalization'
<1> SUFFICES ASSUME IInv, [Next]_vars PROVE NoLostFinalization'
  OBVIOUS
<1>a. TypeOK /\ RowsTogether /\ StartedFirst /\ ClaimIsExclusive /\ FinalizerIsRight /\ NoLostFinalization
  BY DEF IInv
<1> USE BlastAssumption, <1>a DEF TypeOK, At, Goto, SetCampaign, SetRecipient, Procs,
        local, task, broker, outside, counters, db, NoLostFinalization, AllSettled,
        HasFinalizer, LostFinalizer, RowsTogether, StartedFirst, Started, ClaimIsExclusive,
        Claimed, Terminal, Members, RecipientsOf
<1>1. ASSUME NEW c \in Campaigns, Submit(c) \/ Reject(c) PROVE NoLostFinalization'
  BY <1>1 DEF Submit, Reject
<1>2. ASSUME NEW q \in Requests, NEW c \in Campaigns, CreateCampaign(q, c) PROVE NoLostFinalization'
  BY <1>2 DEF CreateCampaign, Begin
<1>3. ASSUME NEW q \in Requests, CreateRecipients(q) PROVE NoLostFinalization'
  BY <1>3 DEF CreateRecipients, Return
<1>4. ASSUME NEW q \in Requests, NEW c \in Campaigns, NEW u \in Users, ApproveCheck(q, c, u) PROVE NoLostFinalization'
  BY <1>4 DEF ApproveCheck, Begin
<1>5. ASSUME NEW q \in Requests, ApproveWrite(q) PROVE NoLostFinalization'
  <2>1. \A c \in Campaigns : camp'[c] = "sending" => camp[c] = "sending"
    BY <1>5 DEF ApproveWrite
  <2>2. \A p \in Procs : pc[p] \in {"finalize", "write_final"} =>
           pc'[p] = pc[p] /\ job'[p] = job[p]
    BY <1>5 DEF ApproveWrite, Return
  <2>3. rcpt' = rcpt /\ killed' = killed
    BY <1>5 DEF ApproveWrite
  <2>4. QED
    BY <2>1, <2>2, <2>3
<1>6. ASSUME NEW q \in Requests, EnqueueSchedule(q) PROVE NoLostFinalization'
  BY <1>6 DEF EnqueueSchedule, Return
<1>7. ASSUME NEW q \in Requests, NEW r \in Recipients, Resolve(q, r) PROVE NoLostFinalization'
  <2>1. \A p \in Procs : pc[p] \in {"finalize", "write_final"} =>
           pc'[p] = pc[p] /\ job'[p] = job[p]
    BY <1>7 DEF Resolve, Begin
  <2>2. pc'[q] = "finalize" /\ job'[q].camp = CampaignOf[r] /\ camp' = camp /\ killed' = killed
    BY <1>7 DEF Resolve, Begin
  <2>3. \A s \in Recipients \ {r} : rcpt'[s] = rcpt[s]
    BY <1>7 DEF Resolve
  <2>4. \A c \in Campaigns : c # CampaignOf[r] /\ AllSettled(c)' => AllSettled(c)
    BY <2>3
  <2>5. QED
    BY <2>1, <2>2, <2>4
<1>8. ASSUME NEW w \in Workers, NEW c \in Campaigns, ScheduleClaim(w, c) PROVE NoLostFinalization'
  <2>1. \A p \in Procs : pc[p] \in {"finalize", "write_final"} =>
           pc'[p] = pc[p] /\ job'[p] = job[p]
    BY <1>8 DEF ScheduleClaim, Begin
  <2>2. rcpt' = rcpt /\ killed' = killed
    BY <1>8 DEF ScheduleClaim
  <2>3. \A d \in Campaigns : camp'[d] = "sending" /\ AllSettled(d) => camp[d] = "sending"
    <3>1. \A d \in Campaigns : camp'[d] = camp[d] \/ (d = c /\ camp[c] = "approved")
      BY <1>8 DEF ScheduleClaim
    <3>2. camp[c] = "approved" => ~AllSettled(c)
      OBVIOUS
    <3>3. QED
      BY <3>1, <3>2
  <2>4. QED
    BY <2>1, <2>2, <2>3
<1>9. ASSUME NEW w \in Workers, SchedulePlan(w) PROVE NoLostFinalization'
  BY <1>9 DEF SchedulePlan
<1>10. ASSUME NEW w \in Workers, EnqueueDispatch(w) PROVE NoLostFinalization'
  BY <1>10 DEF EnqueueDispatch
<1>11. ASSUME NEW w \in Workers, ScheduleReturn(w) PROVE NoLostFinalization'
  BY <1>11 DEF ScheduleReturn, Return
<1>12. ASSUME NEW w \in Workers, NEW r \in Recipients, DispatchStart(w, r) PROVE NoLostFinalization'
  <2>1. \A p \in Procs : pc[p] \in {"finalize", "write_final"} =>
           pc'[p] = pc[p] /\ job'[p] = job[p]
    BY <1>12 DEF DispatchStart, Begin
  <2>2. rcpt' = rcpt /\ camp' = camp /\ killed' = killed
    BY <1>12 DEF DispatchStart
  <2>3. QED
    BY <2>1, <2>2
<1>13. ASSUME NEW w \in Workers, DispatchClaim(w) PROVE NoLostFinalization'
  <2>1. \A p \in Procs : pc[p] \in {"finalize", "write_final"} =>
           pc'[p] = pc[p] /\ job'[p] = job[p]
    BY <1>13 DEF DispatchClaim, ClaimFrom, Return
  <2>2. camp' = camp /\ killed' = killed
    BY <1>13 DEF DispatchClaim, ClaimFrom
  <2>3. \A r \in Recipients : rcpt'[r] = rcpt[r] \/ (rcpt[r] # "absent" /\ rcpt'[r] = "sending")
    BY <1>13 DEF DispatchClaim, ClaimFrom
  <2>4. ASSUME NEW c \in Campaigns, AllSettled(c)' PROVE AllSettled(c)
    BY ONLY <2>3, <2>4, SettledBefore
  <2>5. QED
    BY <2>1, <2>2, <2>4
<1>14. ASSUME NEW w \in Workers, CheckNumber(w) PROVE NoLostFinalization'
  BY <1>14 DEF CheckNumber
<1>15. ASSUME NEW w \in Workers, MarkInvalid(w) PROVE NoLostFinalization'
  BY <1>15 DEF MarkInvalid
<1>16. ASSUME NEW w \in Workers, Register(w) PROVE NoLostFinalization'
  BY <1>16 DEF Register
<1>17. ASSUME NEW w \in Workers, Send(w) PROVE NoLostFinalization'
  BY <1>17 DEF Send, Answer
<1>18. ASSUME NEW w \in Workers, RecordOperation(w) PROVE NoLostFinalization'
  BY <1>18 DEF RecordOperation
<1>19. ASSUME NEW w \in Workers, RecordRecipient(w) PROVE NoLostFinalization'
  BY <1>19 DEF RecordRecipient, RecordAs
<1>20. ASSUME NEW p \in Procs, FinalizeRead(p) PROVE NoLostFinalization'
  <2>1. job[p].camp \in Campaigns /\ rcpt' = rcpt /\ camp' = camp /\ killed' = killed
    BY <1>20 DEF FinalizeRead, FinalizeWhen, FinalizerIsRight
  <2>2. \A q \in Procs : q # p => pc'[q] = pc[q] /\ job'[q] = job[q]
    BY <1>20 DEF FinalizeRead, FinalizeWhen, Return
  <2>3. ASSUME camp[job[p].camp] = "sending", AllSettled(job[p].camp)
        PROVE  pc'[p] = "write_final" /\ job'[p] = job[p]
    <3>1. pc' = [pc EXCEPT ![p] = "write_final"] /\ job' = job
      BY <1>20, <2>3 DEF FinalizeRead, FinalizeWhen
    <3>2. QED
      BY <3>1
  <2>4. ASSUME NEW c \in Campaigns, camp'[c] = "sending", AllSettled(c)'
        PROVE  HasFinalizer(c)' \/ LostFinalizer(c)'
    <3>1. camp[c] = "sending" /\ AllSettled(c)
      BY <2>1, <2>4 DEF AllSettled, Members, RecipientsOf
    <3>2. CASE c = job[p].camp
      BY <2>3, <3>1, <3>2
    <3>3. CASE c # job[p].camp
      <4>1. HasFinalizer(c) => HasFinalizer(c)'
        BY <2>2, <3>3
      <4>2. QED
        BY <2>1, <3>1, <4>1
    <3>4. QED
      BY <3>2, <3>3
  <2>5. QED
    BY <2>4
<1>21. ASSUME NEW p \in Procs, FinalizeWrite(p) PROVE NoLostFinalization'
  <2>1. job[p].camp \in Campaigns
    BY <1>21 DEF FinalizeWrite, FinalizerIsRight
  <2>2. \A c \in Campaigns : camp'[c] = "sending" => camp[c] = "sending" /\ c # job[p].camp
    BY <1>21, <2>1 DEF FinalizeWrite, FinalizerIsRight
  <2>3. \A q \in Procs : q # p => pc'[q] = pc[q] /\ job'[q] = job[q]
    BY <1>21 DEF FinalizeWrite, Return
  <2>4. rcpt' = rcpt /\ killed' = killed
    BY <1>21 DEF FinalizeWrite
  <2>5. QED
    BY <2>2, <2>3, <2>4
<1>22. CASE NewDay
  BY <1>22 DEF NewDay
<1>23. CASE Redeliver
  BY <1>23 DEF Redeliver
<1>24. ASSUME NEW p \in Procs, Crash(p) PROVE NoLostFinalization'
  <2>1. rcpt' = rcpt /\ camp' = camp /\ killed' = killed \cup {<<pc[p], job[p]>>}
    BY <1>24 DEF Crash
  <2>2. \A q \in Procs : q # p => pc'[q] = pc[q] /\ job'[q] = job[q]
    BY <1>24 DEF Crash, Return
  <2>3. \A c \in Campaigns : LostFinalizer(c) => LostFinalizer(c)'
    BY <2>1
  <2>4. ASSUME NEW c \in Campaigns, pc[p] \in {"finalize", "write_final"}, job[p].camp = c
        PROVE  LostFinalizer(c)'
    <3>1. <<pc[p], job[p]>> \in killed'
      BY <2>1
    <3>2. QED
      BY <2>4, <3>1
  <2>5. \A c \in Campaigns : HasFinalizer(c) => HasFinalizer(c)' \/ LostFinalizer(c)'
    BY <2>2, <2>4
  <2>6. ASSUME NEW c \in Campaigns, camp'[c] = "sending", AllSettled(c)'
        PROVE  HasFinalizer(c)' \/ LostFinalizer(c)'
    <3>1. HasFinalizer(c) \/ LostFinalizer(c)
      BY <2>1, <2>6 DEF NoLostFinalization, AllSettled, Members, RecipientsOf
    <3>2. QED
      BY <2>3, <2>5, <3>1
  <2>7. QED
    BY <2>6
<1>25. CASE UNCHANGED vars
  BY <1>25 DEF vars
<1>26. QED
  BY <1>1, <1>2, <1>3, <1>4, <1>5, <1>6, <1>7, <1>8, <1>9, <1>10, <1>11, <1>12, <1>13,
     <1>14, <1>15, <1>16, <1>17, <1>18, <1>19, <1>20, <1>21, <1>22, <1>23, <1>24, <1>25
     DEF Next, Request, Work, Continue, Finalize

\* An approved campaign's schedule task is not lost.
LEMMA ScheduleKeptStep == IInv /\ [Next]_vars => ScheduleKept'
<1> SUFFICES ASSUME IInv, [Next]_vars PROVE ScheduleKept'
  OBVIOUS
<1>a. TypeOK /\ ScheduleKept /\ FinalizerIsRight /\ ApproverIsEntitled
  BY DEF IInv, NoLostWork
<1> USE BlastAssumption, <1>a DEF TypeOK, At, Goto, SetCampaign, SetRecipient, Procs,
        local, task, broker, outside, counters, db, ScheduleKept, ToSchedule, KilledAt,
        FinalizerIsRight, ApproverIsEntitled
<1>1. ASSUME NEW c \in Campaigns, Submit(c) \/ Reject(c) PROVE ScheduleKept'
  BY <1>1 DEF Submit, Reject
<1>2. ASSUME NEW q \in Requests, NEW c \in Campaigns, CreateCampaign(q, c) PROVE ScheduleKept'
  BY <1>2 DEF CreateCampaign, Begin
<1>3. ASSUME NEW q \in Requests, CreateRecipients(q) PROVE ScheduleKept'
  BY <1>3 DEF CreateRecipients, Return
<1>4. ASSUME NEW q \in Requests, NEW c \in Campaigns, NEW u \in Users, ApproveCheck(q, c, u) PROVE ScheduleKept'
  BY <1>4 DEF ApproveCheck, Begin
<1>5. ASSUME NEW q \in Requests, ApproveWrite(q) PROVE ScheduleKept'
  BY <1>5 DEF ApproveWrite, Return
<1>6. ASSUME NEW q \in Requests, EnqueueSchedule(q) PROVE ScheduleKept'
  BY <1>6 DEF EnqueueSchedule, Return
<1>7. ASSUME NEW q \in Requests, NEW r \in Recipients, Resolve(q, r) PROVE ScheduleKept'
  BY <1>7 DEF Resolve, Begin
<1>8. ASSUME NEW w \in Workers, NEW c \in Campaigns, ScheduleClaim(w, c) PROVE ScheduleKept'
  BY <1>8 DEF ScheduleClaim, Begin
<1>9. ASSUME NEW w \in Workers, SchedulePlan(w) PROVE ScheduleKept'
  BY <1>9 DEF SchedulePlan
<1>10. ASSUME NEW w \in Workers, EnqueueDispatch(w) PROVE ScheduleKept'
  BY <1>10 DEF EnqueueDispatch
<1>11. ASSUME NEW w \in Workers, ScheduleReturn(w) PROVE ScheduleKept'
  BY <1>11 DEF ScheduleReturn, Return
<1>12. ASSUME NEW w \in Workers, NEW r \in Recipients, DispatchStart(w, r) PROVE ScheduleKept'
  BY <1>12 DEF DispatchStart, Begin
<1>13. ASSUME NEW w \in Workers, DispatchClaim(w) PROVE ScheduleKept'
  BY <1>13 DEF DispatchClaim, ClaimFrom, Return
<1>14. ASSUME NEW w \in Workers, CheckNumber(w) PROVE ScheduleKept'
  BY <1>14 DEF CheckNumber
<1>15. ASSUME NEW w \in Workers, MarkInvalid(w) PROVE ScheduleKept'
  BY <1>15 DEF MarkInvalid
<1>16. ASSUME NEW w \in Workers, Register(w) PROVE ScheduleKept'
  BY <1>16 DEF Register
<1>17. ASSUME NEW w \in Workers, Send(w) PROVE ScheduleKept'
  BY <1>17 DEF Send, Answer
<1>18. ASSUME NEW w \in Workers, RecordOperation(w) PROVE ScheduleKept'
  BY <1>18 DEF RecordOperation
<1>19. ASSUME NEW w \in Workers, RecordRecipient(w) PROVE ScheduleKept'
  BY <1>19 DEF RecordRecipient, RecordAs
<1>20. ASSUME NEW p \in Procs, FinalizeRead(p) PROVE ScheduleKept'
  BY <1>20 DEF FinalizeRead, FinalizeWhen, Return
<1>21. ASSUME NEW p \in Procs, FinalizeWrite(p) PROVE ScheduleKept'
  BY <1>21 DEF FinalizeWrite, Return
<1>22. CASE NewDay
  BY <1>22 DEF NewDay
<1>23. CASE Redeliver
  BY <1>23 DEF Redeliver
<1>24. ASSUME NEW p \in Procs, Crash(p) PROVE ScheduleKept'
  <2>1. camp' = camp /\ scheduleQ' = scheduleQ /\ killed' = killed \cup {<<pc[p], job[p]>>}
    BY <1>24 DEF Crash
  <2>2. \A q \in Procs : q # p => pc'[q] = pc[q] /\ job'[q] = job[q]
    BY <1>24 DEF Crash, Return
  <2>3. \A c \in Campaigns : KilledAt({"enqueue_schedule"}, c) => KilledAt({"enqueue_schedule"}, c)'
    BY <2>1
  <2>4. \A c \in Campaigns : At(p, "enqueue_schedule") /\ job[p].camp = c
                               => KilledAt({"enqueue_schedule"}, c)'
    <3>1. <<pc[p], job[p]>> \in killed'
      BY <2>1
    <3>2. QED
      BY <3>1
  <2>5. \A c \in Campaigns : ToSchedule(c) => ToSchedule(c)' \/ KilledAt({"enqueue_schedule"}, c)'
    BY <2>1, <2>2, <2>4
  <2>6. QED
    BY <2>1, <2>3, <2>5
<1>25. CASE UNCHANGED vars
  BY <1>25 DEF vars
<1>26. QED
  BY <1>1, <1>2, <1>3, <1>4, <1>5, <1>6, <1>7, <1>8, <1>9, <1>10, <1>11, <1>12, <1>13,
     <1>14, <1>15, <1>16, <1>17, <1>18, <1>19, <1>20, <1>21, <1>22, <1>23, <1>24, <1>25
     DEF Next, Request, Work, Continue, Finalize

\* A recipient that waits for its dispatch gets it.
LEMMA DispatchKeptStep == IInv /\ [Next]_vars => DispatchKept'
<1> SUFFICES ASSUME IInv, [Next]_vars PROVE DispatchKept'
  OBVIOUS
<1>a. TypeOK /\ RowsTogether /\ StartedFirst /\ ClaimIsExclusive /\ DispatchKept
  BY DEF IInv, NoLostWork
<1> USE BlastAssumption, <1>a DEF TypeOK, At, Goto, SetCampaign, SetRecipient, Procs,
        local, task, broker, outside, counters, db, DispatchKept, ToDispatch, KilledAt,
        KilledFor, RowsTogether, StartedFirst, Started, ClaimIsExclusive, Claimed, Terminal,
        RecipientsOf, Members
<1>1. ASSUME NEW c \in Campaigns, Submit(c) \/ Reject(c) PROVE DispatchKept'
  BY <1>1 DEF Submit, Reject
<1>2. ASSUME NEW q \in Requests, NEW c \in Campaigns, CreateCampaign(q, c) PROVE DispatchKept'
  BY <1>2 DEF CreateCampaign, Begin
<1>3. ASSUME NEW q \in Requests, CreateRecipients(q) PROVE DispatchKept'
  BY <1>3 DEF CreateRecipients, Return
<1>4. ASSUME NEW q \in Requests, NEW c \in Campaigns, NEW u \in Users, ApproveCheck(q, c, u) PROVE DispatchKept'
  BY <1>4 DEF ApproveCheck, Begin
<1>5. ASSUME NEW q \in Requests, ApproveWrite(q) PROVE DispatchKept'
  <2>1. \A c \in Campaigns : camp'[c] = "sending" => camp[c] = "sending"
    BY <1>5 DEF ApproveWrite
  <2>2. \A p \in Procs : pc[p] \in {"plan", "enqueue_dispatch", "claim"} =>
           pc'[p] = pc[p] /\ job'[p] = job[p] /\ todo'[p] = todo[p]
    BY <1>5 DEF ApproveWrite, Return
  <2>3. rcpt' = rcpt /\ dispatchQ' = dispatchQ /\ killed' = killed /\ late' = late
    BY <1>5 DEF ApproveWrite
  <2>4. \A r \in Recipients : ToDispatch(r) => ToDispatch(r)'
    BY <2>2, <2>3
  <2>5. QED
    BY <2>1, <2>3, <2>4
<1>6. ASSUME NEW q \in Requests, EnqueueSchedule(q) PROVE DispatchKept'
  BY <1>6 DEF EnqueueSchedule, Return
<1>7. ASSUME NEW q \in Requests, NEW r \in Recipients, Resolve(q, r) PROVE DispatchKept'
  BY <1>7 DEF Resolve, Begin
<1>8. ASSUME NEW w \in Workers, NEW c \in Campaigns, ScheduleClaim(w, c) PROVE DispatchKept'
  <2>1. CASE camp[c] # "approved"
    BY <1>8, <2>1 DEF ScheduleClaim
  <2>2. CASE camp[c] = "approved"
    <3>1. /\ camp' = [camp EXCEPT ![c] = "sending"]
          /\ pc' = [pc EXCEPT ![w] = "plan"]
          /\ job' = [job EXCEPT ![w] = [camp |-> c, rcpt |-> None, user |-> None]]
          /\ pc[w] = "idle" /\ UNCHANGED <<todo, rcpt, dispatchQ, killed, late>>
      BY <1>8, <2>2 DEF ScheduleClaim, Begin
    <3>2. \A r \in Recipients : CampaignOf[r] = c => ToDispatch(r)'
      BY <3>1
    <3>3. \A r \in Recipients : ToDispatch(r) => ToDispatch(r)'
      BY <3>1
    <3>4. \A r \in Recipients : CampaignOf[r] # c => camp'[CampaignOf[r]] = camp[CampaignOf[r]]
      BY <3>1
    <3>5. QED
      BY <3>1, <3>2, <3>3, <3>4
  <2>3. QED
    BY <2>1, <2>2
<1>9. ASSUME NEW w \in Workers, SchedulePlan(w) PROVE DispatchKept'
  BY <1>9 DEF SchedulePlan
<1>10. ASSUME NEW w \in Workers, EnqueueDispatch(w) PROVE DispatchKept'
  BY <1>10 DEF EnqueueDispatch
<1>11. ASSUME NEW w \in Workers, ScheduleReturn(w) PROVE DispatchKept'
  BY <1>11 DEF ScheduleReturn, Return
<1>12. ASSUME NEW w \in Workers, NEW r \in Recipients, DispatchStart(w, r) PROVE DispatchKept'
  <2>1. CASE camp[CampaignOf[r]] # "sending"
    <3>1. UNCHANGED <<camp, rcpt, late, killed, pc, job, todo>>
      BY <1>12, <2>1 DEF DispatchStart
    <3>2. \A s \in Recipients \ {r} : ToDispatch(s) => ToDispatch(s)'
      BY <1>12, <3>1 DEF DispatchStart
    <3>3. QED
      BY <2>1, <3>1, <3>2
  <2>2. CASE camp[CampaignOf[r]] = "sending"
    <3>1. /\ pc' = [pc EXCEPT ![w] = "claim"]
          /\ job' = [job EXCEPT ![w] = [camp |-> CampaignOf[r], rcpt |-> r, user |-> None]]
          /\ pc[w] = "idle" /\ UNCHANGED <<todo, camp, rcpt, killed, late>>
          /\ dispatchQ' = [dispatchQ EXCEPT ![r] = @ - 1]
      BY <1>12, <2>2 DEF DispatchStart, Begin
    <3>2. ToDispatch(r)'
      BY <3>1
    <3>3. \A s \in Recipients \ {r} : ToDispatch(s) => ToDispatch(s)'
      BY <3>1
    <3>4. QED
      BY <3>1, <3>2, <3>3
  <2>3. QED
    BY <2>1, <2>2
<1>13. ASSUME NEW w \in Workers, DispatchClaim(w) PROVE DispatchKept'
  BY <1>13 DEF DispatchClaim, ClaimFrom, Return
<1>14. ASSUME NEW w \in Workers, CheckNumber(w) PROVE DispatchKept'
  BY <1>14 DEF CheckNumber
<1>15. ASSUME NEW w \in Workers, MarkInvalid(w) PROVE DispatchKept'
  BY <1>15 DEF MarkInvalid
<1>16. ASSUME NEW w \in Workers, Register(w) PROVE DispatchKept'
  BY <1>16 DEF Register
<1>17. ASSUME NEW w \in Workers, Send(w) PROVE DispatchKept'
  BY <1>17 DEF Send, Answer
<1>18. ASSUME NEW w \in Workers, RecordOperation(w) PROVE DispatchKept'
  BY <1>18 DEF RecordOperation
<1>19. ASSUME NEW w \in Workers, RecordRecipient(w) PROVE DispatchKept'
  BY <1>19 DEF RecordRecipient, RecordAs
<1>20. ASSUME NEW p \in Procs, FinalizeRead(p) PROVE DispatchKept'
  <2>1. \A q \in Procs : q # p => pc'[q] = pc[q] /\ job'[q] = job[q] /\ todo'[q] = todo[q]
    BY <1>20 DEF FinalizeRead, FinalizeWhen, Return
  <2>2. pc[p] = "finalize" /\ UNCHANGED <<camp, rcpt, dispatchQ, killed, late>>
    BY <1>20 DEF FinalizeRead, FinalizeWhen
  <2>3. \A r \in Recipients : ToDispatch(r) => ToDispatch(r)'
    BY <2>1, <2>2
  <2>4. QED
    BY <2>2, <2>3
<1>21. ASSUME NEW p \in Procs, FinalizeWrite(p) PROVE DispatchKept'
  BY <1>21 DEF FinalizeWrite, Return
<1>22. CASE NewDay
  BY <1>22 DEF NewDay
<1>23. CASE Redeliver
  BY <1>23 DEF Redeliver
<1>24. ASSUME NEW p \in Procs, Crash(p) PROVE DispatchKept'
  <2>1. UNCHANGED <<camp, rcpt, dispatchQ, late>> /\ killed' = killed \cup {<<pc[p], job[p]>>}
    BY <1>24 DEF Crash
  <2>2. \A q \in Procs : q # p => pc'[q] = pc[q] /\ job'[q] = job[q] /\ todo'[q] = todo[q]
    BY <1>24 DEF Crash, Return
  <2>3. /\ \A r \in Recipients : KilledFor({"claim"}, r) => KilledFor({"claim"}, r)'
        /\ \A c \in Campaigns : KilledAt({"plan", "enqueue_dispatch"}, c)
                                  => KilledAt({"plan", "enqueue_dispatch"}, c)'
    BY <2>1
  <2>4. \A r \in Recipients, c \in Campaigns :
          /\ At(p, "claim") /\ job[p].rcpt = r => KilledFor({"claim"}, r)'
          /\ pc[p] \in {"plan", "enqueue_dispatch"} /\ job[p].camp = c
               => KilledAt({"plan", "enqueue_dispatch"}, c)'
    <3>1. <<pc[p], job[p]>> \in killed'
      BY <2>1
    <3>2. QED
      BY <3>1
  <2>5. ASSUME NEW r \in Recipients, ToDispatch(r)
        PROVE  \/ ToDispatch(r)' \/ KilledFor({"claim"}, r)'
               \/ KilledAt({"plan", "enqueue_dispatch"}, CampaignOf[r])'
    <3>1. CampaignOf[r] \in Campaigns
      OBVIOUS
    <3>2. ASSUME NEW q \in Procs, q # p,
                 \/ At(q, "plan") /\ job[q].camp = CampaignOf[r]
                 \/ At(q, "enqueue_dispatch") /\ r \in todo[q]
                 \/ At(q, "claim") /\ job[q].rcpt = r
          PROVE  ToDispatch(r)'
      BY <2>2, <3>2
    <3>3. CASE dispatchQ[r] > 0
      BY <2>1, <3>3
    <3>4. CASE \/ At(p, "plan") /\ job[p].camp = CampaignOf[r]
               \/ At(p, "enqueue_dispatch") /\ r \in todo[p]
               \/ At(p, "claim") /\ job[p].rcpt = r
      BY <2>4, <3>1, <3>4
    <3>5. QED
      BY <2>5, <3>2, <3>3, <3>4
  <2>6. QED
    BY <2>1, <2>3, <2>5
<1>25. CASE UNCHANGED vars
  BY <1>25 DEF vars
<1>26. QED
  BY <1>1, <1>2, <1>3, <1>4, <1>5, <1>6, <1>7, <1>8, <1>9, <1>10, <1>11, <1>12, <1>13,
     <1>14, <1>15, <1>16, <1>17, <1>18, <1>19, <1>20, <1>21, <1>22, <1>23, <1>24, <1>25
     DEF Next, Request, Work, Continue, Finalize

\* A claimed recipient is in the hands of the dispatch that claimed it.
LEMMA ClaimKeptStep == IInv /\ [Next]_vars => ClaimKept'
<1> SUFFICES ASSUME IInv, [Next]_vars PROVE ClaimKept'
  OBVIOUS
<1>a. TypeOK /\ ClaimIsExclusive /\ ClaimKept
  BY DEF IInv, NoLostWork
<1> USE BlastAssumption, <1>a DEF TypeOK, At, Goto, SetCampaign, SetRecipient, Procs,
        local, task, broker, outside, counters, db, ClaimKept, KilledFor, Holds, ClaimIsExclusive,
        Claimed, Terminal
<1>1. ASSUME NEW c \in Campaigns, Submit(c) \/ Reject(c) PROVE ClaimKept'
  BY <1>1 DEF Submit, Reject
<1>2. ASSUME NEW q \in Requests, NEW c \in Campaigns, CreateCampaign(q, c) PROVE ClaimKept'
  BY <1>2 DEF CreateCampaign, Begin
<1>3. ASSUME NEW q \in Requests, CreateRecipients(q) PROVE ClaimKept'
  BY <1>3 DEF CreateRecipients, Return
<1>4. ASSUME NEW q \in Requests, NEW c \in Campaigns, NEW u \in Users, ApproveCheck(q, c, u) PROVE ClaimKept'
  BY <1>4 DEF ApproveCheck, Begin
<1>5. ASSUME NEW q \in Requests, ApproveWrite(q) PROVE ClaimKept'
  BY <1>5 DEF ApproveWrite, Return
<1>6. ASSUME NEW q \in Requests, EnqueueSchedule(q) PROVE ClaimKept'
  BY <1>6 DEF EnqueueSchedule, Return
<1>7. ASSUME NEW q \in Requests, NEW r \in Recipients, Resolve(q, r) PROVE ClaimKept'
  BY <1>7 DEF Resolve, Begin
<1>8. ASSUME NEW w \in Workers, NEW c \in Campaigns, ScheduleClaim(w, c) PROVE ClaimKept'
  BY <1>8 DEF ScheduleClaim, Begin
<1>9. ASSUME NEW w \in Workers, SchedulePlan(w) PROVE ClaimKept'
  BY <1>9 DEF SchedulePlan
<1>10. ASSUME NEW w \in Workers, EnqueueDispatch(w) PROVE ClaimKept'
  BY <1>10 DEF EnqueueDispatch
<1>11. ASSUME NEW w \in Workers, ScheduleReturn(w) PROVE ClaimKept'
  BY <1>11 DEF ScheduleReturn, Return
<1>12. ASSUME NEW w \in Workers, NEW r \in Recipients, DispatchStart(w, r) PROVE ClaimKept'
  BY <1>12 DEF DispatchStart, Begin
<1>13. ASSUME NEW w \in Workers, DispatchClaim(w) PROVE ClaimKept'
  BY <1>13 DEF DispatchClaim, ClaimFrom, Return
<1>14. ASSUME NEW w \in Workers, CheckNumber(w) PROVE ClaimKept'
  BY <1>14 DEF CheckNumber
<1>15. ASSUME NEW w \in Workers, MarkInvalid(w) PROVE ClaimKept'
  BY <1>15 DEF MarkInvalid
<1>16. ASSUME NEW w \in Workers, Register(w) PROVE ClaimKept'
  BY <1>16 DEF Register
<1>17. ASSUME NEW w \in Workers, Send(w) PROVE ClaimKept'
  BY <1>17 DEF Send, Answer
<1>18. ASSUME NEW w \in Workers, RecordOperation(w) PROVE ClaimKept'
  BY <1>18 DEF RecordOperation
<1>19. ASSUME NEW w \in Workers, RecordRecipient(w) PROVE ClaimKept'
  BY <1>19 DEF RecordRecipient, RecordAs
<1>20. ASSUME NEW p \in Procs, FinalizeRead(p) PROVE ClaimKept'
  <2>1. \A q \in Procs : q # p => pc'[q] = pc[q] /\ job'[q] = job[q] /\ todo'[q] = todo[q]
    BY <1>20 DEF FinalizeRead, FinalizeWhen, Return
  <2>2. pc[p] = "finalize" /\ UNCHANGED <<rcpt, killed>>
    BY <1>20 DEF FinalizeRead, FinalizeWhen
  <2>3. QED
    BY <2>1, <2>2
<1>21. ASSUME NEW p \in Procs, FinalizeWrite(p) PROVE ClaimKept'
  BY <1>21 DEF FinalizeWrite, Return
<1>22. CASE NewDay
  BY <1>22 DEF NewDay
<1>23. CASE Redeliver
  BY <1>23 DEF Redeliver
<1>24. ASSUME NEW p \in Procs, Crash(p) PROVE ClaimKept'
  <2>1. rcpt' = rcpt /\ killed' = killed \cup {<<pc[p], job[p]>>}
    BY <1>24 DEF Crash
  <2>2. \A q \in Procs : q # p => pc'[q] = pc[q] /\ job'[q] = job[q]
    BY <1>24 DEF Crash, Return
  <2>3. \A r \in Recipients : KilledFor(Claimed, r) => KilledFor(Claimed, r)'
    BY <2>1
  <2>4. \A r \in Recipients : Holds(p, r) => KilledFor(Claimed, r)'
    <3>1. <<pc[p], job[p]>> \in killed'
      BY <2>1
    <3>2. QED
      BY <3>1
  <2>5. \A q \in Procs, r \in Recipients : q # p /\ Holds(q, r) => Holds(q, r)'
    BY <2>2
  <2>6. QED
    BY <2>1, <2>3, <2>4, <2>5
<1>25. CASE UNCHANGED vars
  BY <1>25 DEF vars
<1>26. QED
  BY <1>1, <1>2, <1>3, <1>4, <1>5, <1>6, <1>7, <1>8, <1>9, <1>10, <1>11, <1>12, <1>13,
     <1>14, <1>15, <1>16, <1>17, <1>18, <1>19, <1>20, <1>21, <1>22, <1>23, <1>24, <1>25
     DEF Next, Request, Work, Continue, Finalize

\* `sent` is written only on WAHA's word, or an administrator's.
LEMMA AcceptanceIsKnownStep == IInv /\ [Next]_vars => AcceptanceIsKnown'
<1> SUFFICES ASSUME IInv, [Next]_vars PROVE AcceptanceIsKnown'
  OBVIOUS
<1>a. TypeOK /\ RowsTogether /\ ClaimIsExclusive /\ SendOnce /\ AcceptanceIsKnown
  BY DEF IInv
<1> USE BlastAssumption, <1>a DEF TypeOK, At, Goto, SetCampaign, SetRecipient, Procs,
        local, task, broker, outside, counters, db, AcceptanceIsKnown, SentIsJustified,
        ClaimIsExclusive, Claimed, Terminal, SendOnce
<1>1. ASSUME NEW c \in Campaigns, Submit(c) \/ Reject(c) PROVE AcceptanceIsKnown'
  BY <1>1 DEF Submit, Reject
<1>2. ASSUME NEW q \in Requests, NEW c \in Campaigns, CreateCampaign(q, c) PROVE AcceptanceIsKnown'
  BY <1>2 DEF CreateCampaign, Begin
<1>3. ASSUME NEW q \in Requests, CreateRecipients(q) PROVE AcceptanceIsKnown'
  BY <1>3 DEF CreateRecipients, Return
<1>4. ASSUME NEW q \in Requests, NEW c \in Campaigns, NEW u \in Users, ApproveCheck(q, c, u) PROVE AcceptanceIsKnown'
  BY <1>4 DEF ApproveCheck, Begin
<1>5. ASSUME NEW q \in Requests, ApproveWrite(q) PROVE AcceptanceIsKnown'
  BY <1>5 DEF ApproveWrite, Return
<1>6. ASSUME NEW q \in Requests, EnqueueSchedule(q) PROVE AcceptanceIsKnown'
  BY <1>6 DEF EnqueueSchedule, Return
<1>7. ASSUME NEW q \in Requests, NEW r \in Recipients, Resolve(q, r) PROVE AcceptanceIsKnown'
  BY <1>7 DEF Resolve, Begin
<1>8. ASSUME NEW w \in Workers, NEW c \in Campaigns, ScheduleClaim(w, c) PROVE AcceptanceIsKnown'
  BY <1>8 DEF ScheduleClaim, Begin
<1>9. ASSUME NEW w \in Workers, SchedulePlan(w) PROVE AcceptanceIsKnown'
  BY <1>9 DEF SchedulePlan
<1>10. ASSUME NEW w \in Workers, EnqueueDispatch(w) PROVE AcceptanceIsKnown'
  BY <1>10 DEF EnqueueDispatch
<1>11. ASSUME NEW w \in Workers, ScheduleReturn(w) PROVE AcceptanceIsKnown'
  BY <1>11 DEF ScheduleReturn, Return
<1>12. ASSUME NEW w \in Workers, NEW r \in Recipients, DispatchStart(w, r) PROVE AcceptanceIsKnown'
  BY <1>12 DEF DispatchStart, Begin
<1>13. ASSUME NEW w \in Workers, DispatchClaim(w) PROVE AcceptanceIsKnown'
  BY <1>13 DEF DispatchClaim, ClaimFrom, Return
<1>14. ASSUME NEW w \in Workers, CheckNumber(w) PROVE AcceptanceIsKnown'
  BY <1>14 DEF CheckNumber
<1>15. ASSUME NEW w \in Workers, MarkInvalid(w) PROVE AcceptanceIsKnown'
  BY <1>15 DEF MarkInvalid
<1>16. ASSUME NEW w \in Workers, Register(w) PROVE AcceptanceIsKnown'
  BY <1>16 DEF Register
<1>17. ASSUME NEW w \in Workers, Send(w) PROVE AcceptanceIsKnown'
  BY <1>17 DEF Send, Answer
<1>18. ASSUME NEW w \in Workers, RecordOperation(w) PROVE AcceptanceIsKnown'
  BY <1>18 DEF RecordOperation
<1>19. ASSUME NEW w \in Workers, RecordRecipient(w) PROVE AcceptanceIsKnown'
  BY <1>19 DEF RecordRecipient, RecordAs
<1>20. ASSUME NEW p \in Procs, FinalizeRead(p) PROVE AcceptanceIsKnown'
  BY <1>20 DEF FinalizeRead, FinalizeWhen, Return
<1>21. ASSUME NEW p \in Procs, FinalizeWrite(p) PROVE AcceptanceIsKnown'
  BY <1>21 DEF FinalizeWrite, Return
<1>22. CASE NewDay
  BY <1>22 DEF NewDay
<1>23. CASE Redeliver
  BY <1>23 DEF Redeliver
<1>24. ASSUME NEW p \in Procs, Crash(p) PROVE AcceptanceIsKnown'
  BY <1>24 DEF Crash, Return
<1>25. CASE UNCHANGED vars
  BY <1>25 DEF vars
<1>26. QED
  BY <1>1, <1>2, <1>3, <1>4, <1>5, <1>6, <1>7, <1>8, <1>9, <1>10, <1>11, <1>12, <1>13,
     <1>14, <1>15, <1>16, <1>17, <1>18, <1>19, <1>20, <1>21, <1>22, <1>23, <1>24, <1>25
     DEF Next, Request, Work, Continue, Finalize

\* The recipient's write follows its operation's and says the same.
LEMMA LedgerIsSettledStep == IInv /\ [Next]_vars => LedgerIsSettled'
<1> SUFFICES ASSUME IInv, [Next]_vars PROVE LedgerIsSettled'
  OBVIOUS
<1>a. TypeOK /\ RowsTogether /\ ClaimIsExclusive /\ SendOnce /\ OutcomeKnown /\ LedgerIsSettled
  BY DEF IInv
<1> USE BlastAssumption, <1>a DEF TypeOK, At, Goto, SetCampaign, SetRecipient, Procs,
        local, task, broker, outside, counters, db, LedgerIsSettled, ClaimIsExclusive,
        OutcomeKnown, Claimed, Terminal, Outcomes, SendOnce, RowsTogether, Holds, CutShort
<1>1. ASSUME NEW c \in Campaigns, Submit(c) \/ Reject(c) PROVE LedgerIsSettled'
  BY <1>1 DEF Submit, Reject
<1>2. ASSUME NEW q \in Requests, NEW c \in Campaigns, CreateCampaign(q, c) PROVE LedgerIsSettled'
  BY <1>2 DEF CreateCampaign, Begin
<1>3. ASSUME NEW q \in Requests, CreateRecipients(q) PROVE LedgerIsSettled'
  BY <1>3 DEF CreateRecipients, Return
<1>4. ASSUME NEW q \in Requests, NEW c \in Campaigns, NEW u \in Users, ApproveCheck(q, c, u) PROVE LedgerIsSettled'
  BY <1>4 DEF ApproveCheck, Begin
<1>5. ASSUME NEW q \in Requests, ApproveWrite(q) PROVE LedgerIsSettled'
  <2>1. rcpt' = rcpt /\ op' = op /\ killed' = killed
    BY <1>5 DEF ApproveWrite
  <2>2. \A p \in Procs : p # q => pc'[p] = pc[p] /\ job'[p] = job[p] /\ result'[p] = result[p]
    BY <1>5 DEF ApproveWrite, Return
  <2>3. At(q, "approve") /\ pc'[q] \in {"idle", "enqueue_schedule"}
    BY <1>5 DEF ApproveWrite, Return
  <2>4. QED
    BY <2>1, <2>2, <2>3
<1>6. ASSUME NEW q \in Requests, EnqueueSchedule(q) PROVE LedgerIsSettled'
  BY <1>6 DEF EnqueueSchedule, Return
<1>7. ASSUME NEW q \in Requests, NEW r \in Recipients, Resolve(q, r) PROVE LedgerIsSettled'
  BY <1>7 DEF Resolve, Begin
<1>8. ASSUME NEW w \in Workers, NEW c \in Campaigns, ScheduleClaim(w, c) PROVE LedgerIsSettled'
  <2>1. \A q \in Procs :
           (pc'[q] = pc[q] /\ job'[q] = job[q]) \/ (pc[q] = "idle" /\ pc'[q] = "plan")
    BY <1>8 DEF ScheduleClaim, Begin
  <2>2. UNCHANGED <<rcpt, op, killed, result>>
    BY <1>8 DEF ScheduleClaim, Begin
  <2>3. \A v \in Workers, r \in Recipients : Holds(v, r) => Holds(v, r)'
    BY <2>1 DEF Holds, Claimed
  <2>4. /\ \A r \in Recipients : CutShort(r)' = CutShort(r)
        /\ \A q \in Procs : pc'[q] # "plan" => pc'[q] = pc[q] /\ job'[q] = job[q]
    BY <2>1, <2>2 DEF CutShort
  <2>5. QED
    BY <2>2, <2>3, <2>4
<1>9. ASSUME NEW w \in Workers, SchedulePlan(w) PROVE LedgerIsSettled'
  BY <1>9 DEF SchedulePlan
<1>10. ASSUME NEW w \in Workers, EnqueueDispatch(w) PROVE LedgerIsSettled'
  BY <1>10 DEF EnqueueDispatch
<1>11. ASSUME NEW w \in Workers, ScheduleReturn(w) PROVE LedgerIsSettled'
  BY <1>11 DEF ScheduleReturn, Return
<1>12. ASSUME NEW w \in Workers, NEW r \in Recipients, DispatchStart(w, r) PROVE LedgerIsSettled'
  BY <1>12 DEF DispatchStart, Begin
<1>13. ASSUME NEW w \in Workers, DispatchClaim(w) PROVE LedgerIsSettled'
  BY <1>13 DEF DispatchClaim, ClaimFrom, Return
<1>14. ASSUME NEW w \in Workers, CheckNumber(w) PROVE LedgerIsSettled'
  BY <1>14 DEF CheckNumber
<1>15. ASSUME NEW w \in Workers, MarkInvalid(w) PROVE LedgerIsSettled'
  BY <1>15 DEF MarkInvalid
<1>16. ASSUME NEW w \in Workers, Register(w) PROVE LedgerIsSettled'
  BY <1>16 DEF Register
<1>17. ASSUME NEW w \in Workers, Send(w) PROVE LedgerIsSettled'
  BY <1>17 DEF Send, Answer
<1>18. ASSUME NEW w \in Workers, RecordOperation(w) PROVE LedgerIsSettled'
  BY <1>18 DEF RecordOperation
<1>19. ASSUME NEW w \in Workers, RecordRecipient(w) PROVE LedgerIsSettled'
  BY <1>19 DEF RecordRecipient, RecordAs
<1>20. ASSUME NEW p \in Procs, FinalizeRead(p) PROVE LedgerIsSettled'
  <2>1. \A q \in Procs : q # p => pc'[q] = pc[q] /\ job'[q] = job[q] /\ result'[q] = result[q]
    BY <1>20 DEF FinalizeRead, FinalizeWhen, Return
  <2>2. pc'[p] \in {"idle", "write_final"} /\ pc[p] = "finalize" /\ UNCHANGED <<rcpt, op, killed>>
    BY <1>20 DEF FinalizeRead, FinalizeWhen, Return
  <2>3. QED
    BY <2>1, <2>2
<1>21. ASSUME NEW p \in Procs, FinalizeWrite(p) PROVE LedgerIsSettled'
  BY <1>21 DEF FinalizeWrite, Return
<1>22. CASE NewDay
  BY <1>22 DEF NewDay
<1>23. CASE Redeliver
  BY <1>23 DEF Redeliver
<1>24. ASSUME NEW p \in Procs, Crash(p) PROVE LedgerIsSettled'
  <2>1. rcpt' = rcpt /\ op' = op /\ killed' = killed \cup {<<pc[p], job[p]>>}
    BY <1>24 DEF Crash
  <2>2. /\ \A q \in Procs : q # p => pc'[q] = pc[q] /\ job'[q] = job[q] /\ result'[q] = result[q]
        /\ pc'[p] = "idle"
    BY <1>24 DEF Crash, Return
  <2>3. \A r \in Recipients : CutShort(r) => CutShort(r)'
    BY <2>1
  <2>4. ASSUME NEW r \in Recipients, pc[p] = "record_recipient", job[p].rcpt = r
        PROVE  CutShort(r)'
    <3>1. <<pc[p], job[p]>> \in killed'
      BY <2>1
    <3>2. QED
      BY <2>4, <3>1
  <2>5. ASSUME NEW r \in Recipients, op[r] \in Outcomes, \A w \in Workers : ~Holds(w, r)', ~CutShort(r)'
        PROVE  rcpt[r] = IF op[r] = "sent" THEN "sent" ELSE "failed"
    <3>1. ~CutShort(r) /\ ~(pc[p] = "record_recipient" /\ job[p].rcpt = r)
      BY <2>3, <2>4, <2>5
    <3>2. \A w \in Workers : ~Holds(w, r)
      BY <2>2, <2>5, <3>1
    <3>3. QED
      BY <2>5, <3>1, <3>2
  <2>6. QED
    BY <2>1, <2>2, <2>5
<1>25. CASE UNCHANGED vars
  BY <1>25 DEF vars
<1>26. QED
  BY <1>1, <1>2, <1>3, <1>4, <1>5, <1>6, <1>7, <1>8, <1>9, <1>10, <1>11, <1>12, <1>13,
     <1>14, <1>15, <1>16, <1>17, <1>18, <1>19, <1>20, <1>21, <1>22, <1>23, <1>24, <1>25
     DEF Next, Request, Work, Continue, Finalize

\* No step takes a recipient back.
LEMMA MovesOnStep == IInv /\ [Next]_vars => MovesOn
<1> SUFFICES ASSUME IInv, [Next]_vars PROVE MovesOn
  OBVIOUS
<1>a. TypeOK /\ RowsTogether /\ ClaimIsExclusive /\ SendOnce
  BY DEF IInv
<1> USE BlastAssumption, <1>a DEF TypeOK, At, SetRecipient, Procs, db, MovesOn, Terminal,
        RecipientStatus, ClaimIsExclusive, Claimed, SendOnce
<1>1. ASSUME NEW c \in Campaigns, Submit(c) \/ Reject(c) PROVE MovesOn
  BY <1>1 DEF Submit, Reject
<1>2. ASSUME NEW q \in Requests, NEW c \in Campaigns, CreateCampaign(q, c) PROVE MovesOn
  BY <1>2 DEF CreateCampaign, Begin
<1>3. ASSUME NEW q \in Requests, CreateRecipients(q) PROVE MovesOn
  <2>1. \A r \in Recipients :
           rcpt'[r] = rcpt[r] \/ (rcpt[r] = "absent" /\ rcpt'[r] = "pending")
    BY <1>3 DEF CreateRecipients, RowsTogether
  <2>2. QED
    BY <2>1 DEF MovesOn, Terminal, RecipientStatus
<1>4. ASSUME NEW q \in Requests, NEW c \in Campaigns, NEW u \in Users, ApproveCheck(q, c, u) PROVE MovesOn
  BY <1>4 DEF ApproveCheck, Begin
<1>5. ASSUME NEW q \in Requests, ApproveWrite(q) PROVE MovesOn
  BY <1>5 DEF ApproveWrite, Return
<1>6. ASSUME NEW q \in Requests, EnqueueSchedule(q) PROVE MovesOn
  BY <1>6 DEF EnqueueSchedule, Return
<1>7. ASSUME NEW q \in Requests, NEW r \in Recipients, Resolve(q, r) PROVE MovesOn
  BY <1>7 DEF Resolve, Begin
<1>8. ASSUME NEW w \in Workers, NEW c \in Campaigns, ScheduleClaim(w, c) PROVE MovesOn
  BY <1>8 DEF ScheduleClaim, Begin
<1>9. ASSUME NEW w \in Workers, SchedulePlan(w) PROVE MovesOn
  BY <1>9 DEF SchedulePlan
<1>10. ASSUME NEW w \in Workers, EnqueueDispatch(w) PROVE MovesOn
  BY <1>10 DEF EnqueueDispatch
<1>11. ASSUME NEW w \in Workers, ScheduleReturn(w) PROVE MovesOn
  BY <1>11 DEF ScheduleReturn, Return
<1>12. ASSUME NEW w \in Workers, NEW r \in Recipients, DispatchStart(w, r) PROVE MovesOn
  BY <1>12 DEF DispatchStart, Begin
<1>13. ASSUME NEW w \in Workers, DispatchClaim(w) PROVE MovesOn
  BY <1>13 DEF DispatchClaim, ClaimFrom, Return
<1>14. ASSUME NEW w \in Workers, CheckNumber(w) PROVE MovesOn
  BY <1>14 DEF CheckNumber
<1>15. ASSUME NEW w \in Workers, MarkInvalid(w) PROVE MovesOn
  BY <1>15 DEF MarkInvalid
<1>16. ASSUME NEW w \in Workers, Register(w) PROVE MovesOn
  BY <1>16 DEF Register
<1>17. ASSUME NEW w \in Workers, Send(w) PROVE MovesOn
  BY <1>17 DEF Send, Answer
<1>18. ASSUME NEW w \in Workers, RecordOperation(w) PROVE MovesOn
  BY <1>18 DEF RecordOperation
<1>19. ASSUME NEW w \in Workers, RecordRecipient(w) PROVE MovesOn
  BY <1>19 DEF RecordRecipient, RecordAs
<1>20. ASSUME NEW p \in Procs, FinalizeRead(p) PROVE MovesOn
  BY <1>20 DEF FinalizeRead, FinalizeWhen, Return
<1>21. ASSUME NEW p \in Procs, FinalizeWrite(p) PROVE MovesOn
  BY <1>21 DEF FinalizeWrite, Return
<1>22. CASE NewDay
  BY <1>22 DEF NewDay
<1>23. CASE Redeliver
  BY <1>23 DEF Redeliver
<1>24. ASSUME NEW p \in Procs, Crash(p) PROVE MovesOn
  BY <1>24 DEF Crash, Return
<1>25. CASE UNCHANGED vars
  BY <1>25 DEF vars
<1>26. QED
  BY <1>1, <1>2, <1>3, <1>4, <1>5, <1>6, <1>7, <1>8, <1>9, <1>10, <1>11, <1>12, <1>13,
     <1>14, <1>15, <1>16, <1>17, <1>18, <1>19, <1>20, <1>21, <1>22, <1>23, <1>24, <1>25
     DEF Next, Request, Work, Continue, Finalize

\* Every step is a step of BlastContract or leaves what it speaks of alone.
LEMMA ContractStep == IInv /\ [Next]_vars => [Contract!Next]_Contract!contractVars
<1> SUFFICES ASSUME IInv, [Next]_vars PROVE [Contract!Next]_Contract!contractVars
  OBVIOUS
<1>a. TypeOK /\ RowsTogether /\ StartedFirst /\ ClaimIsExclusive /\ SendOnce /\ FinalizerIsRight
      /\ ApproverIsEntitled
  BY DEF IInv
<1> USE BlastAssumption, <1>a DEF TypeOK, At, SetCampaign, SetRecipient, Procs,
        local, task, broker, outside, counters, db, Contract!contractVars
<1>1. ASSUME NEW c \in Campaigns, Submit(c) \/ Reject(c) PROVE [Contract!Next]_Contract!contractVars
  <2>1. CASE Submit(c)
    <3>1. Contract!Submit(c)
      BY <2>1 DEF Submit, Contract!Submit, Contract!Move
    <3>2. QED
      BY <3>1 DEF Contract!Next
  <2>2. CASE Reject(c)
    <3>1. Contract!Reject(c)
      BY <2>2 DEF Reject, Contract!Reject, Contract!Move
    <3>2. QED
      BY <3>1 DEF Contract!Next
  <2>3. QED
    BY <1>1, <2>1, <2>2
<1>2. ASSUME NEW q \in Requests, NEW c \in Campaigns, CreateCampaign(q, c) PROVE [Contract!Next]_Contract!contractVars
  <2>1. Contract!Create(c)
    BY <1>2 DEF CreateCampaign, Contract!Create, Contract!Move
  <2>2. QED
    BY <2>1 DEF Contract!Next
<1>3. ASSUME NEW q \in Requests, CreateRecipients(q) PROVE [Contract!Next]_Contract!contractVars
  <2>1. \A r \in Recipients : rcpt'[r] \in Terminal <=> rcpt[r] \in Terminal
    BY <1>3 DEF CreateRecipients, RowsTogether, Terminal
  <2>2. QED
    BY <1>3, <2>1 DEF CreateRecipients
<1>4. ASSUME NEW q \in Requests, NEW c \in Campaigns, NEW u \in Users, ApproveCheck(q, c, u) PROVE [Contract!Next]_Contract!contractVars
  BY <1>4 DEF ApproveCheck
<1>5. ASSUME NEW q \in Requests, ApproveWrite(q) PROVE [Contract!Next]_Contract!contractVars
  <2>1. CASE camp[job[q].camp] = "pending_approval"
    <3>1. Contract!Approve(job[q].camp)
      BY <1>5, <2>1 DEF ApproveWrite, ApproverIsEntitled, MayApprove,
                        Contract!Approve, Contract!Move, Contract!MayApprove
    <3>2. QED
      BY <1>5, <3>1 DEF Contract!Next, ApproveWrite, ApproverIsEntitled
  <2>2. CASE camp[job[q].camp] # "pending_approval"
    BY <1>5, <2>2 DEF ApproveWrite
  <2>3. QED
    BY <2>1, <2>2
<1>6. ASSUME NEW q \in Requests, EnqueueSchedule(q) PROVE [Contract!Next]_Contract!contractVars
  BY <1>6 DEF EnqueueSchedule
<1>7. ASSUME NEW q \in Requests, NEW r \in Recipients, Resolve(q, r) PROVE [Contract!Next]_Contract!contractVars
  <2>1. \A s \in Recipients : rcpt'[s] \in Terminal <=> s = r \/ rcpt[s] \in Terminal
    BY <1>7 DEF Resolve, Terminal
  <2>2. Contract!Settle(r)
    BY <1>7, <2>1 DEF Resolve, Contract!Settle, Contract!Started, StartedFirst, Started
  <2>3. QED
    BY <2>2 DEF Contract!Next
<1>8. ASSUME NEW w \in Workers, NEW c \in Campaigns, ScheduleClaim(w, c) PROVE [Contract!Next]_Contract!contractVars
  <2>1. CASE camp[c] = "approved"
    <3>1. Contract!Begin(c)
      BY <1>8, <2>1 DEF ScheduleClaim, Contract!Begin, Contract!Move
    <3>2. QED
      BY <3>1 DEF Contract!Next
  <2>2. CASE camp[c] # "approved"
    BY <1>8, <2>2 DEF ScheduleClaim
  <2>3. QED
    BY <2>1, <2>2
<1>9. ASSUME NEW w \in Workers, SchedulePlan(w) PROVE [Contract!Next]_Contract!contractVars
  BY <1>9 DEF SchedulePlan
<1>10. ASSUME NEW w \in Workers, EnqueueDispatch(w) PROVE [Contract!Next]_Contract!contractVars
  BY <1>10 DEF EnqueueDispatch
<1>11. ASSUME NEW w \in Workers, ScheduleReturn(w) PROVE [Contract!Next]_Contract!contractVars
  BY <1>11 DEF ScheduleReturn
<1>12. ASSUME NEW w \in Workers, NEW r \in Recipients, DispatchStart(w, r) PROVE [Contract!Next]_Contract!contractVars
  BY <1>12 DEF DispatchStart
<1>13. ASSUME NEW w \in Workers, DispatchClaim(w) PROVE [Contract!Next]_Contract!contractVars
  <2>1. \A r \in Recipients : rcpt'[r] \in Terminal <=> rcpt[r] \in Terminal
    BY <1>13 DEF DispatchClaim, ClaimFrom, ClaimIsExclusive, Terminal
  <2>2. QED
    BY <1>13, <2>1 DEF DispatchClaim, ClaimFrom
<1>14. ASSUME NEW w \in Workers, CheckNumber(w) PROVE [Contract!Next]_Contract!contractVars
  BY <1>14 DEF CheckNumber
<1>15. ASSUME NEW w \in Workers, MarkInvalid(w) PROVE [Contract!Next]_Contract!contractVars
  <2>1. PICK r \in Recipients : r = job[w].rcpt
    BY <1>15 DEF MarkInvalid, ClaimIsExclusive, Claimed
  <2>2. \A s \in Recipients : rcpt'[s] \in Terminal <=> s = r \/ rcpt[s] \in Terminal
    BY <1>15, <2>1 DEF MarkInvalid, Terminal
  <2>3. Contract!Settle(r)
    BY <1>15, <2>1, <2>2
       DEF MarkInvalid, Contract!Settle, Contract!Started, StartedFirst, Started,
                       ClaimIsExclusive, Claimed
  <2>4. QED
    BY <2>3 DEF Contract!Next
<1>16. ASSUME NEW w \in Workers, Register(w) PROVE [Contract!Next]_Contract!contractVars
  <2>1. op[job[w].rcpt] = "none"
    BY <1>16 DEF Register, SendOnce
  <2>2. QED
    BY <1>16, <2>1 DEF Register
<1>17. ASSUME NEW w \in Workers, Send(w) PROVE [Contract!Next]_Contract!contractVars
  <2>1. job[w].rcpt \in Recipients /\ sends[job[w].rcpt] = 0
    BY <1>17 DEF Send, ClaimIsExclusive, Claimed, SendOnce
  <2>2. \/ sends' = sends
        \/ sends' = [sends EXCEPT ![job[w].rcpt] = 1]
    BY <1>17, <2>1 DEF Send, Answer
  <2>3. CASE sends' = sends
    BY <1>17, <2>3 DEF Send, Answer
  <2>4. CASE sends' = [sends EXCEPT ![job[w].rcpt] = 1]
    <3>1. Contract!Attempt(job[w].rcpt)
      BY <1>17, <2>1, <2>4 DEF Send, Contract!Attempt, Contract!Started, StartedFirst, Started,
                               ClaimIsExclusive, Claimed
    <3>2. QED
      BY <2>1, <3>1 DEF Contract!Next
  <2>5. QED
    BY <2>2, <2>3, <2>4
<1>18. ASSUME NEW w \in Workers, RecordOperation(w) PROVE [Contract!Next]_Contract!contractVars
  BY <1>18 DEF RecordOperation
<1>19. ASSUME NEW w \in Workers, RecordRecipient(w) PROVE [Contract!Next]_Contract!contractVars
  <2>1. PICK r \in Recipients : r = job[w].rcpt
    BY <1>19 DEF RecordRecipient, RecordAs, ClaimIsExclusive, Claimed
  <2>2. \A s \in Recipients : rcpt'[s] \in Terminal <=> s = r \/ rcpt[s] \in Terminal
    BY <1>19, <2>1 DEF RecordRecipient, RecordAs, Terminal
  <2>3. Contract!Settle(r)
    BY <1>19, <2>1, <2>2
       DEF RecordRecipient, RecordAs, Contract!Settle, Contract!Started, StartedFirst,
           Started,
                       ClaimIsExclusive, Claimed
  <2>4. QED
    BY <2>3 DEF Contract!Next
<1>20. ASSUME NEW p \in Procs, FinalizeRead(p) PROVE [Contract!Next]_Contract!contractVars
  BY <1>20 DEF FinalizeRead, FinalizeWhen
<1>21. ASSUME NEW p \in Procs, FinalizeWrite(p) PROVE [Contract!Next]_Contract!contractVars
  <2> DEFINE c == job[p].camp
  <2>1. /\ c \in Campaigns
        /\ result[p] \in {"completed", "failed"}
        /\ Members(c) # {}
        /\ \A r \in Members(c) : rcpt[r] \in Terminal
    BY <1>21 DEF FinalizeWrite, FinalizerIsRight
  <2>2. \A r \in Recipients : CampaignOf[r] = c => rcpt[r] \in Terminal
    BY <2>1 DEF RowsTogether, Members, RecipientsOf
  <2>3. CASE camp[c] = "sending"
    <3>1. Contract!RecipientsOf(c) # {}
      BY <2>1 DEF Contract!RecipientsOf, Members, RecipientsOf
    <3>2. Contract!RecipientsOf(c) \subseteq {r \in Recipients : rcpt[r] \in Terminal}
      BY <2>2 DEF Contract!RecipientsOf
    <3>3. Contract!Finish(c)
      BY <1>21, <2>1, <2>3, <3>1, <3>2 DEF FinalizeWrite, Contract!Finish, Contract!Move
    <3>4. QED
      BY <2>1, <3>3 DEF Contract!Next
  <2>4. CASE camp[c] # "sending"
    BY <1>21, <2>4 DEF FinalizeWrite
  <2>5. QED
    BY <2>3, <2>4
<1>22. CASE NewDay
  BY <1>22 DEF NewDay
<1>23. CASE Redeliver
  BY <1>23 DEF Redeliver
<1>24. ASSUME NEW p \in Procs, Crash(p) PROVE [Contract!Next]_Contract!contractVars
  BY <1>24 DEF Crash
<1>25. CASE UNCHANGED vars
  BY <1>25 DEF vars
<1>26. QED
  BY <1>1, <1>2, <1>3, <1>4, <1>5, <1>6, <1>7, <1>8, <1>9, <1>10, <1>11, <1>12, <1>13,
     <1>14, <1>15, <1>16, <1>17, <1>18, <1>19, <1>20, <1>21, <1>22, <1>23, <1>24, <1>25
     DEF Next, Request, Work, Continue, Finalize

-----------------------------------------------------------------------------
(* What follows                                                            *)

\* The invariant holds before the first campaign is created.
LEMMA InitIInv == Init => IInv
<1> SUFFICES ASSUME Init PROVE IInv
  OBVIOUS
<1> USE BlastAssumption DEF Init
<1>1. TypeOK
  BY DEF TypeOK, Job, NoJob, Steps, CampaignStatus, RecipientStatus, OperationStatus, Outcomes
<1>2. RowsTogether /\ StartedFirst /\ ClaimIsExclusive
  BY DEF RowsTogether, StartedFirst, ClaimIsExclusive, Claimed, At, Started
<1>3. SendOnce /\ OutcomeKnown /\ AcceptanceIsKnown /\ LedgerIsSettled
  BY DEF SendOnce, OutcomeKnown, AcceptanceIsKnown, SentIsJustified, LedgerIsSettled, Holds,
         Claimed, Outcomes, At
<1>4. FinalizerIsRight /\ ApproverIsEntitled
  BY DEF FinalizerIsRight, ApproverIsEntitled, At
<1>5. FinishedIsSettled /\ NoLostFinalization
  BY DEF FinishedIsSettled, NoLostFinalization, AllSettled, HasFinalizer
<1>6. NoLostWork
  BY DEF NoLostWork, ScheduleKept, DispatchKept, ClaimKept
<1>7. QED
  BY <1>1, <1>2, <1>3, <1>4, <1>5, <1>6 DEF IInv

\* The inductive invariant holds in every reachable state.
THEOREM Invariance == Spec => []IInv
<1>1. IInv /\ [Next]_vars => IInv'
  BY TypeStep, RowsTogetherStep, StartedFirstStep, ClaimIsExclusiveStep, SendOnceStep,
     OutcomeKnownStep, FinalizerIsRightStep, ApproverIsEntitledStep, FinishedIsSettledStep,
     NoLostFinalizationStep, ScheduleKeptStep, DispatchKeptStep, ClaimKeptStep,
     AcceptanceIsKnownStep, LedgerIsSettledStep DEF IInv, NoLostWork
<1>2. QED
  BY InitIInv, <1>1, PTL DEF Spec

\* Every row, queue and handler keeps its type.
THEOREM TypeCorrect == Spec => []TypeOK
<1>1. IInv => TypeOK
  BY DEF IInv
<1>2. QED
  BY Invariance, <1>1, PTL

\* WAHA is asked to send to a recipient at most once (tasks.py, the claim and
\* the OutboundOperation row).
THEOREM SendsOnce == Spec => []AtMostOneSend
<1>1. IInv => AtMostOneSend
  BY DEF IInv, SendOnce, AtMostOneSend
<1>2. QED
  BY Invariance, <1>1, PTL

\* A closed campaign has recipients and all of them are settled
\* (_maybe_finalize_campaign).
THEOREM FinishesSettled == Spec => []FinishedIsSettled
<1>1. IInv => FinishedIsSettled
  BY DEF IInv
<1>2. QED
  BY Invariance, <1>1, PTL

\* A sending campaign with settled recipients is about to be finalized (the race
\* of the last two recipients), unless a finalizer of its own was killed.
THEOREM FinalizationNotLost == Spec => []NoLostFinalization
<1>1. IInv => NoLostFinalization
  BY DEF IInv
<1>2. QED
  BY Invariance, <1>1, PTL

\* What an approved campaign has yet to do is in the broker or in a process's
\* hands, unless a kill or a late insert took it away.
THEOREM WorkNotLost == Spec => []NoLostWork
<1>1. IInv => NoLostWork
  BY DEF IInv
<1>2. QED
  BY Invariance, <1>1, PTL

\* A campaign has a task in the broker, or a process at work for it.
HasWork(c) ==
    \/ scheduleQ[c] > 0
    \/ \E r \in RecipientsOf(c) : dispatchQ[r] > 0
    \/ \E p \in Procs : job[p].camp = c /\ pc[p] \notin {"idle", "create_recipients", "approve"}
\* Nobody was killed while working for it, and its recipients came first.
Undisturbed(c) ==
    /\ \A k \in killed : k[2].camp # c /\ k[2].rcpt \notin RecipientsOf(c)
    /\ late \cap RecipientsOf(c) = {}

\* The safety behind ApprovedFinishes: whatever overlaps, an undisturbed campaign
\* that is approved, or sending with recipients, never stands still.
NeverStandsStill ==
    \A c \in Campaigns :
        Undisturbed(c) /\ (camp[c] = "approved" \/ (camp[c] = "sending" /\ Members(c) # {})) => HasWork(c)

\* No campaign is left with nothing that would move it on.
THEOREM CampaignsGoOn == Spec => []NeverStandsStill
<1>1. IInv => NeverStandsStill
  <2> SUFFICES ASSUME IInv, NEW c \in Campaigns, Undisturbed(c),
                      camp[c] = "approved" \/ (camp[c] = "sending" /\ Members(c) # {})
               PROVE  HasWork(c)
    BY DEF NeverStandsStill
  <2>a. TypeOK /\ StartedFirst /\ ClaimIsExclusive /\ NoLostFinalization /\ NoLostWork
    BY DEF IInv
  <2>1. CASE camp[c] = "approved"
    BY <2>a, <2>1 DEF NoLostWork, ScheduleKept, ToSchedule, KilledAt, Undisturbed, HasWork, At
  <2>2. ASSUME camp[c] = "sending", NEW r \in RecipientsOf(c), rcpt[r] = "pending" PROVE HasWork(c)
    <3>1. r \in Recipients \ late /\ CampaignOf[r] = c
      BY DEF RecipientsOf, Undisturbed
    <3>2. ToDispatch(r)
      BY <2>a, <2>2, <3>1 DEF NoLostWork, DispatchKept, KilledAt, KilledFor, Undisturbed
    <3>3. QED
      BY <2>a, <3>1, <3>2 DEF ToDispatch, HasWork, StartedFirst, ClaimIsExclusive, At
  <2>3. ASSUME NEW r \in RecipientsOf(c), rcpt[r] = "sending" PROVE HasWork(c)
    <3>1. r \in Recipients /\ CampaignOf[r] = c
      BY DEF RecipientsOf
    <3>2. PICK p \in Procs : Holds(p, r)
      BY <2>a, <2>3, <3>1 DEF NoLostWork, ClaimKept, KilledFor, Undisturbed
    <3>3. QED
      BY <2>a, <3>1, <3>2 DEF Holds, Claimed, HasWork, ClaimIsExclusive
  <2>4. ASSUME camp[c] = "sending", Members(c) # {}, \A r \in Members(c) : rcpt[r] \in Terminal
        PROVE  HasWork(c)
    BY <2>a, <2>4
       DEF NoLostFinalization, AllSettled, HasFinalizer, LostFinalizer, Undisturbed, HasWork
  <2>5. \A r \in Members(c) : r \in RecipientsOf(c) /\ rcpt[r] \in {"pending", "sending"} \cup Terminal
    BY <2>a DEF TypeOK, RecipientStatus, Members, RecipientsOf
  <2>6. QED
    BY <2>1, <2>2, <2>3, <2>4, <2>5
<1>2. QED
  BY Invariance, <1>1, PTL

\* `sent` is said only of a message that WhatsApp took or an administrator
\* answered for.
THEOREM SentHasReason == Spec => []SentIsJustified
<1>1. IInv => SentIsJustified
  BY DEF IInv, AcceptanceIsKnown
<1>2. QED
  BY Invariance, <1>1, PTL

\* The recipient and its OutboundOperation agree once its dispatch is over,
\* unless the dispatch was killed between its two writes or an administrator
\* resolved the recipient.
THEOREM LedgersAgree == Spec => []LedgerAgrees
<1>1. IInv => LedgerAgrees
  <2> SUFFICES ASSUME IInv, NEW r \in Recipients \ manual, op[r] \in Outcomes,
                      \A w \in Workers : ~Holds(w, r), ~CutShort(r)
               PROVE  rcpt[r] = "sent" <=> op[r] = "sent"
    BY DEF LedgerAgrees
  <2>1. rcpt[r] = IF op[r] = "sent" THEN "sent" ELSE "failed"
    BY DEF IInv, LedgerIsSettled
  <2>2. QED
    BY <2>1
<1>2. QED
  BY Invariance, <1>1, PTL

\* A recipient's status only moves on: pending, sending, settled (the claim, and
\* the blind writes after it).
THEOREM NeverReopens == Spec => RecipientNeverReopens
<1>1. IInv /\ [Next]_vars => [MovesOn]_vars
  BY MovesOnStep
<1>2. QED
  BY Invariance, <1>1, PTL DEF Spec, RecipientNeverReopens

\* The workflow implements BlastContract: transition table, second-person
\* approval, one attempt per recipient of a started campaign, settled before
\* finished.
THEOREM Implementation == Spec => ContractSpec
<1>1. Init => Contract!Init
  BY DEF Init, Contract!Init, Terminal
<1>2. QED
  BY Invariance, ContractStep, <1>1, PTL DEF Spec, ContractSpec, Contract!Spec
=============================================================================
