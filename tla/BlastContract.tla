--------------------------- MODULE BlastContract ---------------------------
(***************************************************************************)
(* What a bulk-send campaign promises to the people who use it, whatever   *)
(* the request threads, Celery workers and redeliveries behind it do:      *)
(*                                                                         *)
(*   - a campaign moves only along BlastCampaign.ALLOWED_TRANSITIONS;      *)
(*   - it is approved by somebody else than its creator, or by a superuser;*)
(*   - WhatsApp is asked to send to a recipient at most once, and only in a*)
(*     campaign that was approved and started;                             *)
(*   - a campaign is finished only when every recipient has been settled,  *)
(*     and a settled recipient stays settled.                              *)
(*                                                                         *)
(* Blast.tla implements this specification (Blast!Contract).               *)
(***************************************************************************)
EXTENDS Naturals

CONSTANTS Campaigns,    \* BlastCampaign rows that may come to exist
          Recipients,   \* BlastRecipient rows that may come to exist
          CampaignOf,   \* the campaign of each recipient
          Users,        \* dashboard users
          CreatorOf,    \* the user who creates each campaign
          Superusers,   \* Django superusers
          None          \* "no user"

VARIABLES status,       \* the status of each campaign, "none" before it exists
          approver,     \* who approved it
          attempts,     \* how often WhatsApp was asked to send to a recipient
          settled       \* recipients whose outcome is recorded

contractVars == <<status, approver, attempts, settled>>

RecipientsOf(c) == {r \in Recipients : CampaignOf[r] = c}

\* BlastCampaignApproveView's rule on who may approve.
MayApprove(u, c) == u # CreatorOf[c] \/ u \in Superusers

Started(c) == status[c] \in {"sending", "completed", "failed"}

Init ==
    /\ status = [c \in Campaigns |-> "none"]
    /\ approver = [c \in Campaigns |-> None]
    /\ attempts = [r \in Recipients |-> 0]
    /\ settled = {}

Move(c, from, to) ==
    /\ status[c] = from
    /\ status' = [status EXCEPT ![c] = to]

Create(c) == Move(c, "none", "draft") /\ UNCHANGED <<approver, attempts, settled>>

Submit(c) ==
    Move(c, "draft", "pending_approval") /\ UNCHANGED <<approver, attempts, settled>>

Reject(c) ==
    Move(c, "pending_approval", "rejected") /\ UNCHANGED <<approver, attempts, settled>>

Approve(c) ==
    /\ Move(c, "pending_approval", "approved")
    /\ \E u \in Users : MayApprove(u, c) /\ approver' = [approver EXCEPT ![c] = u]
    /\ UNCHANGED <<attempts, settled>>

Begin(c) == Move(c, "approved", "sending") /\ UNCHANGED <<approver, attempts, settled>>

Attempt(r) ==
    /\ Started(CampaignOf[r])
    /\ attempts[r] = 0
    /\ attempts' = [attempts EXCEPT ![r] = 1]
    /\ UNCHANGED <<status, approver, settled>>

Settle(r) ==
    /\ Started(CampaignOf[r])
    /\ settled' = settled \cup {r}
    /\ UNCHANGED <<status, approver, attempts>>

Finish(c) ==
    /\ RecipientsOf(c) # {}
    /\ RecipientsOf(c) \subseteq settled
    /\ \E to \in {"completed", "failed"} : Move(c, "sending", to)
    /\ UNCHANGED <<approver, attempts, settled>>

Next ==
    \/ \E c \in Campaigns :
          Create(c) \/ Submit(c) \/ Reject(c) \/ Approve(c) \/ Begin(c) \/ Finish(c)
    \/ \E r \in Recipients : Attempt(r) \/ Settle(r)

Spec == Init /\ [][Next]_contractVars
=============================================================================
