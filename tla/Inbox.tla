-------------------------------- MODULE Inbox --------------------------------
(***************************************************************************)
(* What ingestion promises about a message, whatever is delivered twice,   *)
(* to several threads, found in WAHA's history or cut short (backend/apps/ *)
(* webhooks/services.py):                                                  *)
(*                                                                         *)
(*   - it is kept once, by one path, in one step with its chat's activity; *)
(*   - the bot answers it at most once, and only if the webhook kept it;   *)
(*   - each event gets one verdict, which says what became of its message. *)
(*                                                                         *)
(* A message may be kept and its event processed without an answer: this   *)
(* much the code does not promise (see Ingest!ProcessedIsEngaged).         *)
(*                                                                         *)
(* Ingest implements this specification (Ingest!Promise).                  *)
(***************************************************************************)
EXTENDS Naturals

CONSTANTS Messages, Notices, Inbound, Broken, Chats, ChatOf, At

VARIABLES kept,      \* which path keeps a message, "none" before
          activity,  \* the time of a message of each chat, 0 before
          answered,  \* messages the bot answered
          verdict    \* how an event ended, "open" before

inboxVars == <<kept, activity, answered, verdict>>

Init ==
    /\ kept = [m \in Messages |-> "none"]
    /\ activity = [c \in Chats |-> 0]
    /\ answered = {}
    /\ verdict = [e \in Messages \cup Notices |-> "open"]

\* persist_message, from the webhook or from reconciliation
Keep(m, path) ==
    /\ kept[m] = "none" /\ m \notin Broken
    /\ kept' = [kept EXCEPT ![m] = path]
    /\ activity' \in {activity, [activity EXCEPT ![ChatOf[m]] = At[m]]}
    /\ activity'[ChatOf[m]] # 0
    /\ UNCHANGED <<answered, verdict>>

\* handle_conversation_message
Answer(m) ==
    /\ kept[m] = "webhook" /\ m \in Inbound \ answered
    /\ answered' = answered \cup {m}
    /\ UNCHANGED <<kept, activity, verdict>>

\* The event is saved with a status other than pending.
Conclude(e, v) ==
    /\ verdict[e] = "open"
    /\ CASE v = "processed" -> e \in Messages /\ kept[e] # "none"
         [] v = "failed" -> e \in Broken
         [] v = "unsupported" -> e \in Notices
    /\ verdict' = [verdict EXCEPT ![e] = v]
    /\ UNCHANGED <<kept, activity, answered>>

Next ==
    \/ \E m \in Messages : Answer(m) \/ \E path \in {"webhook", "history"} : Keep(m, path)
    \/ \E e \in Messages \cup Notices, v \in {"processed", "failed", "unsupported"} : Conclude(e, v)

Spec == Init /\ [][Next]_inboxVars
=============================================================================
