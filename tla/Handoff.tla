------------------------------ MODULE Handoff ------------------------------
(***************************************************************************)
(* One WhatsApp chat between the bot and the operators (backend/apps/chats *)
(* and the message snapshot of backend/apps/webhooks/services.py).         *)
(*                                                                         *)
(* A webhook thread stores a citizen's message and runs the conversation   *)
(* engine on it; request threads run the operators' endpoints; the expiry  *)
(* task ends handoffs that went quiet.  Every database statement is one    *)
(* step that reads what is committed; storing a message is a transaction   *)
(* and writes at its last statement, every other write commits alone.      *)
(* Rows are saved by primary key with the values the thread decided on     *)
(* when it read them.  A thread may be killed between two steps and leaves *)
(* what it committed.                                                      *)
(*                                                                         *)
(* Replies to the citizen are best effort and change no row, so sending    *)
(* them is no step.  A refused request changes nothing and is no step      *)
(* either, unless it is refused on something read after its first read.    *)
(* Memberships, roles, availability and the bot's menus are fixed, except  *)
(* that an administrator may delete a menu.                                *)
(***************************************************************************)
EXTENDS FiniteSets

CONSTANTS Messages,   \* inbound messages of the chat; each starts at most one session
          Requests,   \* operator requests
          Offices, Users,
          Home,       \* OfficeMembership.office
          Operators,  \* available, active users with an operator role
          Admins,     \* active users with an office admin role
          Globals,    \* superadmins and global admins
          OneWorker,  \* Django serves one HTTP request at a time
          NoOffice, Nobody, NoSession

ASSUME HandoffAssumption ==
    /\ NoOffice \notin Offices /\ Nobody \notin Users /\ NoSession \notin Messages
    /\ Home \in [Users -> Offices \cup {NoOffice}]
    /\ Operators \cup Admins \cup Globals \subseteq Users
    /\ \A u \in Operators \cup Admins : Home[u] # NoOffice
    /\ OneWorker \in BOOLEAN

VARIABLES rows,    \* ConversationSession rows, named by the message that created them
          chat,    \* Chat.office and Chat.assigned_to
          quiet,   \* Chat.last_message_at lies before the expiry cutoff
          hook,    \* webhook threads: position and what they read
          req,     \* operator request threads: position and what they read
          sweep,   \* the session the expiry task is about to end
          routed,  \* history: every value Chat.office has had
          had      \* history: who had the conversation while a message's Office was read

db == <<rows, chat, quiet>>
threads == <<hook, req, sweep>>
vars == <<db, threads, routed, had>>

-----------------------------------------------------------------------------
(* Rows and threads                                                        *)

OfficeOrNone == Offices \cup {NoOffice}
UserOrNone == Users \cup {Nobody}
\* An ordinary menu, or the Office selector.
Menus == {"root", "selector"}
MenuOrNone == Menus \cup {"none"}

Session == [st : {"none", "active", "waiting", "completed"}, menu : MenuOrNone, office : OfficeOrNone]
NoRow == [st |-> "none", menu |-> "none", office |-> NoOffice]
Opened(menu) == [st |-> "active", menu |-> menu, office |-> NoOffice]

\* The states of the partial unique constraint on (chat).
Live(s) == rows[s].st \in {"active", "waiting"}
Waiting(s) == rows[s].st = "waiting"
NoneLive == \A s \in Messages : ~Live(s)
\* The constraint lets s become live.
Unrivalled(s) == \A t \in Messages \ {s} : ~Live(t)

HookStep == {"unsent", "opened", "between", "file",
             "stored", "found", "abandon", "create", "route", "over"}
HookState == [pc : HookStep, seen : Messages \cup {NoSession}, menu : MenuOrNone, office : OfficeOrNone]
ReqStep == {"new", "claim", "check", "assign", "closing", "close", "reroute", "over"}
ReqState == [pc : ReqStep, who : UserOrNone, seen : Messages \cup {NoSession}, office : OfficeOrNone]

HookReads(pc, s, menu) == [pc |-> pc, seen |-> s, menu |-> menu, office |-> NoOffice]
HookAt(pc) == HookReads(pc, NoSession, "none")
ReqReads(pc, u, s) == [pc |-> pc, who |-> u, seen |-> s, office |-> NoOffice]
ReqAt(pc) == ReqReads(pc, Nobody, NoSession)

\* A thread that has begun and not ended.
HookBusy(m) == hook[m].pc \notin {"unsent", "over"}
ReqBusy(r) == req[r].pc \notin {"new", "over"}
\* A gunicorn process is free to take a request (one sync worker by default).
Free == OneWorker => /\ \A m \in Messages : ~HookBusy(m)
                     /\ \A r \in Requests : ~ReqBusy(r)

MoveHook(m, state) == hook' = [hook EXCEPT ![m] = state]
EndHook(m) == MoveHook(m, HookAt("over"))
MoveReq(r, state) == req' = [req EXCEPT ![r] = state]
EndReq(r) == MoveReq(r, ReqAt("over"))

\* Mutant: a state outside STATE_CHOICES, which save() does not check.
CompletedAsClosed(s) == [rows EXCEPT ![s].st = "closed", ![s].menu = "none"]

\* ConversationSession.save of a completed session, whatever the row holds by now
Completed(s) == [rows EXCEPT ![s].st = "completed", ![s].menu = "none"]
Complete(s) == rows' = Completed(s)

\* Mutant: no partial unique constraint.
InsertUnconstrained(m, menu) ==
    /\ EndHook(m)
    /\ rows' = [rows EXCEPT ![m] = Opened(menu)]

\* ConversationSession.objects.create; IntegrityError ends the thread.
Insert(m, menu) ==
    /\ EndHook(m)
    /\ rows' = IF NoneLive THEN [rows EXCEPT ![m] = Opened(menu)] ELSE rows

\* save() of a session into waiting_operator; IntegrityError ends the thread.
StartWaiting(s, row) ==
    rows' = IF Unrivalled(s) THEN [rows EXCEPT ![s] = row] ELSE rows

Init ==
    /\ rows = [m \in Messages |-> NoRow]
    /\ chat \in [office : OfficeOrNone, owner : {Nobody}]   \* office: WahaSession.office
    /\ quiet = FALSE
    /\ hook = [m \in Messages |-> HookAt("unsent")]
    /\ req = [r \in Requests |-> ReqAt("new")]
    /\ sweep = NoSession
    /\ routed = {chat.office}
    /\ had = [m \in Messages |-> {}]

-----------------------------------------------------------------------------
(* A citizen's message                                                     *)

(* persist_message: one READ COMMITTED transaction of several statements   *)

HookFiles(pc, o) == [HookAt(pc) EXCEPT !.office = o]

\* The chat is read, with its Office.
OpenChat(m) ==
    /\ hook[m].pc = "unsent" /\ Free
    /\ MoveHook(m, HookFiles("opened", chat.office))
    /\ UNCHANGED <<db, req, sweep, routed>>

\* A live session's Office goes before the chat's.
FindOffice(m) ==
    /\ hook[m].pc = "opened"
    /\ \/ NoneLive /\ MoveHook(m, HookFiles("between", hook[m].office))
       \/ \E s \in Messages : Live(s) /\ MoveHook(m, HookFiles("file", rows[s].office))
    /\ UNCHANGED <<db, req, sweep, routed>>

\* Mutant: between two rounds, the chat's Office, as it once was.
FallBackToChat(m) ==
    /\ hook[m].pc = "between"
    /\ MoveHook(m, HookFiles("file", hook[m].office))
    /\ UNCHANGED <<db, req, sweep, routed>>

\* No session was live: no Office, or the chat's if the bot never engaged.
AskHistory(m) ==
    /\ hook[m].pc = "between"
    /\ MoveHook(m, HookFiles("file", IF \E s \in Messages : rows[s].st # "none"
                                     THEN NoOffice ELSE hook[m].office))
    /\ UNCHANGED <<db, req, sweep, routed>>

\* The message is inserted under that Office, last_message_at is bumped, and the
\* transaction commits. Nothing modelled here reads the Message row again.
Store(m) ==
    /\ hook[m].pc = "file"
    /\ MoveHook(m, HookAt("stored"))
    /\ quiet' = FALSE
    /\ UNCHANGED <<rows, chat, req, sweep, routed>>

(* handle_conversation_message                                             *)

\* A group, an empty body, or a bot that is off or has no root menu.
Ignore(m) ==
    /\ hook[m].pc = "stored"
    /\ EndHook(m)
    /\ UNCHANGED <<db, req, sweep, routed>>

\* Mutant: a handoff in progress is a session like any other.
FindAnySession(m) ==
    /\ hook[m].pc = "stored"
    /\ \/ NoneLive /\ MoveHook(m, HookAt("found"))
       \/ \E s \in Messages :
            Live(s) /\ MoveHook(m, HookReads("found", s, rows[s].menu))
    /\ UNCHANGED <<db, req, sweep, routed>>

\* The engine's one read of the session. A handoff in progress ends it.
FindSession(m) ==
    /\ hook[m].pc = "stored"
    /\ \/ NoneLive /\ MoveHook(m, HookAt("found"))
       \/ \E s \in Messages :
            /\ Live(s)
            /\ IF Waiting(s) THEN EndHook(m)
               ELSE MoveHook(m, HookReads("found", s, rows[s].menu))
    /\ UNCHANGED <<db, req, sweep, routed>>

\* The text is a trigger: _abandon_active_session reads the live session again.
MatchTrigger(m) ==
    /\ hook[m].pc = "found"
    /\ \E menu \in Menus :
         \/ NoneLive /\ MoveHook(m, HookReads("create", NoSession, menu))
         \/ \E s \in Messages :
              Live(s) /\ MoveHook(m, HookReads("abandon", s, menu))
    /\ UNCHANGED <<db, req, sweep, routed>>

Abandon(m) ==
    /\ hook[m].pc = "abandon"
    /\ Complete(hook[m].seen)
    /\ MoveHook(m, HookReads("create", NoSession, hook[m].menu))
    /\ UNCHANGED <<chat, quiet, req, sweep, routed>>

Create(m) ==
    /\ hook[m].pc = "create"
    /\ Insert(m, hook[m].menu)
    /\ UNCHANGED <<chat, quiet, req, sweep, routed>>

\* No session was live and the text is no trigger.
StartFirst(m) ==
    /\ hook[m].pc = "found" /\ hook[m].seen = NoSession
    /\ Insert(m, "root")
    /\ UNCHANGED <<chat, quiet, req, sweep, routed>>

\* The session's menu was deleted under it.
Recover(m) ==
    /\ hook[m].pc = "found" /\ hook[m].seen # NoSession /\ hook[m].menu = "none"
    /\ Complete(hook[m].seen)
    /\ MoveHook(m, HookReads("create", NoSession, "root"))
    /\ UNCHANGED <<chat, quiet, req, sweep, routed>>

\* The text selects nothing, or turns a page of the Office selector.
Reshow(m) ==
    /\ hook[m].pc = "found" /\ hook[m].menu \in Menus
    /\ EndHook(m)
    /\ UNCHANGED <<db, req, sweep, routed>>

AtItem(m) == hook[m].pc = "found" /\ hook[m].menu = "root"

ShowMenu(m) ==
    /\ AtItem(m)
    /\ \E menu \in Menus : rows' = [rows EXCEPT ![hook[m].seen].menu = menu]
    /\ EndHook(m)
    /\ UNCHANGED <<chat, quiet, req, sweep, routed>>

\* An item that sends a text or just completes: the session ends.
Finish(m) ==
    /\ AtItem(m)
    /\ Complete(hook[m].seen)
    /\ EndHook(m)
    /\ UNCHANGED <<chat, quiet, req, sweep, routed>>

\* A handoff item: only the state is saved.
HandOff(m) ==
    /\ AtItem(m)
    /\ StartWaiting(hook[m].seen, [rows[hook[m].seen] EXCEPT !.st = "waiting"])
    /\ EndHook(m)
    /\ UNCHANGED <<chat, quiet, req, sweep, routed>>

\* Mutant: the last round's assignee stays.
RouteChatOnly(o) ==
    /\ chat' = [chat EXCEPT !.office = o]
    /\ routed' = routed \cup {o}

\* Chat.office := o, and the last round's assignee is cleared.
RouteChat(o) ==
    /\ chat' = [office |-> o, owner |-> Nobody]
    /\ routed' = routed \cup {o}

\* Mutant: the session is written before the chat.
SelectSessionFirst(m) ==
    /\ hook[m].pc = "found" /\ hook[m].menu = "selector"
    /\ \E o \in Offices :
         /\ StartWaiting(hook[m].seen, [st |-> "waiting", menu |-> "none", office |-> o])
         /\ MoveHook(m, [pc |-> "route", seen |-> hook[m].seen, menu |-> "none", office |-> o])
    /\ UNCHANGED <<chat, quiet, req, sweep, routed>>

\* An Office picked at the selector: first the chat, ...
SelectOffice(m) ==
    /\ hook[m].pc = "found" /\ hook[m].menu = "selector"
    /\ \E o \in Offices :
         /\ RouteChat(o)
         /\ MoveHook(m, [pc |-> "route", seen |-> hook[m].seen, menu |-> "none", office |-> o])
    /\ UNCHANGED <<rows, quiet, req, sweep>>

\* ... then, in a statement of its own, the session.
RouteSession(m) ==
    /\ hook[m].pc = "route"
    /\ StartWaiting(hook[m].seen, [st |-> "waiting", menu |-> "none", office |-> hook[m].office])
    /\ EndHook(m)
    /\ UNCHANGED <<chat, quiet, req, sweep, routed>>

HookDies(m) ==
    /\ HookBusy(m)
    /\ EndHook(m)
    /\ UNCHANGED <<db, req, sweep, routed>>

Message(m) ==
    \/ OpenChat(m) \/ FindOffice(m) \/ AskHistory(m) \/ Store(m)
    \/ Ignore(m) \/ FindSession(m) \/ MatchTrigger(m) \/ Abandon(m)
    \/ Create(m) \/ StartFirst(m) \/ Recover(m) \/ Reshow(m) \/ ShowMenu(m)
    \/ Finish(m) \/ HandOff(m) \/ SelectOffice(m) \/ RouteSession(m) \/ HookDies(m)

-----------------------------------------------------------------------------
(* The operators' requests                                                 *)

\* can_manage_chat, on the chat as the view read it
Manages(u) == u \in Globals \/ (Home[u] # NoOffice /\ chat.office = Home[u])
\* claim_chat's rule: an operator or an admin of the chat's Office, or global access
MayClaim(u) ==
    u \in Globals \/ (chat.office # NoOffice /\ u \in Operators \cup Admins /\ Home[u] = chat.office)
\* assign_chat_to_operator's rule for the target
MayHandle(u) == u \in Operators /\ Home[u] = chat.office
\* transfer_chat's rule for the target, in its Office
MayReceive(u) == u \in Operators \cup Admins

Begin(r, state) == req[r].pc = "new" /\ Free /\ MoveReq(r, state)

\* The view reads an unassigned chat and finds the caller eligible.
OpenClaim(r) ==
    /\ \E u \in Users :
         /\ Manages(u) /\ chat.owner = Nobody /\ MayClaim(u)
         /\ Begin(r, ReqReads("claim", u, NoSession))
    /\ UNCHANGED <<db, hook, sweep, routed>>

\* UPDATE chats_chat SET assigned_to WHERE pk: nothing is compared.
Own(r) ==
    /\ chat' = [chat EXCEPT !.owner = req[r].who]
    /\ EndReq(r)
    /\ UNCHANGED <<rows, quiet, hook, sweep, routed>>

Claim(r) == req[r].pc = "claim" /\ Own(r)

\* Assigning to a target, or (Nobody) unassigning. Taking the chat from the
\* assignee the view read needs a look for an open handoff first.
OpenAssign(r) ==
    /\ \E actor \in Globals \cup Admins, target \in UserOrNone :
         /\ Manages(actor)
         /\ target = Nobody \/ MayHandle(target)
         /\ Begin(r, ReqReads(IF chat.owner \in {Nobody, target} THEN "assign" ELSE "check",
                              target, NoSession))
    /\ UNCHANGED <<db, hook, sweep, routed>>

CheckClosed(r) ==
    /\ req[r].pc = "check"
    /\ IF \E s \in Messages : Waiting(s) THEN EndReq(r)
       ELSE MoveReq(r, ReqReads("assign", req[r].who, NoSession))
    /\ UNCHANGED <<db, hook, sweep, routed>>

Assign(r) == req[r].pc = "assign" /\ Own(r)

OpenClose(r) ==
    /\ \E u \in Users :
         /\ Manages(u)
         /\ Begin(r, ReqReads("closing", u, NoSession))
    /\ UNCHANGED <<db, hook, sweep, routed>>

FindWaiting(r) ==
    /\ req[r].pc = "closing"
    /\ \/ (\A s \in Messages : ~Waiting(s)) /\ EndReq(r)
       \/ \E s \in Messages :
            Waiting(s) /\ MoveReq(r, ReqReads("close", req[r].who, s))
    /\ UNCHANGED <<db, hook, sweep, routed>>

Close(r) ==
    /\ req[r].pc = "close"
    /\ Complete(req[r].seen)
    /\ EndReq(r)
    /\ UNCHANGED <<chat, quiet, hook, sweep, routed>>

\* Global access only: the chat moves to a member of another Office, ...
Transfer(r) ==
    /\ Globals # {}
    /\ \E u \in Users :
         /\ MayReceive(u)
         /\ Begin(r, [pc |-> "reroute", who |-> Nobody, seen |-> NoSession, office |-> Home[u]])
         /\ chat' = [office |-> Home[u], owner |-> u]
         /\ routed' = routed \cup {Home[u]}
    /\ UNCHANGED <<rows, quiet, hook, sweep>>

\* ... then its open handoff.
TransferSession(r) ==
    /\ req[r].pc = "reroute"
    /\ rows' = [s \in Messages |-> IF Waiting(s) THEN [rows[s] EXCEPT !.office = req[r].office]
                                   ELSE rows[s]]
    /\ EndReq(r)
    /\ UNCHANGED <<chat, quiet, hook, sweep, routed>>

\* POST /internal/operator-chat/select-office/: the chat alone, in one statement.
SelectByApi(r) ==
    /\ Begin(r, ReqAt("over"))
    /\ \E o \in Offices : RouteChat(o)
    /\ UNCHANGED <<rows, quiet, hook, sweep>>

RequestDies(r) ==
    /\ ReqBusy(r)
    /\ EndReq(r)
    /\ UNCHANGED <<db, hook, sweep, routed>>

Request(r) ==
    \/ OpenClaim(r) \/ Claim(r) \/ OpenAssign(r) \/ CheckClosed(r) \/ Assign(r)
    \/ OpenClose(r) \/ FindWaiting(r) \/ Close(r)
    \/ Transfer(r) \/ TransferSession(r) \/ SelectByApi(r) \/ RequestDies(r)

-----------------------------------------------------------------------------
(* Expiry, activity, and the bot's administrator                           *)

\* Mutant: handoffs that picked no Office are overlooked.
ScanRouted ==
    /\ sweep = NoSession /\ quiet
    /\ \E s \in Messages : Waiting(s) /\ rows[s].office # NoOffice /\ sweep' = s
    /\ UNCHANGED <<db, hook, req, routed>>

\* The task lists the quiet handoffs up front ...
Scan ==
    /\ sweep = NoSession /\ quiet
    /\ \E s \in Messages : Waiting(s) /\ sweep' = s
    /\ UNCHANGED <<db, hook, req, routed>>

\* ... and ends each later, without looking again.
Expire ==
    /\ sweep # NoSession
    /\ Complete(sweep)
    /\ sweep' = NoSession
    /\ UNCHANGED <<chat, quiet, hook, req, routed>>

SweepDies ==
    /\ sweep # NoSession
    /\ sweep' = NoSession
    /\ UNCHANGED <<db, hook, req, routed>>

\* No message from either side for CONVERSATION_WAITING_OPERATOR_TIMEOUT_SECONDS.
GoesQuiet ==
    /\ ~quiet /\ quiet' = TRUE
    /\ UNCHANGED <<rows, chat, threads, routed>>

\* A reply by an operator or the bot is reconciled into the chat.
Reply ==
    /\ quiet /\ quiet' = FALSE
    /\ UNCHANGED <<rows, chat, threads, routed>>

\* BotMenu.delete: current_menu is SET_NULL, so sessions lose their place.
DeleteMenu ==
    /\ \E menu \in Menus :
         /\ \E s \in Messages : rows[s].menu = menu
         /\ rows' = [s \in Messages |-> IF rows[s].menu = menu
                                        THEN [rows[s] EXCEPT !.menu = "none"] ELSE rows[s]]
    /\ UNCHANGED <<chat, quiet, threads, routed>>

\* The Offices that have the conversation: the one its open handoff waits at, or
\* the chat's own as long as the bot never engaged.
Holders == IF \A s \in Messages : rows[s].st = "none" THEN Offices \cap {chat.office}
           ELSE {o \in Offices : \E s \in Messages : Waiting(s) /\ rows[s].office = o}

\* Collected while the transaction reads; what it read is looked up in them.
Track ==
    had' = [m \in Messages |->
              CASE hook'[m].pc \in {"opened", "between"} -> had[m] \cup Holders'
                [] hook'[m].pc = "file" -> had[m] \cap {hook'[m].office}
                [] OTHER -> {}]

Next ==
    /\ \/ \E m \in Messages : Message(m)
       \/ \E r \in Requests : Request(r)
       \/ Scan \/ Expire \/ SweepDies \/ GoesQuiet \/ Reply \/ DeleteMenu
    /\ Track

Spec == Init /\ [][Next]_vars

\* Beat starts the task again and again, and not every run of it is killed.
FairSpec == Spec /\ WF_vars(Scan /\ Track) /\ SF_vars(Expire /\ Track)

-----------------------------------------------------------------------------
(* Properties                                                              *)

\* Every variable holds a value of its kind.
TypeOK ==
    /\ rows \in [Messages -> Session]
    /\ chat \in [office : OfficeOrNone, owner : UserOrNone]
    /\ quiet \in BOOLEAN
    /\ hook \in [Messages -> HookState]
    /\ req \in [Requests -> ReqState]
    /\ sweep \in Messages \cup {NoSession}
    /\ routed \subseteq OfficeOrNone
    /\ had \in [Messages -> SUBSET Offices]

(* What holds however many processes serve requests *)

\* A session is never filed under an Office its chat was not routed to
\* before: selection and transfer write the chat first, so whatever dies or
\* fails in between, no Office owns a conversation it could not see.
SessionFollowsChat == \A s \in Messages : rows[s].office \in routed \cup {NoOffice}

\* The partial unique index keeps one session per chat live, even though
\* every writer of a session decides on a row it read earlier.
OneLiveSession == \A s, t \in Messages : Live(s) /\ Live(t) => s = t

\* The citizen's way through the menus stays out of every Office's inbox: an
\* inbound message is filed under an Office only if that Office had the
\* conversation at some moment between the first and the last read of
\* persist_message. Chats are routed, sessions start and handoffs end between
\* those reads and before the insert, so it may have lost the conversation by
\* then, but an Office that only had an earlier round is never filed under (the
\* comment on messages "mis-tagged to whichever Office they'd picked LAST time").
NavigationIsPrivate ==
    [][\A m \in Messages : Store(m) => hook[m].office \in had[m] \cup {NoOffice}]_vars

\* A handoff nobody closes ends by itself once the chat stays quiet, whatever
\* stale writes and killed runs of the task come between (chats/tasks.py).
HandoffEnds ==
    <>[]quiet => \A s \in Messages : [](Waiting(s) => <>~Waiting(s))

(* What holds as long as Django serves one request at a time *)

\* A live handoff is immune to every inbound message: only a close or the
\* expiry may end it (handle_conversation_message).
HandoffImmune ==
    [][\A s \in Messages : Waiting(s) /\ rows'[s].st # "waiting" => hook' = hook]_vars

\* Whoever holds the chat may: its assignee belongs to its current Office or
\* has global access ("cross-Office assignment is impossible", ChatAssignView).
OwnerBelongs == chat.owner \in {Nobody} \cup Globals \/ Home[chat.owner] = chat.office

\* Assigning or unassigning never takes an open handoff from the one who
\* holds it (the "hard block" of _has_open_waiting_operator_session).
OpenHandoffKeepsOwner ==
    [][(\E r \in Requests : Assign(r)) /\ (\E s \in Messages : Waiting(s))
         => chat.owner \in {Nobody, chat'.owner}]_vars

\* A handoff is closed by a user of the Office that owns the chat now, never
\* by one it has left (can_manage_chat on "Kasongan's now-active session").
ClosedByItsOffice ==
    [][\A r \in Requests : Close(r) =>
          req[r].who \in Globals \/ Home[req[r].who] = chat.office]_vars

\* A completed session stays completed: a citizen who returns gets a new one
\* (ConversationSession, "rather than reusing/resetting an old one").
CompletedStays ==
    [][\A s \in Messages : rows[s].st = "completed" => rows'[s].st = "completed"]_vars

\* The chat keeps the promises of Conversation: the bot's turns and the
\* operators' never overlap, and one leads to the other only by a handoff and its end.
Acting(m) == hook[m].pc \in {"found", "abandon", "create", "route"}
Phase == IF \E s \in Messages : Waiting(s) THEN "operators" ELSE IF NoneLive THEN "none" ELSE "menu"
Talk == INSTANCE Conversation WITH phase <- Phase, turn <- \E m \in Messages : Acting(m)
ConversationSpec == Talk!Spec

(* What the repository says and the code does not do *)

\* "A fresh round always needs to be claimed again, regardless of who handled
\* the previous one" (select_office_for_chat): a new handoff has no assignee.
FreshRoundIsPending ==
    [][\A s \in Messages : rows[s].st = "active" /\ rows'[s].st = "waiting"
         => chat'.owner = Nobody]_vars
=============================================================================
