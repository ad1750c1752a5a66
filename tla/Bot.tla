--------------------------------- MODULE Bot ---------------------------------
(***************************************************************************)
(* The bot's menus, edited while a citizen walks through them (apps/bot,   *)
(* and the conversation engine of apps/chats as far as it reads them).     *)
(*                                                                         *)
(* Administrators edit menus, items, triggers and configurations by        *)
(* requests that are not transactions: a row is read, checked against what *)
(* the body asks, and saved with every column, another process coming in   *)
(* between; a save of a row deleted meanwhile inserts it again.  The       *)
(* engine handles one message of the chat at a time, one query or write a  *)
(* step; overlapping messages are Handoff's subject.  The citizen may tap  *)
(* any row of any list ever sent to the chat: a list that is late, lost    *)
(* or replaced by its text is one whose rows are tapped later or never.    *)
(*                                                                         *)
(* Left out: texts, names, orders and letter case; a menu's Office and its *)
(* `enabled`, which the engine does not read; replies without rows; who    *)
(* may administer what (Access).                                           *)
(***************************************************************************)
EXTENDS Integers, FiniteSets

CONSTANTS Menus, Items,        \* rows, by identity
          Triggers, Configs,   \* rows, by a number that grows with their creation
          Offices, Rank,       \* and their places in the order of names
          Words, Number,       \* what can be typed, the number it is, or 0
          Pk, Name,            \* an Office's key and name as texts
          Setups,              \* configurations to start from
          NewMenus, NewItems, NewTriggers,                       \* bodies of POST requests
          MenuBodies, ItemBodies, TriggerBodies, ConfigBodies,   \* bodies of PATCH requests
          Requests,            \* administrators' requests, each performed once
          MaxMessages, MaxRows, PageSize,
          Unused, Deleted, NoMenu, NoSession, Everywhere, NoRow, Turn

MenuOrNone == Menus \cup {NoMenu}
Scopes == Offices \cup {Everywhere}
Deeds == {"text", "menu", "complete", "handoff"}
MenuRow == [parent : MenuOrNone, selector : BOOLEAN]
ItemRow == [menu : Menus, word : Words, label : Words, does : Deeds, target : MenuOrNone, on : BOOLEAN]
TriggerRow == [scope : Scopes, word : Words, target : MenuOrNone, on : BOOLEAN]
ConfigRow == [scope : Scopes, on : BOOLEAN, root : MenuOrNone]

\* A table holds a row, or nothing under an identity not used yet or deleted.
Table(ids, row) == [ids -> row \cup {Unused, Deleted}]
Row(table, x) == table[x] \notin {Unused, Deleted}
Rows(table) == {x \in DOMAIN table : Row(table, x)}

\* Every reference of a row is to a menu that is there.
Refers(mn, m) == m \in Rows(mn) \cup {NoMenu}
Referential(mn, it, tr, cf) ==
    /\ \A m \in Rows(mn) : Refers(mn, mn[m].parent)
    /\ \A i \in Rows(it) : Row(mn, it[i].menu) /\ Refers(mn, it[i].target)
    /\ \A t \in Rows(tr) : Refers(mn, tr[t].target)
    /\ \A c \in Rows(cf) : Refers(mn, cf[c].root)

\* unique_trigger_value_per_menu
Distinct(it) == \A i, j \in Rows(it) : it[i].menu = it[j].menu /\ it[i].word = it[j].word => i = j

\* BotMenuItemSerializer.validate
Leads(row) == row.does = "menu" => row.target # NoMenu

\* The row a PATCH saves: the body's fields over the row as it was read.
Patched(row, body) == [f \in DOMAIN row |-> IF f \in DOMAIN body THEN body[f] ELSE row[f]]

ASSUME BotAssumption ==
    /\ Triggers \subseteq Nat /\ Configs \subseteq Nat
    /\ NoMenu \notin Menus /\ NoSession \notin MenuOrNone /\ Everywhere \notin Offices
    /\ IsFiniteSet(Offices) /\ Rank \in [Offices -> Nat] /\ Number \in [Words -> Nat] /\ Pk \in [Offices -> Words] /\ Name \in [Offices -> Words]
    /\ \A o, p \in Offices : Rank[o] = Rank[p] \/ Pk[o] = Pk[p] => o = p
    /\ MaxMessages \in Nat /\ PageSize \in Nat \ {0} /\ MaxRows \in Nat /\ PageSize + 2 <= MaxRows
    /\ {NoRow, Turn} \cap (Words \cup Items \cup Offices) = {} /\ Unused # Deleted
    /\ {Unused, Deleted} \cap (MenuRow \cup ItemRow \cup TriggerRow \cup ConfigRow) = {}
    /\ \A s \in Setups :
          /\ s.menu \in Table(Menus, MenuRow) /\ s.item \in Table(Items, ItemRow)
          /\ s.trigger \in Table(Triggers, TriggerRow) /\ s.config \in Table(Configs, ConfigRow)
          /\ Referential(s.menu, s.item, s.trigger, s.config) /\ Distinct(s.item)
          /\ \A i \in Rows(s.item) : Leads(s.item[i])
    /\ NewMenus \subseteq MenuRow /\ NewItems \subseteq ItemRow /\ NewTriggers \subseteq TriggerRow
    /\ \A b \in MenuBodies : \A r \in MenuRow : Patched(r, b) \in MenuRow
    /\ \A b \in ItemBodies : \A r \in ItemRow : Patched(r, b) \in ItemRow /\ Patched(r, b).menu = r.menu
    /\ \A b \in TriggerBodies : \A r \in TriggerRow : Patched(r, b) \in TriggerRow
    /\ \A b \in ConfigBodies : \A r \in ConfigRow : Patched(r, b) \in ConfigRow

VARIABLES menu, item, trigger, config,   \* BotMenu, BotMenuItem, BotTrigger, BotConfig
          open,      \* Offices that are active and take handoffs
          chat,      \* Chat.office
          session,   \* the chat's latest ConversationSession
          shown,     \* rows of the lists sent to the chat
          sent,      \* messages of the citizen
          hook,      \* the engine's thread: position and local variables
          req        \* requests: position and local variables

tables == <<menu, item, trigger, config>>
talk == <<chat, session, shown, sent, hook>>
vars == <<tables, open, talk, req>>

-----------------------------------------------------------------------------
(* Threads                                                                 *)

\* The row that turns to a page, and rows as the citizen sends them: key and
\* title, and what they stood for in the list.
PageRow(n) == [page |-> n]
ListRow == [row : Words \cup [page : Int], text : Words \cup {Turn}, of : Items \cup Offices \cup {Turn}]
Typed(w) == [row |-> NoRow, text |-> w, of |-> NoRow]
Message == ListRow \cup {Typed(w) : w \in Words \cup {NoRow}}

HookStep == {"idle", "config", "session", "match", "abandon", "create", "offices", "route", "wait", "item", "act", "send"}
HookState == [pc : HookStep, msg : Message, at : MenuOrNone \cup {NoSession}, sel : BOOLEAN,
              next : MenuOrNone, page : Nat, does : Deeds, office : Scopes]
Idle == [pc |-> "idle", msg |-> Typed(NoRow), at |-> NoSession, sel |-> FALSE, next |-> NoMenu, page |-> 0,
         does |-> "text", office |-> Everywhere]

MoveHook(state) == hook' = state
EndHook == hook' = Idle

\* Ids and rows of the tables, and what has none.
Ids == Menus \cup Items \cup Triggers \cup Configs \cup {NoMenu}
AnyRow == MenuRow \cup ItemRow \cup TriggerRow \cup ConfigRow \cup {Unused}
ReqStep == {"new", "insert", "config", "item", "trigger", "menu", "delete", "over"}
ReqState == [pc : ReqStep, id : Ids, row : AnyRow, scope : Scopes, body : ConfigBodies \cup {Unused}]
ReqAt(pc) == [pc |-> pc, id |-> NoMenu, row |-> Unused, scope |-> Everywhere, body |-> Unused]
\* About to save a row.
Saves(pc, id, row) == [pc |-> pc, id |-> id, row |-> row, scope |-> Everywhere, body |-> Unused]
MoveReq(q, state) == req' = [req EXCEPT ![q] = state]
EndReq(q) == MoveReq(q, ReqAt("over"))

Init ==
    /\ \E s \in Setups : menu = s.menu /\ item = s.item /\ trigger = s.trigger /\ config = s.config
    /\ open \in SUBSET Offices
    /\ chat \in Scopes        \* Everywhere: no Office yet
    /\ session = [st |-> "none", menu |-> NoMenu]
    /\ shown = {} /\ sent = 0
    /\ hook = Idle
    /\ req = [q \in Requests |-> ReqAt("new")]

-----------------------------------------------------------------------------
(* The engine                                                              *)

First(S) == {x \in S : \A y \in S : x <= y}

\* _effective_config: the Office's row if there is one, else the first global one.
ConfigsOf(scope) == {c \in Rows(config) : config[c].scope = scope}
Effective == First(IF ConfigsOf(chat) # {} THEN ConfigsOf(chat) ELSE ConfigsOf(Everywhere))

\* _match_trigger
Called(scope, w) == {t \in Rows(trigger) : trigger[t].on /\ trigger[t].word = w /\ trigger[t].scope = scope}
Trigger(w) == First(IF Called(chat, w) # {} THEN Called(chat, w) ELSE Called(Everywhere, w))

\* A typed text, or a tap on a row of a list the chat was sent.
Receive ==
    /\ hook.pc = "idle" /\ sent < MaxMessages
    /\ \E msg \in {Typed(w) : w \in Words} \cup shown : MoveHook([Idle EXCEPT !.pc = "config", !.msg = msg])
    /\ sent' = sent + 1
    /\ UNCHANGED <<tables, open, chat, session, shown, req>>

ReadConfig ==
    /\ hook.pc = "config"
    /\ LET usable == {c \in Effective : config[c].on /\ config[c].root # NoMenu} IN
       \/ usable = {} /\ EndHook
       \/ \E c \in usable : MoveHook([hook EXCEPT !.pc = "session", !.next = config[c].root])
    /\ UNCHANGED <<tables, open, chat, session, shown, sent, req>>

\* The session with its menu.  A handoff in progress ends the thread.
ReadSession ==
    /\ hook.pc = "session"
    /\ \/ session.st = "waiting" /\ EndHook
       \/ /\ session.st = "active"
          /\ MoveHook([hook EXCEPT !.pc = "match", !.at = session.menu,
                                   !.sel = session.menu # NoMenu /\ menu[session.menu].selector])
       \/ session.st \notin {"waiting", "active"} /\ MoveHook([hook EXCEPT !.pc = "match"])
    /\ UNCHANGED <<tables, open, chat, session, shown, sent, req>>

\* The position without a trigger: a session whose menu is gone is completed
\* and started again at the root.
Onward == CASE hook.at = NoSession -> "create"
            [] hook.at = NoMenu -> "abandon"
            [] hook.at \in Menus /\ hook.sel -> "offices"
            [] OTHER -> "item"

\* Mutant: a trigger without a menu is followed.
MatchBlind ==
    /\ hook.pc = "match"
    /\ LET T == Trigger(hook.msg.text) IN
       \/ \E t \in T : MoveHook([hook EXCEPT !.pc = "abandon", !.next = trigger[t].target])
       \/ T = {} /\ MoveHook([hook EXCEPT !.pc = Onward])
    /\ UNCHANGED <<tables, open, chat, session, shown, sent, req>>

\* A trigger leads to its menu from anywhere; without one the session decides.
Match ==
    /\ hook.pc = "match"
    /\ LET T == {t \in Trigger(hook.msg.text) : trigger[t].target # NoMenu} IN
       \/ \E t \in T : MoveHook([hook EXCEPT !.pc = "abandon", !.next = trigger[t].target])
       \/ T = {} /\ MoveHook([hook EXCEPT !.pc = Onward])
    /\ UNCHANGED <<tables, open, chat, session, shown, sent, req>>

Over == [st |-> "completed", menu |-> NoMenu]

Abandon ==
    /\ hook.pc = "abandon"
    /\ session' = IF session.st \in {"active", "waiting"} THEN Over ELSE session
    /\ MoveHook([hook EXCEPT !.pc = "create"])
    /\ UNCHANGED <<tables, open, chat, shown, sent, req>>

\* Mutant: the list is sent although the session could not be created.
CreateUnchecked ==
    /\ hook.pc = "create"
    /\ session' = IF hook.next \in Rows(menu) THEN [st |-> "active", menu |-> hook.next] ELSE session
    /\ MoveHook([hook EXCEPT !.pc = "send"])
    /\ UNCHANGED <<tables, open, chat, shown, sent, req>>

\* ConversationSession.objects.create; IntegrityError ends the thread.
Create ==
    /\ hook.pc = "create"
    /\ \/ /\ hook.next \in Rows(menu)
          /\ session' = [st |-> "active", menu |-> hook.next]
          /\ MoveHook([hook EXCEPT !.pc = "send"])
       \/ hook.next \notin Rows(menu) /\ EndHook /\ UNCHANGED session
    /\ UNCHANGED <<tables, open, chat, shown, sent, req>>

\* Mutant: the text decides before the key of the row.
PicksByText(w, row) ==
    LET S == {i \in Rows(item) : item[i].menu = hook.at /\ item[i].on}
        said == {i \in S : item[i].word = w \/ item[i].label = w}
    IN IF said # {} THEN said ELSE {i \in S : item[i].word = row}

\* _match_menu_item: the key of a tapped row decides, and only if it is no
\* item's, the text.  Of several items the administrators' order takes one.
Picks(w, row) ==
    LET S == {i \in Rows(item) : item[i].menu = hook.at /\ item[i].on}
        keyed == {i \in S : item[i].word = row}
    IN IF keyed # {} THEN keyed ELSE {i \in S : item[i].word = w \/ item[i].label = w}

\* An item is picked, or the menu is shown again.
PickItem ==
    /\ hook.pc = "item"
    /\ LET P == Picks(hook.msg.text, hook.msg.row) IN
       \/ P = {} /\ MoveHook([hook EXCEPT !.pc = "send", !.next = hook.at])
       \/ \E i \in P : MoveHook([hook EXCEPT !.pc = "act", !.does = item[i].does, !.next = item[i].target])
    /\ UNCHANGED <<tables, open, chat, session, shown, sent, req>>

\* The target is read here: it may be gone (DoesNotExist), or never have been
\* there, which is saved before it is noticed.
ShowMenu ==
    /\ hook.pc = "act" /\ hook.does = "menu"
    /\ \/ /\ hook.next \in Rows(menu)
          /\ session' = [session EXCEPT !.menu = hook.next]
          /\ MoveHook([hook EXCEPT !.pc = "send", !.page = IF menu[hook.next].selector THEN 1 ELSE 0])
       \/ /\ hook.next \notin Rows(menu)
          /\ session' = IF hook.next = NoMenu THEN [session EXCEPT !.menu = NoMenu] ELSE session
          /\ EndHook
    /\ UNCHANGED <<tables, open, chat, shown, sent, req>>

\* An item that sends a text or just completes.
Finish ==
    /\ hook.pc = "act" /\ hook.does \in {"text", "complete"}
    /\ session' = Over
    /\ EndHook
    /\ UNCHANGED <<tables, open, chat, shown, sent, req>>

\* Only the state is saved.
HandOff ==
    /\ hook.pc = "act" /\ hook.does = "handoff"
    /\ session' = [session EXCEPT !.st = "waiting"]
    /\ EndHook
    /\ UNCHANGED <<tables, open, chat, shown, sent, req>>

\* Closed by an operator, or expired.
Close ==
    /\ session.st = "waiting"
    /\ session' = Over
    /\ UNCHANGED <<tables, open, chat, shown, sent, hook, req>>

\* The process is killed.
Die == hook.pc # "idle" /\ EndHook /\ UNCHANGED <<tables, open, chat, session, shown, sent, req>>

-----------------------------------------------------------------------------
(* Lists                                                                   *)

\* _send_menu: the enabled items as rows, a text if there are none or too many.
MenuRows(m) ==
    LET S == {i \in Rows(item) : item[i].menu = m /\ item[i].on} IN
    IF Cardinality(S) \in 1..MaxRows THEN {[row |-> item[i].word, text |-> item[i].label, of |-> i] : i \in S} ELSE {}

\* Offices are listed by name, PageSize on a page.
Place(o) == Cardinality({p \in open : Rank[p] <= Rank[o]})
Count == Cardinality(open)
OnPage(n) == {o \in open : (n - 1) * PageSize < Place(o) /\ Place(o) <= n * PageSize}
LastPage == IF Count = 0 THEN 1 ELSE (Count - 1) \div PageSize + 1
Clamped(n) == IF n > LastPage THEN LastPage ELSE IF n < 1 THEN 1 ELSE n

\* _office_selector_rows: a page's Offices, and rows to the pages before and after.
PageOfRows(n) ==
    {[row |-> Pk[o], text |-> Name[o], of |-> o] : o \in OnPage(n)}
    \cup {[row |-> PageRow(p), text |-> Turn, of |-> Turn] :
             p \in {q \in {n - 1} : n > 1} \cup {q \in {n + 1} : n * PageSize < Count}}

\* Mutant: the page is the one the row says.
OfficeRowsUnclamped(n) == PageOfRows(n)

\* _send_office_selector
OfficeRows(n) == PageOfRows(Clamped(n))

\* The items are read when the list is sent, after the session was saved.
Send ==
    /\ hook.pc = "send"
    /\ shown' = shown \cup IF hook.page = 0 THEN MenuRows(hook.next) ELSE OfficeRows(hook.page)
    /\ EndHook
    /\ UNCHANGED <<tables, open, chat, session, sent, req>>

-----------------------------------------------------------------------------
(* The Office selector                                                     *)

TurnsPage == hook.msg.row \in [page : Int]
\* The Office of a tapped row, else the one whose place in the list is typed.
Keyed == {o \in open : Pk[o] = hook.msg.row}
Typical == IF hook.msg.text \in Words THEN Number[hook.msg.text] ELSE 0
Chosen == IF Keyed # {} THEN Keyed ELSE {o \in open : Place(o) = Typical}

\* No Office is open, or the number is no place in the list: a text.
ChooseNone ==
    /\ hook.pc = "offices"
    /\ open = {} \/ (~TurnsPage /\ Chosen = {} /\ Typical # 0)
    /\ EndHook
    /\ UNCHANGED <<tables, open, chat, session, shown, sent, req>>

\* A page is turned, or the first one shown again.
ShowPage ==
    /\ hook.pc = "offices" /\ open # {}
    /\ TurnsPage \/ (Chosen = {} /\ Typical = 0)
    /\ shown' = shown \cup OfficeRows(IF TurnsPage THEN hook.msg.row.page ELSE 1)
    /\ EndHook
    /\ UNCHANGED <<tables, open, chat, session, sent, req>>

Choose ==
    /\ hook.pc = "offices" /\ ~TurnsPage
    /\ \E o \in Chosen : MoveHook([hook EXCEPT !.pc = "route", !.office = o])
    /\ UNCHANGED <<tables, open, chat, session, shown, sent, req>>

\* select_office_for_chat asks again whether the Office is open.
Route ==
    /\ hook.pc = "route"
    /\ \/ hook.office \in open /\ chat' = hook.office /\ MoveHook([hook EXCEPT !.pc = "wait"])
       \/ hook.office \notin open /\ EndHook /\ UNCHANGED chat
    /\ UNCHANGED <<tables, open, session, shown, sent, req>>

Wait ==
    /\ hook.pc = "wait"
    /\ session' = [st |-> "waiting", menu |-> NoMenu]
    /\ EndHook
    /\ UNCHANGED <<tables, open, chat, shown, sent, req>>

\* OfficeInboxConfig.enabled or Office.is_active is changed.
Toggle(o) ==
    /\ open' = IF o \in open THEN open \ {o} ELSE open \cup {o}
    /\ UNCHANGED <<tables, talk, req>>

-----------------------------------------------------------------------------
(* Configurations                                                          *)

NewConfig(scope) == [scope |-> scope, on |-> FALSE, root |-> NoMenu]
SaveOfConfig(c, row, b) == Saves("config", c, Patched(row, b))

\* get_or_create looks for the row; two of them raise.
BeginConfig(q) ==
    /\ req[q].pc = "new"
    /\ \E s \in Scopes, b \in ConfigBodies :
         \/ ConfigsOf(s) = {} /\ MoveReq(q, [ReqAt("insert") EXCEPT !.scope = s, !.body = b])
         \/ \E c \in Configs : ConfigsOf(s) = {c} /\ MoveReq(q, SaveOfConfig(c, config[c], b))
    /\ UNCHANGED <<tables, open, talk>>

\* ... and inserts it with its defaults before the body is validated.  The
\* unique index knows Offices only: NULL is distinct from NULL.
InsertConfig(q) ==
    /\ req[q].pc = "insert"
    /\ LET s == req[q].scope IN
       \/ /\ s = Everywhere \/ ConfigsOf(s) = {}
          /\ \E c \in Configs :
               /\ config[c] = Unused /\ \A d \in Configs : d < c => config[d] # Unused
               /\ config' = [config EXCEPT ![c] = NewConfig(s)]
               /\ MoveReq(q, SaveOfConfig(c, NewConfig(s), req[q].body))
       \/ /\ s # Everywhere
          /\ \E c \in ConfigsOf(s) : MoveReq(q, SaveOfConfig(c, config[c], req[q].body))
          /\ UNCHANGED config
    /\ UNCHANGED <<menu, item, trigger, open, talk>>

\* A body that names no menu, or an Office that has a row, is refused.
SaveConfig(q) ==
    /\ req[q].pc = "config"
    /\ LET c == req[q].id
           row == req[q].row
       IN config' = IF Refers(menu, row.root) /\ (row.scope = Everywhere \/ ConfigsOf(row.scope) \subseteq {c})
                    THEN [config EXCEPT ![c] = row] ELSE config
    /\ EndReq(q)
    /\ UNCHANGED <<menu, item, trigger, open, talk>>

-----------------------------------------------------------------------------
(* Items                                                                   *)

\* The foreign keys and the unique index let item i be the row.
ItemFits(i, row) ==
    /\ Row(menu, row.menu) /\ Refers(menu, row.target)
    /\ \A j \in Rows(item) \ {i} : item[j].menu = row.menu => item[j].word # row.word

CreateItem(q) ==
    /\ req[q].pc = "new"
    /\ \E i \in Items, row \in NewItems :
         /\ item[i] = Unused /\ Leads(row) /\ ItemFits(i, row)
         /\ item' = [item EXCEPT ![i] = row]
    /\ EndReq(q)
    /\ UNCHANGED <<menu, trigger, config, open, talk>>

\* Mutant: the serializer looks at the body alone.
PatchItemLoose(q) ==
    /\ req[q].pc = "new"
    /\ \E i \in Rows(item), b \in ItemBodies :
         /\ "does" \in DOMAIN b => Leads(Patched(item[i], b))
         /\ MoveReq(q, Saves("item", i, Patched(item[i], b)))
    /\ UNCHANGED <<tables, open, talk>>

\* The item is read, and the row to save validated; ...
PatchItem(q) ==
    /\ req[q].pc = "new"
    /\ \E i \in Rows(item), b \in ItemBodies :
         /\ Leads(Patched(item[i], b))
         /\ MoveReq(q, Saves("item", i, Patched(item[i], b)))
    /\ UNCHANGED <<tables, open, talk>>

\* ... then all of it is saved, or refused by the database.
SaveItem(q) ==
    /\ req[q].pc = "item"
    /\ item' = IF ItemFits(req[q].id, req[q].row) THEN [item EXCEPT ![req[q].id] = req[q].row] ELSE item
    /\ EndReq(q)
    /\ UNCHANGED <<menu, trigger, config, open, talk>>

DeleteItem(q) ==
    /\ req[q].pc = "new"
    /\ \E i \in Rows(item) : item' = [item EXCEPT ![i] = Deleted]
    /\ EndReq(q)
    /\ UNCHANGED <<menu, trigger, config, open, talk>>

-----------------------------------------------------------------------------
(* Triggers                                                                *)

TriggerFits(t, row) ==
    /\ Refers(menu, row.target)
    /\ row.scope # Everywhere =>
          \A u \in Rows(trigger) \ {t} : trigger[u].scope = row.scope => trigger[u].word # row.word

CreateTrigger(q) ==
    /\ req[q].pc = "new"
    /\ \E t \in Triggers, row \in NewTriggers :
         /\ trigger[t] = Unused /\ \A u \in Triggers : u < t => trigger[u] # Unused
         /\ TriggerFits(t, row)
         /\ trigger' = [trigger EXCEPT ![t] = row]
    /\ EndReq(q)
    /\ UNCHANGED <<menu, item, config, open, talk>>

PatchTrigger(q) ==
    /\ req[q].pc = "new"
    /\ \E t \in Rows(trigger), b \in TriggerBodies : MoveReq(q, Saves("trigger", t, Patched(trigger[t], b)))
    /\ UNCHANGED <<tables, open, talk>>

SaveTrigger(q) ==
    /\ req[q].pc = "trigger"
    /\ trigger' = IF TriggerFits(req[q].id, req[q].row) THEN [trigger EXCEPT ![req[q].id] = req[q].row] ELSE trigger
    /\ EndReq(q)
    /\ UNCHANGED <<menu, item, config, open, talk>>

DeleteTrigger(q) ==
    /\ req[q].pc = "new"
    /\ \E t \in Rows(trigger) : trigger' = [trigger EXCEPT ![t] = Deleted]
    /\ EndReq(q)
    /\ UNCHANGED <<menu, item, config, open, talk>>

-----------------------------------------------------------------------------
(* Menus                                                                   *)

CreateMenu(q) ==
    /\ req[q].pc = "new"
    /\ \E m \in Menus, row \in NewMenus :
         /\ menu[m] = Unused /\ Refers(menu, row.parent)
         /\ menu' = [menu EXCEPT ![m] = row]
    /\ EndReq(q)
    /\ UNCHANGED <<item, trigger, config, open, talk>>

PatchMenu(q) ==
    /\ req[q].pc = "new"
    /\ \E m \in Rows(menu), b \in MenuBodies : MoveReq(q, Saves("menu", m, Patched(menu[m], b)))
    /\ UNCHANGED <<tables, open, talk>>

SaveMenu(q) ==
    /\ req[q].pc = "menu"
    /\ menu' = IF req[q].row.parent = req[q].id \/ Refers(menu, req[q].row.parent)
               THEN [menu EXCEPT ![req[q].id] = req[q].row] ELSE menu
    /\ EndReq(q)
    /\ UNCHANGED <<item, trigger, config, open, talk>>

\* Rows that keep a menu, counting those of the items in I and the menus in M.
Protects(m, I, M) ==
    \/ \E i \in I : item[i].target = m
    \/ \E t \in Rows(trigger) : trigger[t].target = m
    \/ \E n \in M : menu[n].parent = m

\* The collector finds no row that protects the menu; ...
CheckDelete(q) ==
    /\ req[q].pc = "new"
    /\ \E m \in Rows(menu) : ~Protects(m, Rows(item), Rows(menu)) /\ MoveReq(q, [ReqAt("delete") EXCEPT !.id = m])
    /\ UNCHANGED <<tables, open, talk>>

\* ... then, in one transaction, its items go, references to it from
\* configurations and sessions become null, and it is deleted, or the
\* foreign key of a row that came in between undoes all of it.
DeleteMenu(q) ==
    /\ req[q].pc = "delete"
    /\ LET m == req[q].id
           own == {i \in Rows(item) : item[i].menu = m}
       IN IF menu[m] = Deleted \/ Protects(m, Rows(item) \ own, Rows(menu) \ {m})
          THEN UNCHANGED <<menu, item, config, session>>
          ELSE /\ menu' = [menu EXCEPT ![m] = Deleted]
               /\ item' = [i \in Items |-> IF i \in own THEN Deleted ELSE item[i]]
               /\ config' = [c \in Configs |-> IF c \in Rows(config) /\ config[c].root = m
                                               THEN [config[c] EXCEPT !.root = NoMenu] ELSE config[c]]
               /\ session' = IF session.menu = m THEN [session EXCEPT !.menu = NoMenu] ELSE session
    /\ EndReq(q)
    /\ UNCHANGED <<trigger, open, chat, shown, sent, hook>>

\* The process of a request is killed.
DieRequest(q) ==
    /\ req[q].pc \notin {"new", "over"}
    /\ EndReq(q)
    /\ UNCHANGED <<tables, open, talk>>

-----------------------------------------------------------------------------
Engine ==
    \/ Receive \/ ReadConfig \/ ReadSession \/ Match \/ Abandon \/ Create \/ Die
    \/ PickItem \/ ShowMenu \/ Finish \/ HandOff \/ Send
    \/ ChooseNone \/ ShowPage \/ Choose \/ Route \/ Wait
Request(q) ==
    \/ BeginConfig(q) \/ InsertConfig(q) \/ SaveConfig(q)
    \/ CreateItem(q) \/ PatchItem(q) \/ SaveItem(q) \/ DeleteItem(q)
    \/ CreateTrigger(q) \/ PatchTrigger(q) \/ SaveTrigger(q) \/ DeleteTrigger(q)
    \/ CreateMenu(q) \/ PatchMenu(q) \/ SaveMenu(q) \/ CheckDelete(q) \/ DeleteMenu(q)
    \/ DieRequest(q)
Next == Engine \/ Close \/ (\E o \in Offices : Toggle(o)) \/ (\E q \in Requests : Request(q))

Spec == Init /\ [][Next]_vars

-----------------------------------------------------------------------------
(* Properties                                                              *)

\* Every variable holds what its table or thread may hold; a thread that will
\* create a session or send a menu's list has a menu to do it with.
TypeOK ==
    /\ menu \in Table(Menus, MenuRow) /\ item \in Table(Items, ItemRow)
    /\ trigger \in Table(Triggers, TriggerRow) /\ config \in Table(Configs, ConfigRow)
    /\ open \subseteq Offices /\ chat \in Scopes
    /\ session \in [st : {"none", "active", "waiting", "completed"}, menu : MenuOrNone]
    /\ shown \subseteq ListRow /\ sent \in 0..MaxMessages
    /\ hook \in HookState
    /\ hook.pc \in {"session", "match", "abandon", "create", "send"} => hook.next \in Menus
    /\ req \in [Requests -> ReqState]

\* What a request may save, the engine may act on and a thread may still show:
\* an item that shows a menu has one, whatever requests on the same item
\* overlapped, so the engine never finds none behind it (ShowMenu).
MenuItemsLead ==
    /\ \A i \in Rows(item) : Leads(item[i])
    /\ hook.pc = "act" /\ hook.does = "menu" => hook.next # NoMenu

\* The list about to be sent is one of the menu the chat's session is at, unless
\* that menu was deleted since; and the list is that of the Offices only if an
\* item picked at another menu led there. Which list fits the menu is another
\* matter: a selector that a trigger or a configuration leads to lists its items
\* (handle_conversation_message sends them without asking), although BotMenu
\* says "the engine never looks for any", and the reply is read as an Office.
ShownIsPosition ==
    /\ hook.pc = "send" => session.st = "active" /\ session.menu \in {hook.next, NoMenu}
    /\ hook.page # 0 => hook.pc = "send" /\ hook.at \in Menus

\* A tap on the row of an item of the current menu, still there, on and under
\* its trigger value, does what this item now does, whatever the words and
\* labels of the others have become since the list was sent.
Tapped(i) == hook.msg.of = i /\ hook.msg.row = item[i].word /\ item[i].menu = hook.at /\ item[i].on
TapFindsItsItem ==
    [][\A i \in Rows(item) :
         hook.pc = "item" /\ Tapped(i) /\ hook' \notin {hook, Idle}
         => hook'.pc = "act" /\ hook'.does = item[i].does /\ hook'.next = item[i].target]_vars

\* While menus are edited and deleted under it, the chat keeps the promises of
\* Conversation, the same that Handoff keeps under overlapping threads.
Phase == CASE session.st = "waiting" -> "operators" [] session.st = "active" -> "menu" [] OTHER -> "none"
Talk == INSTANCE Conversation WITH phase <- Phase, turn <- hook.pc \notin {"idle", "config", "session"}
ConversationSpec == Talk!Spec

\* However the Offices changed since, a row that turns to a page shows one with
\* an Office on it while any is open; the rows of the pages lead from the first
\* to the last and back, every open Office is on one, and each fits a list.
PageRowsOf(n) == {r.row.page : r \in {x \in OfficeRows(n) : x.of = Turn}}
PagesHold ==
    /\ open # {} => \A r \in shown : r.of = Turn => \E x \in OfficeRows(r.row.page) : x.of \in open
    /\ \A n \in 1..LastPage : PageRowsOf(n) = {n - 1, n + 1} \cap 1..LastPage
    /\ \A o \in open : \E n \in 1..LastPage : \E x \in OfficeRows(n) : x.of = o
    /\ \A n \in 1..LastPage : Cardinality(OfficeRows(n)) <= MaxRows
=============================================================================
