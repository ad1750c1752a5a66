------------------------------ MODULE BotProofs ------------------------------
(***************************************************************************)
(* Theorems about Bot for any menus, items, triggers, configurations,      *)
(* Offices, words, bodies and requests.                                    *)
(***************************************************************************)
EXTENDS Bot, FiniteSetTheorems, TLAPS

-----------------------------------------------------------------------------
(* The inductive invariant                                                 *)

TableTypes ==
    /\ menu \in Table(Menus, MenuRow) /\ item \in Table(Items, ItemRow)
    /\ trigger \in Table(Triggers, TriggerRow) /\ config \in Table(Configs, ConfigRow)
TalkTypes ==
    /\ open \subseteq Offices /\ chat \in Scopes
    /\ session \in [st : {"none", "active", "waiting", "completed"}, menu : MenuOrNone]
    /\ shown \subseteq ListRow /\ sent \in 0..MaxMessages
    /\ hook \in HookState
    /\ hook.pc \in {"session", "match", "abandon", "create", "send"} => hook.next \in Menus

\* What a request is about to save is a row of its table, and validated.
Sound(r) ==
    /\ r.pc = "insert" => r.body \in ConfigBodies
    /\ r.pc = "config" => r.id \in Configs /\ r.row \in ConfigRow
    /\ r.pc = "item" => r.id \in Items /\ r.row \in ItemRow /\ Leads(r.row)
    /\ r.pc = "trigger" => r.id \in Triggers /\ r.row \in TriggerRow
    /\ r.pc = "menu" => r.id \in Menus /\ r.row \in MenuRow
    /\ r.pc = "delete" => r.id \in Menus
Requested == req \in [Requests -> ReqState] /\ \A q \in Requests : Sound(req[q])

\* The thread's copies: the session's menu is the one it read, or deleted since.
Position ==
    /\ hook.pc \in {"config", "session"} => hook.at = NoSession
    /\ hook.pc \in {"offices", "item", "act", "route", "wait"} => hook.at \in Menus
    /\ hook.pc \in {"match", "offices", "item", "act", "route", "wait"} /\ hook.at # NoSession =>
          session.st = "active" /\ session.menu \in {hook.at, NoMenu}

\* Every reference is to a menu that is there, the session's too, and the rows
\* of a menu have trigger values of their own: ON DELETE, the foreign keys and
\* the unique index of apps/bot/models.py, whatever requests overlap.
NothingDangles ==
    /\ Referential(menu, item, trigger, config)
    /\ Refers(menu, session.menu)
    /\ Distinct(item)

IInv ==
    /\ TableTypes
    /\ TalkTypes
    /\ Requested
    /\ NothingDangles
    /\ MenuItemsLead
    /\ Position
    /\ ShownIsPosition

-----------------------------------------------------------------------------
(* Tables                                                                  *)

\* A table's row is one of its rows.
LEMMA RowTypes ==
    ASSUME NEW ids, NEW row, NEW table \in Table(ids, row), NEW x \in Rows(table)
    PROVE  x \in ids /\ table[x] \in row
BY DEF Table, Rows, Row

\* No row is one of the marks.
LEMMA Marks ==
    /\ Unused \notin MenuRow /\ Deleted \notin MenuRow /\ Unused \notin ItemRow /\ Deleted \notin ItemRow
    /\ Unused \notin TriggerRow /\ Deleted \notin TriggerRow /\ Unused \notin ConfigRow /\ Deleted \notin ConfigRow
BY BotAssumption

\* A request that moves to a sound position leaves all of them sound.
LEMMA Moves ==
    ASSUME NEW q \in Requests, Requested, NEW state \in ReqState, Sound(state), MoveReq(q, state)
    PROVE  Requested'
BY DEF Requested, MoveReq, Sound, Leads

LEMMA Ends ==
    ASSUME NEW q \in Requests, Requested, EndReq(q)
    PROVE  Requested'
<1>1. ReqAt("over") \in ReqState /\ Sound(ReqAt("over"))
  BY DEF ReqAt, ReqState, ReqStep, Ids, AnyRow, Scopes, Sound
<1>2. QED
  BY <1>1, Moves DEF EndReq

\* A row to save is a sound position.
LEMMA SavesSound ==
    ASSUME NEW pc \in {"config", "item", "trigger", "menu"}, NEW id, NEW row,
           pc = "config" => id \in Configs /\ row \in ConfigRow,
           pc = "item" => id \in Items /\ row \in ItemRow /\ Leads(row),
           pc = "trigger" => id \in Triggers /\ row \in TriggerRow,
           pc = "menu" => id \in Menus /\ row \in MenuRow
    PROVE  Saves(pc, id, row) \in ReqState /\ Sound(Saves(pc, id, row))
<1>1. id \in Ids /\ row \in AnyRow
  BY DEF Ids, AnyRow
<1>2. Everywhere \in Scopes
  BY DEF Scopes
<1>3. Saves(pc, id, row) \in ReqState
  BY <1>1, <1>2 DEF Saves, ReqState, ReqStep
<1>4. QED
  BY <1>3 DEF Saves, Sound

-----------------------------------------------------------------------------
(* The engine's steps                                                      *)

\* What a step of the engine leaves of the tables and requests holds.
LEMMA TablesStay ==
    ASSUME IInv, UNCHANGED <<tables, req>>, session'.menu \in {session.menu, NoMenu} \cup Rows(menu)
    PROVE  TableTypes' /\ Requested' /\ NothingDangles' /\ (\A i \in Rows(item)' : Leads(item'[i]))
BY DEF IInv, tables, TableTypes, Requested, NothingDangles, Refers, MenuItemsLead

LEMMA IdleOK == Idle \in HookState /\ Idle.pc = "idle" /\ Idle.page = 0
BY DEF Idle, HookState, HookStep, Message, Typed, MenuOrNone, Scopes, Deeds

LEMMA AfterEnd ==
    ASSUME IInv, EndHook
    PROVE  /\ hook' \in HookState /\ hook'.pc = "idle"
           /\ Position' /\ ShownIsPosition'
           /\ (hook'.pc = "act" /\ hook'.does = "menu" => hook'.next # NoMenu)
BY IdleOK DEF EndHook, Position, ShownIsPosition

\* The thread's own parts of the invariant make all of it.
LEMMA EngineStep ==
    ASSUME IInv, UNCHANGED <<tables, req>>, session'.menu \in {session.menu, NoMenu} \cup Rows(menu),
           TalkTypes', Position', ShownIsPosition',
           hook'.pc = "act" /\ hook'.does = "menu" => hook'.next # NoMenu
    PROVE  IInv'
BY TablesStay DEF IInv, MenuItemsLead

\* So does the end of the thread.
LEMMA EngineEnds ==
    ASSUME IInv, UNCHANGED <<tables, req>>, EndHook, UNCHANGED sent,
           session' \in [st : {"none", "active", "waiting", "completed"}, menu : MenuOrNone],
           session'.menu \in {session.menu, NoMenu} \cup Rows(menu),
           open' \subseteq Offices, chat' \in Scopes, shown' \subseteq ListRow
    PROVE  IInv'
<1>1. TalkTypes'
  BY AfterEnd DEF IInv, TalkTypes
<1>2. QED
  BY <1>1, AfterEnd, EngineStep

LEMMA ReceiveKeeps == IInv /\ Receive => IInv'
<1> SUFFICES ASSUME IInv, Receive PROVE IInv'
  OBVIOUS
<1>1. PICK msg \in {Typed(w) : w \in Words} \cup shown : hook' = [Idle EXCEPT !.pc = "config", !.msg = msg]
  BY DEF Receive, MoveHook
<1>2. msg \in Message
  BY DEF IInv, TalkTypes, Message
<1>3. hook' \in HookState /\ hook'.pc = "config" /\ hook'.at = NoSession /\ hook'.page = 0
  BY <1>1, <1>2 DEF Idle, HookState, HookStep, MenuOrNone, Scopes, Deeds
<1>4. sent' \in 0..MaxMessages
  BY BotAssumption DEF Receive, IInv, TalkTypes
<1>5. TalkTypes'
  BY <1>3, <1>4 DEF Receive, IInv, TalkTypes
<1>6. Position' /\ ShownIsPosition'
  BY <1>3 DEF Position, ShownIsPosition
<1>7. QED
  BY <1>3, <1>5, <1>6, EngineStep DEF Receive, IInv, TalkTypes

LEMMA ReadConfigKeeps == IInv /\ ReadConfig => IInv'
<1> SUFFICES ASSUME IInv, ReadConfig PROVE IInv'
  OBVIOUS
<1>1. CASE EndHook
  BY <1>1, EngineEnds DEF ReadConfig, IInv, TalkTypes
<1>2. CASE ~EndHook
  <2>1. PICK c \in Effective : config[c].root # NoMenu /\ hook' = [hook EXCEPT !.pc = "session", !.next = config[c].root]
    BY <1>2 DEF ReadConfig, MoveHook
  <2>2. c \in Rows(config)
    BY <2>1 DEF Effective, First, ConfigsOf
  <2>3. config[c].root \in Menus
    <3>1. config[c] \in ConfigRow
      BY <2>2, RowTypes DEF IInv, TableTypes
    <3>2. QED
      BY <2>1, <3>1 DEF ConfigRow, MenuOrNone
  <2>4. TalkTypes' /\ hook'.page = 0 /\ hook'.pc = "session" /\ hook'.at = NoSession
    BY <2>1, <2>3 DEF ReadConfig, IInv, Position, ShownIsPosition, TalkTypes, HookState, HookStep, MenuOrNone
  <2>5. Position' /\ ShownIsPosition'
    BY <2>4 DEF Position, ShownIsPosition
  <2>6. QED
    BY <2>4, <2>5, EngineStep DEF ReadConfig
<1>3. QED
  BY <1>1, <1>2

LEMMA ReadSessionKeeps == IInv /\ ReadSession => IInv'
<1> SUFFICES ASSUME IInv, ReadSession PROVE IInv'
  OBVIOUS
<1>1. CASE EndHook
  BY <1>1, EngineEnds DEF ReadSession, IInv, TalkTypes
<1>2. CASE session.st = "active" /\ ~EndHook
  <2>1. hook' = [hook EXCEPT !.pc = "match", !.at = session.menu,
                             !.sel = session.menu # NoMenu /\ menu[session.menu].selector]
    BY <1>2 DEF ReadSession, MoveHook
  <2>2. session.menu # NoMenu => menu[session.menu] \in MenuRow
    BY RowTypes DEF IInv, TableTypes, NothingDangles, Refers
  <2>3. (session.menu # NoMenu /\ menu[session.menu].selector) \in BOOLEAN
    BY <2>2 DEF MenuRow
  <2>4. TalkTypes' /\ hook'.page = 0 /\ hook'.pc = "match" /\ hook'.at = session.menu
    BY <2>1, <2>3 DEF ReadSession, IInv, ShownIsPosition, TalkTypes, HookState, HookStep, MenuOrNone
  <2>5. Position' /\ ShownIsPosition'
    BY <1>2, <2>4 DEF ReadSession, Position, ShownIsPosition
  <2>6. QED
    BY <2>4, <2>5, EngineStep DEF ReadSession
<1>3. CASE session.st \notin {"waiting", "active"} /\ ~EndHook
  <2>1. hook.pc = "session" /\ hook' = [hook EXCEPT !.pc = "match"] /\ UNCHANGED session
    BY <1>3 DEF ReadSession, MoveHook
  <2>2. TalkTypes' /\ hook'.page = 0 /\ hook'.pc = "match" /\ hook'.at = hook.at
    BY <2>1 DEF ReadSession, IInv, ShownIsPosition, TalkTypes, HookState, HookStep, MenuOrNone
  <2>3. Position' /\ ShownIsPosition'
    BY <1>3, <2>1, <2>2 DEF IInv, Position, ShownIsPosition
  <2>4. QED
    BY <2>2, <2>3, EngineStep DEF ReadSession
<1>4. QED
  BY <1>1, <1>2, <1>3 DEF ReadSession

LEMMA MatchKeeps == IInv /\ Match => IInv'
<1> SUFFICES ASSUME IInv, Match PROVE IInv'
  OBVIOUS
<1>1. hook.pc = "match" /\ UNCHANGED <<tables, open, chat, session, shown, sent, req>>
  BY DEF Match
<1>2. CASE \E t \in Trigger(hook.msg.text) : trigger[t].target # NoMenu
  <2>1. PICK t \in Trigger(hook.msg.text) :
           trigger[t].target # NoMenu /\ hook' = [hook EXCEPT !.pc = "abandon", !.next = trigger[t].target]
    BY <1>2 DEF Match, MoveHook
  <2>2. t \in Rows(trigger)
    BY <2>1 DEF Trigger, First, Called
  <2>3. trigger[t].target \in Menus
    <3>1. trigger[t] \in TriggerRow
      BY <2>2, RowTypes DEF IInv, TableTypes
    <3>2. QED
      BY <2>1, <3>1 DEF TriggerRow, MenuOrNone
  <2>4. TalkTypes' /\ hook'.page = 0 /\ hook'.pc = "abandon"
    BY <1>1, <2>1, <2>3 DEF IInv, ShownIsPosition, TalkTypes, HookState, HookStep, MenuOrNone
  <2>5. Position' /\ ShownIsPosition'
    BY <2>4 DEF Position, ShownIsPosition
  <2>6. QED
    BY <1>1, <2>4, <2>5, EngineStep
<1>3. CASE ~\E t \in Trigger(hook.msg.text) : trigger[t].target # NoMenu
  <2>1. hook' = [hook EXCEPT !.pc = Onward]
    BY <1>3 DEF Match, MoveHook
  <2>2. /\ Onward \in {"create", "abandon", "offices", "item"}
        /\ Onward \in {"offices", "item"} => hook.at \notin {NoSession, NoMenu}
    <3>1. NoSession # NoMenu /\ NoMenu \notin Menus /\ NoSession \notin Menus
      BY BotAssumption DEF MenuOrNone
    <3>2. CASE hook.at = NoSession
      BY <3>1, <3>2 DEF Onward
    <3>3. CASE hook.at = NoMenu
      BY <3>1, <3>3 DEF Onward
    <3>4. CASE hook.at \notin {NoSession, NoMenu}
      BY <3>4 DEF Onward
    <3>5. QED
      BY <3>2, <3>3, <3>4
  <2>3. TalkTypes' /\ hook'.page = 0 /\ hook'.pc = Onward /\ hook'.at = hook.at
    BY <1>1, <2>1, <2>2 DEF IInv, ShownIsPosition, TalkTypes, HookState, HookStep
  <2>4. Position' /\ ShownIsPosition'
    BY <1>1, <2>2, <2>3 DEF IInv, Position, ShownIsPosition, TalkTypes, HookState, MenuOrNone
  <2>5. QED
    BY <1>1, <2>2, <2>3, <2>4, EngineStep
<1>4. QED
  BY <1>2, <1>3

LEMMA AbandonKeeps == IInv /\ Abandon => IInv'
<1> SUFFICES ASSUME IInv, Abandon PROVE IInv'
  OBVIOUS
<1>1. session' \in {session, Over} /\ hook' = [hook EXCEPT !.pc = "create"]
  BY DEF Abandon, MoveHook
<1>2. TalkTypes' /\ hook'.page = 0 /\ hook'.pc = "create"
  BY <1>1 DEF Abandon, Over, IInv, ShownIsPosition, TalkTypes, HookState, HookStep, MenuOrNone
<1>3. Position' /\ ShownIsPosition'
  BY <1>2 DEF Position, ShownIsPosition
<1>4. QED
  BY <1>1, <1>2, <1>3, EngineStep DEF Abandon, Over

LEMMA CreateKeeps == IInv /\ Create => IInv'
<1> SUFFICES ASSUME IInv, Create PROVE IInv'
  OBVIOUS
<1>1. CASE EndHook /\ UNCHANGED session
  BY <1>1, EngineEnds DEF Create, IInv, TalkTypes
<1>2. CASE ~(EndHook /\ UNCHANGED session)
  <2>1. /\ hook.next \in Rows(menu) /\ session' = [st |-> "active", menu |-> hook.next]
        /\ hook' = [hook EXCEPT !.pc = "send"]
    BY <1>2 DEF Create, MoveHook
  <2>2. hook.next \in Menus
    BY <2>1, RowTypes DEF IInv, TableTypes
  <2>3. TalkTypes' /\ hook'.page = 0 /\ hook'.pc = "send" /\ hook'.next = hook.next
    BY <2>1, <2>2 DEF Create, IInv, ShownIsPosition, TalkTypes, HookState, HookStep, MenuOrNone
  <2>4. Position' /\ ShownIsPosition'
    BY <2>1, <2>3 DEF Position, ShownIsPosition
  <2>5. QED
    BY <2>1, <2>3, <2>4, EngineStep DEF Create
<1>3. QED
  BY <1>1, <1>2

\* An item picked is one of the current menu.
LEMMA PicksItems ==
    ASSUME NEW w, NEW row, NEW i \in Picks(w, row)
    PROVE  i \in Rows(item) /\ item[i].menu = hook.at /\ item[i].on
BY DEF Picks

LEMMA PickItemKeeps == IInv /\ PickItem => IInv'
<1> SUFFICES ASSUME IInv, PickItem PROVE IInv'
  OBVIOUS
<1>1. hook.pc = "item" /\ UNCHANGED <<tables, open, chat, session, shown, sent, req>>
  BY DEF PickItem
<1>2. hook.at \in Menus /\ session.st = "active" /\ session.menu \in {hook.at, NoMenu}
  BY <1>1, BotAssumption DEF IInv, Position, MenuOrNone
<1>3. CASE hook' = [hook EXCEPT !.pc = "send", !.next = hook.at]
  <2>1. TalkTypes' /\ hook'.page = 0 /\ hook'.pc = "send" /\ hook'.next = hook.at
    BY <1>1, <1>2, <1>3 DEF IInv, ShownIsPosition, TalkTypes, HookState, HookStep, MenuOrNone
  <2>2. Position' /\ ShownIsPosition'
    BY <1>1, <1>2, <2>1 DEF Position, ShownIsPosition
  <2>3. QED
    BY <1>1, <2>1, <2>2, EngineStep
<1>4. CASE \E i \in Picks(hook.msg.text, hook.msg.row) :
              hook' = [hook EXCEPT !.pc = "act", !.does = item[i].does, !.next = item[i].target]
  <2>1. PICK i \in Picks(hook.msg.text, hook.msg.row) :
              hook' = [hook EXCEPT !.pc = "act", !.does = item[i].does, !.next = item[i].target]
    BY <1>4
  <2>2. i \in Rows(item) /\ item[i] \in ItemRow
    BY PicksItems, RowTypes DEF IInv, TableTypes
  <2>3. /\ TalkTypes' /\ hook'.page = 0 /\ hook'.pc = "act" /\ hook'.at = hook.at
        /\ hook'.does = item[i].does /\ hook'.next = item[i].target
    BY <1>1, <2>1, <2>2 DEF IInv, ShownIsPosition, TalkTypes, HookState, HookStep, ItemRow
  <2>4. Position' /\ ShownIsPosition'
    BY <1>1, <1>2, <2>3 DEF Position, ShownIsPosition
  <2>5. hook'.does = "menu" => hook'.next # NoMenu
    BY <2>2, <2>3 DEF IInv, MenuItemsLead, Leads
  <2>6. QED
    BY <1>1, <2>3, <2>4, <2>5, EngineStep
<1>5. QED
  BY <1>3, <1>4 DEF PickItem, MoveHook

LEMMA ShowMenuKeeps == IInv /\ ShowMenu => IInv'
<1> SUFFICES ASSUME IInv, ShowMenu PROVE IInv'
  OBVIOUS
<1>1. CASE EndHook
  <2>1. session'.menu \in {session.menu, NoMenu} \cup Rows(menu)
    BY DEF ShowMenu, IInv, TalkTypes
  <2>2. session' \in [st : {"none", "active", "waiting", "completed"}, menu : MenuOrNone]
    BY RowTypes DEF ShowMenu, IInv, TalkTypes, TableTypes, MenuOrNone
  <2>3. QED
    BY <1>1, <2>1, <2>2, EngineEnds DEF ShowMenu, IInv, TalkTypes
<1>2. CASE ~EndHook
  <2>1. /\ hook.pc = "act" /\ hook.next \in Rows(menu) /\ session' = [session EXCEPT !.menu = hook.next]
        /\ hook' = [hook EXCEPT !.pc = "send", !.page = IF menu[hook.next].selector THEN 1 ELSE 0]
    BY <1>2 DEF ShowMenu, MoveHook
  <2>2. hook.next \in Menus
    BY <2>1, RowTypes DEF IInv, TableTypes
  <2>3. session.st = "active"
    BY <2>1, BotAssumption DEF IInv, Position, MenuOrNone
  <2>4. TalkTypes' /\ hook'.at \in Menus /\ hook'.pc = "send" /\ hook'.next = hook.next
    BY <2>1, <2>2 DEF ShowMenu, IInv, Position, TalkTypes, HookState, HookStep, MenuOrNone
  <2>5. session'.st = "active" /\ session'.menu = hook.next
    BY <2>1, <2>3 DEF IInv, TalkTypes
  <2>6. Position' /\ ShownIsPosition'
    BY <2>4, <2>5 DEF Position, ShownIsPosition
  <2>7. QED
    BY <2>1, <2>4, <2>5, <2>6, EngineStep DEF ShowMenu
<1>3. QED
  BY <1>1, <1>2

\* Steps that end the thread or leave it where it is, and change the session
\* to one that is over or handed off.
LEMMA EndsKeep == IInv /\ (Finish \/ HandOff \/ Die \/ ChooseNone \/ Wait) => IInv'
<1> SUFFICES ASSUME IInv, Finish \/ HandOff \/ Die \/ ChooseNone \/ Wait PROVE IInv'
  OBVIOUS
<1>1. /\ session' \in [st : {"none", "active", "waiting", "completed"}, menu : MenuOrNone]
      /\ session'.menu \in {session.menu, NoMenu}
  BY DEF Finish, HandOff, Die, ChooseNone, Wait, Over, IInv, TalkTypes, MenuOrNone
<1>2. QED
  BY <1>1, EngineEnds DEF Finish, HandOff, Die, ChooseNone, Wait, IInv, TalkTypes

LEMMA CloseKeeps == IInv /\ Close => IInv'
<1> SUFFICES ASSUME IInv, Close PROVE IInv'
  OBVIOUS
<1>1. session.st = "waiting" /\ session' = Over /\ UNCHANGED <<tables, open, chat, shown, sent, hook, req>>
  BY DEF Close
<1>2. TalkTypes'
  BY <1>1 DEF IInv, TalkTypes, Over, MenuOrNone
<1>3. Position' /\ ShownIsPosition'
  BY <1>1 DEF IInv, Position, ShownIsPosition
<1>4. QED
  BY <1>1, <1>2, <1>3, EngineStep DEF Over, IInv, MenuItemsLead

LEMMA ToggleKeeps == ASSUME NEW o \in Offices PROVE IInv /\ Toggle(o) => IInv'
<1> SUFFICES ASSUME IInv, Toggle(o) PROVE IInv'
  OBVIOUS
<1>1. TalkTypes'
  BY DEF Toggle, talk, IInv, TalkTypes
<1>2. Position' /\ ShownIsPosition'
  BY DEF Toggle, talk, IInv, Position, ShownIsPosition
<1>3. QED
  BY <1>1, <1>2, EngineStep DEF Toggle, talk, IInv, MenuItemsLead

-----------------------------------------------------------------------------
(* Lists and the Office selector                                           *)

\* The rows of a menu's list are list rows.
LEMMA MenuListed == ASSUME IInv, NEW m PROVE MenuRows(m) \subseteq ListRow
<1>1. \A i \in Rows(item) : i \in Items /\ item[i] \in ItemRow
  BY RowTypes DEF IInv, TableTypes
<1>2. QED
  BY <1>1 DEF MenuRows, ListRow, ItemRow

\* So are those of every page, whatever number the row that asks for it says.
LEMMA OfficesListed == ASSUME IInv, NEW n \in Int PROVE OfficeRows(n) \subseteq ListRow
<1>1. Count \in Nat
  BY BotAssumption, FS_Subset, FS_CardinalityType DEF Count, IInv, TalkTypes
<1>2. LastPage \in Int
  BY <1>1, BotAssumption DEF LastPage
<1>3. Clamped(n) \in Int
  BY <1>2 DEF Clamped
<1>4. \A k \in Int : PageOfRows(k) \subseteq ListRow
  BY BotAssumption DEF PageOfRows, OnPage, PageRow, ListRow, IInv, TalkTypes
<1>5. QED
  BY <1>3, <1>4 DEF OfficeRows

LEMMA SendKeeps == IInv /\ Send => IInv'
<1> SUFFICES ASSUME IInv, Send PROVE IInv'
  OBVIOUS
<1>1. hook.page \in Int
  BY DEF IInv, TalkTypes, HookState
<1>2. shown' \subseteq ListRow
  BY <1>1, MenuListed, OfficesListed DEF Send, IInv, TalkTypes
<1>3. QED
  BY <1>2, EngineEnds DEF Send, IInv, TalkTypes

LEMMA ShowPageKeeps == IInv /\ ShowPage => IInv'
<1> SUFFICES ASSUME IInv, ShowPage PROVE IInv'
  OBVIOUS
<1>1. (IF TurnsPage THEN hook.msg.row.page ELSE 1) \in Int
  BY DEF TurnsPage
<1>2. shown' \subseteq ListRow
  BY <1>1, OfficesListed DEF ShowPage, IInv, TalkTypes
<1>3. QED
  BY <1>2, EngineEnds DEF ShowPage, IInv, TalkTypes

LEMMA ChooseKeeps == IInv /\ Choose => IInv'
<1> SUFFICES ASSUME IInv, Choose PROVE IInv'
  OBVIOUS
<1>1. PICK o \in Chosen : hook' = [hook EXCEPT !.pc = "route", !.office = o]
  BY DEF Choose, MoveHook
<1>2. o \in Scopes
  BY DEF Chosen, Keyed, IInv, TalkTypes, Scopes
<1>3. /\ hook.pc = "offices" /\ TalkTypes'
      /\ hook'.page = 0 /\ hook'.pc = "route" /\ hook'.at = hook.at
  BY <1>1, <1>2 DEF Choose, IInv, ShownIsPosition, TalkTypes, HookState, HookStep
<1>4. Position' /\ ShownIsPosition'
  BY <1>3 DEF Choose, IInv, Position, ShownIsPosition
<1>5. QED
  BY <1>3, <1>4, EngineStep DEF Choose

LEMMA RouteKeeps == IInv /\ Route => IInv'
<1> SUFFICES ASSUME IInv, Route PROVE IInv'
  OBVIOUS
<1>1. CASE EndHook
  BY <1>1, EngineEnds DEF Route, IInv, TalkTypes, Scopes
<1>2. CASE ~EndHook
  <2>1. /\ hook.pc = "route" /\ hook.office \in open /\ chat' = hook.office
        /\ hook' = [hook EXCEPT !.pc = "wait"]
    BY <1>2 DEF Route, MoveHook
  <2>2. TalkTypes' /\ hook'.page = 0 /\ hook'.pc = "wait" /\ hook'.at = hook.at
    BY <2>1 DEF Route, IInv, ShownIsPosition, TalkTypes, HookState, HookStep, Scopes
  <2>3. Position' /\ ShownIsPosition'
    BY <2>1, <2>2 DEF Route, IInv, Position, ShownIsPosition
  <2>4. QED
    BY <2>2, <2>3, EngineStep DEF Route
<1>3. QED
  BY <1>1, <1>2

LEMMA EngineKeeps == IInv /\ Engine => IInv'
BY ReceiveKeeps, ReadConfigKeeps, ReadSessionKeeps, MatchKeeps, AbandonKeeps, CreateKeeps, PickItemKeeps,
   ShowMenuKeeps, EndsKeep, SendKeeps, ShowPageKeeps, ChooseKeeps, RouteKeeps DEF Engine

-----------------------------------------------------------------------------
(* The requests' steps                                                     *)

\* What a request leaves of the thread holds.
LEMMA RequestStep ==
    ASSUME IInv, UNCHANGED <<open, talk>>, TableTypes', Requested',
           Referential(menu, item, trigger, config)', Rows(menu) \subseteq Rows(menu)',
           Distinct(item)', \A i \in Rows(item)' : Leads(item'[i])
    PROVE  IInv'
<1>1. TalkTypes' /\ Position' /\ ShownIsPosition'
  BY DEF IInv, talk, TalkTypes, Position, ShownIsPosition
<1>2. Refers(menu, session.menu)'
  BY DEF IInv, talk, NothingDangles, Refers
<1>3. MenuItemsLead'
  BY DEF IInv, talk, MenuItemsLead
<1>4. QED
  BY <1>1, <1>2, <1>3 DEF IInv, NothingDangles

\* A step that only moves its request.
LEMMA Moving == ASSUME IInv, UNCHANGED <<tables, open, talk>>, Requested' PROVE IInv'
BY RequestStep DEF IInv, tables, TableTypes, NothingDangles, MenuItemsLead

LEMMA ConfigSaved ==
    ASSUME IInv, NEW c \in Configs, NEW row \in ConfigRow, Refers(menu, row.root),
           config' = [config EXCEPT ![c] = row], UNCHANGED <<menu, item, trigger, open, talk>>, Requested'
    PROVE  IInv'
<1>1. config' \in Table(Configs, ConfigRow) /\ config'[c] = row /\ Rows(config)' = Rows(config) \cup {c}
      /\ \A d \in Configs : d # c => config'[d] = config[d]
  BY Marks DEF IInv, TableTypes, Table, Rows, Row
<1>2. \A d \in Rows(config) : d \in Configs
  BY RowTypes DEF IInv, TableTypes
<1>3. Referential(menu, item, trigger, config)'
  BY <1>1, <1>2 DEF IInv, NothingDangles, Referential, Refers, Rows, Row
<1>4. QED
  BY <1>1, <1>3, RequestStep DEF IInv, TableTypes, NothingDangles, MenuItemsLead

LEMMA ItemSaved ==
    ASSUME IInv, NEW i \in Items, NEW row \in ItemRow, Leads(row), ItemFits(i, row),
           item' = [item EXCEPT ![i] = row], UNCHANGED <<menu, trigger, config, open, talk>>, Requested'
    PROVE  IInv'
<1>1. item' \in Table(Items, ItemRow) /\ item'[i] = row /\ Rows(item)' = Rows(item) \cup {i}
      /\ \A j \in Items : j # i => item'[j] = item[j]
  BY Marks DEF IInv, TableTypes, Table, Rows, Row
<1>2. \A j \in Rows(item) : j \in Items
  BY RowTypes DEF IInv, TableTypes
<1>3. \A j \in Rows(item)' : j = i \/ (j \in Rows(item) /\ j # i /\ item'[j] = item[j])
  BY <1>1, <1>2
<1>4. Referential(menu, item, trigger, config)'
  BY <1>1, <1>3 DEF IInv, NothingDangles, Referential, ItemFits, Refers, Row, Rows
<1>5. Distinct(item)'
  <2> SUFFICES ASSUME NEW j \in Rows(item)', NEW k \in Rows(item)', j # k,
                      item'[j].menu = item'[k].menu, item'[j].word = item'[k].word
               PROVE  FALSE
    BY DEF Distinct
  <2>1. CASE j # i /\ k # i
    BY <1>3, <2>1 DEF IInv, NothingDangles, Distinct
  <2>2. CASE j = i
    BY <1>1, <1>3, <2>2 DEF ItemFits
  <2>3. CASE k = i
    BY <1>1, <1>3, <2>3 DEF ItemFits
  <2>4. QED
    BY <2>1, <2>2, <2>3
<1>6. \A j \in Rows(item)' : Leads(item'[j])
  BY <1>1, <1>3 DEF IInv, MenuItemsLead
<1>7. QED
  BY <1>1, <1>4, <1>5, <1>6, RequestStep DEF IInv, TableTypes

\* Fewer items, the others as they were.
LEMMA ItemsDropped ==
    ASSUME IInv, item' \in Table(Items, ItemRow), Rows(item)' \subseteq Rows(item),
           \A j \in Rows(item)' : item'[j] = item[j]
    PROVE  Distinct(item)' /\ \A j \in Rows(item)' : Leads(item'[j])
BY DEF IInv, NothingDangles, Distinct, MenuItemsLead

LEMMA DeleteItemKeeps == ASSUME NEW q \in Requests PROVE IInv /\ DeleteItem(q) => IInv'
<1> SUFFICES ASSUME IInv, DeleteItem(q) PROVE IInv'
  OBVIOUS
<1>1. PICK i \in Rows(item) : item' = [item EXCEPT ![i] = Deleted]
  BY DEF DeleteItem
<1>2. i \in Items
  BY RowTypes DEF IInv, TableTypes
<1>3. item' \in Table(Items, ItemRow) /\ Rows(item)' = Rows(item) \ {i}
      /\ \A j \in Items : j # i => item'[j] = item[j]
  BY <1>1, <1>2 DEF IInv, TableTypes, Table, Rows, Row
<1>4. \A j \in Rows(item)' : j \in Rows(item) /\ item'[j] = item[j]
  BY <1>3, RowTypes DEF IInv, TableTypes
<1>5. Referential(menu, item, trigger, config)'
  BY <1>4 DEF DeleteItem, IInv, NothingDangles, Referential
<1>6. Requested'
  BY Ends DEF DeleteItem, IInv
<1>7. QED
  BY <1>3, <1>4, <1>5, <1>6, ItemsDropped, RequestStep DEF DeleteItem, IInv, TableTypes

LEMMA TriggerSaved ==
    ASSUME IInv, NEW t \in Triggers, NEW row \in TriggerRow, Refers(menu, row.target),
           trigger' = [trigger EXCEPT ![t] = row], UNCHANGED <<menu, item, config, open, talk>>, Requested'
    PROVE  IInv'
<1>1. trigger' \in Table(Triggers, TriggerRow) /\ trigger'[t] = row /\ Rows(trigger)' = Rows(trigger) \cup {t}
      /\ \A u \in Triggers : u # t => trigger'[u] = trigger[u]
  BY Marks DEF IInv, TableTypes, Table, Rows, Row
<1>2. \A u \in Rows(trigger) : u \in Triggers
  BY RowTypes DEF IInv, TableTypes
<1>3. Referential(menu, item, trigger, config)'
  BY <1>1, <1>2 DEF IInv, NothingDangles, Referential, Refers, Rows, Row
<1>4. QED
  BY <1>1, <1>3, RequestStep DEF IInv, TableTypes, NothingDangles, MenuItemsLead

LEMMA DeleteTriggerKeeps == ASSUME NEW q \in Requests PROVE IInv /\ DeleteTrigger(q) => IInv'
<1> SUFFICES ASSUME IInv, DeleteTrigger(q) PROVE IInv'
  OBVIOUS
<1>1. PICK t \in Rows(trigger) : trigger' = [trigger EXCEPT ![t] = Deleted]
  BY DEF DeleteTrigger
<1>2. t \in Triggers
  BY RowTypes DEF IInv, TableTypes
<1>3. trigger' \in Table(Triggers, TriggerRow) /\ Rows(trigger)' = Rows(trigger) \ {t}
      /\ \A u \in Triggers : u # t => trigger'[u] = trigger[u]
  BY <1>1, <1>2 DEF IInv, TableTypes, Table, Rows, Row
<1>4. \A u \in Rows(trigger)' : u \in Rows(trigger) /\ trigger'[u] = trigger[u]
  BY <1>3, RowTypes DEF IInv, TableTypes
<1>5. Referential(menu, item, trigger, config)'
  BY <1>4 DEF DeleteTrigger, IInv, NothingDangles, Referential
<1>6. Requested'
  BY Ends DEF DeleteTrigger, IInv
<1>7. QED
  BY <1>3, <1>5, <1>6, RequestStep DEF DeleteTrigger, IInv, TableTypes, NothingDangles, MenuItemsLead

LEMMA MenuSaved ==
    ASSUME IInv, NEW m \in Menus, NEW row \in MenuRow, row.parent = m \/ Refers(menu, row.parent),
           menu' = [menu EXCEPT ![m] = row], UNCHANGED <<item, trigger, config, open, talk>>, Requested'
    PROVE  IInv'
<1>1. menu' \in Table(Menus, MenuRow) /\ menu'[m] = row /\ Rows(menu)' = Rows(menu) \cup {m}
      /\ \A n \in Menus : n # m => menu'[n] = menu[n]
  BY Marks DEF IInv, TableTypes, Table, Rows, Row
<1>2. \A n \in Rows(menu) : n \in Menus
  BY RowTypes DEF IInv, TableTypes
<1>3. \A n \in Rows(menu)' : n = m \/ (n \in Rows(menu) /\ menu'[n] = menu[n])
  BY <1>1, <1>2
<1>4. \A n \in Rows(menu)' : Refers(menu', menu'[n].parent)
  BY <1>1, <1>3 DEF IInv, NothingDangles, Referential, Refers
<1>5. \A i \in Rows(item) : item[i] \in ItemRow /\ Row(menu, item[i].menu)
  BY RowTypes DEF IInv, TableTypes, NothingDangles, Referential
<1>6. \A i \in Rows(item) : item[i].menu \in Rows(menu)
  BY <1>5 DEF IInv, TableTypes, Table, ItemRow, Rows
<1>7. \A i \in Rows(item) : Row(menu', item[i].menu)
  BY <1>1, <1>6 DEF Rows
<1>8. Referential(menu, item, trigger, config)'
  BY <1>1, <1>4, <1>7 DEF IInv, NothingDangles, Referential, Refers
<1>9. QED
  BY <1>1, <1>8, RequestStep DEF IInv, TableTypes, NothingDangles, MenuItemsLead

LEMMA ConfigRequests ==
    ASSUME NEW q \in Requests PROVE IInv /\ (BeginConfig(q) \/ InsertConfig(q) \/ SaveConfig(q)) => IInv'
<1> SUFFICES ASSUME IInv, BeginConfig(q) \/ InsertConfig(q) \/ SaveConfig(q) PROVE IInv'
  OBVIOUS
<1>1. \A c \in Configs, row \in ConfigRow, b \in ConfigBodies :
         SaveOfConfig(c, row, b) \in ReqState /\ Sound(SaveOfConfig(c, row, b))
  BY BotAssumption, SavesSound DEF SaveOfConfig
<1>2. \A s : \A c \in ConfigsOf(s) : c \in Configs /\ config[c] \in ConfigRow
  BY RowTypes DEF ConfigsOf, IInv, TableTypes
<1>3. CASE BeginConfig(q)
  <2>1. PICK s \in Scopes, b \in ConfigBodies :
           \/ MoveReq(q, [ReqAt("insert") EXCEPT !.scope = s, !.body = b])
           \/ \E c \in Configs : ConfigsOf(s) = {c} /\ MoveReq(q, SaveOfConfig(c, config[c], b))
    BY <1>3 DEF BeginConfig
  <2>2. CASE MoveReq(q, [ReqAt("insert") EXCEPT !.scope = s, !.body = b])
    <3>1. LET r == [ReqAt("insert") EXCEPT !.scope = s, !.body = b] IN r \in ReqState /\ Sound(r)
      BY DEF ReqAt, ReqState, ReqStep, Ids, AnyRow, Sound
    <3>2. Requested'
      BY <2>2, <3>1, Moves DEF IInv
    <3>3. QED
      BY <1>3, <3>2, Moving DEF BeginConfig
  <2>3. CASE \E c \in Configs : ConfigsOf(s) = {c} /\ MoveReq(q, SaveOfConfig(c, config[c], b))
    <3>1. PICK c \in Configs : ConfigsOf(s) = {c} /\ MoveReq(q, SaveOfConfig(c, config[c], b))
      BY <2>3
    <3>2. Requested'
      BY <1>1, <1>2, <3>1, Moves DEF IInv
    <3>3. QED
      BY <1>3, <3>2, Moving DEF BeginConfig
  <2>4. QED
    BY <2>1, <2>2, <2>3
<1>4. CASE InsertConfig(q)
  <2> DEFINE s == req[q].scope
  <2>1. req[q].pc = "insert" /\ s \in Scopes /\ req[q].body \in ConfigBodies
    BY <1>4 DEF InsertConfig, IInv, Requested, Sound, ReqState
  <2>2. CASE \E c \in Configs : /\ config' = [config EXCEPT ![c] = NewConfig(s)]
                                /\ MoveReq(q, SaveOfConfig(c, NewConfig(s), req[q].body))
    <3>1. PICK c \in Configs : /\ config' = [config EXCEPT ![c] = NewConfig(s)]
                               /\ MoveReq(q, SaveOfConfig(c, NewConfig(s), req[q].body))
      BY <2>2
    <3>2. NewConfig(s) \in ConfigRow /\ Refers(menu, NewConfig(s).root)
      BY <2>1 DEF NewConfig, ConfigRow, MenuOrNone, Refers
    <3>3. Requested'
      BY <1>1, <2>1, <3>1, <3>2, Moves DEF IInv
    <3>4. QED
      BY <1>4, <3>1, <3>2, <3>3, ConfigSaved DEF InsertConfig
  <2>3. CASE UNCHANGED config /\ \E c \in ConfigsOf(s) : MoveReq(q, SaveOfConfig(c, config[c], req[q].body))
    <3>1. Requested'
      BY <1>1, <1>2, <2>1, <2>3, Moves DEF IInv
    <3>2. QED
      BY <1>4, <2>3, <3>1, Moving DEF InsertConfig, tables
  <2>4. QED
    BY <1>4, <2>2, <2>3 DEF InsertConfig
<1>5. CASE SaveConfig(q)
  <2>1. Requested'
    BY <1>5, Ends DEF SaveConfig, IInv
  <2>2. req[q].id \in Configs /\ req[q].row \in ConfigRow
    BY <1>5 DEF SaveConfig, IInv, Requested, Sound
  <2>3. CASE UNCHANGED config
    BY <1>5, <2>1, <2>3, Moving DEF SaveConfig, tables
  <2>4. CASE ~UNCHANGED config
    BY <1>5, <2>1, <2>2, <2>4, ConfigSaved DEF SaveConfig
  <2>5. QED
    BY <2>3, <2>4
<1>6. QED
  BY <1>3, <1>4, <1>5

LEMMA ItemRequests ==
    ASSUME NEW q \in Requests PROVE IInv /\ (CreateItem(q) \/ PatchItem(q) \/ SaveItem(q)) => IInv'
<1> SUFFICES ASSUME IInv, CreateItem(q) \/ PatchItem(q) \/ SaveItem(q) PROVE IInv'
  OBVIOUS
<1>1. CASE CreateItem(q)
  BY <1>1, BotAssumption, Ends, ItemSaved DEF CreateItem, IInv
<1>2. CASE PatchItem(q)
  <2>1. PICK i \in Rows(item), b \in ItemBodies :
           Leads(Patched(item[i], b)) /\ MoveReq(q, Saves("item", i, Patched(item[i], b)))
    BY <1>2 DEF PatchItem
  <2>2. i \in Items /\ item[i] \in ItemRow
    BY RowTypes DEF IInv, TableTypes
  <2>3. Requested'
    BY <2>1, <2>2, BotAssumption, SavesSound, Moves DEF IInv
  <2>4. QED
    BY <1>2, <2>3, Moving DEF PatchItem
<1>3. CASE SaveItem(q)
  <2>1. Requested'
    BY <1>3, Ends DEF SaveItem, IInv
  <2>2. req[q].id \in Items /\ req[q].row \in ItemRow /\ Leads(req[q].row)
    BY <1>3 DEF SaveItem, IInv, Requested, Sound
  <2>3. CASE UNCHANGED item
    BY <1>3, <2>1, <2>3, Moving DEF SaveItem, tables
  <2>4. CASE ~UNCHANGED item
    BY <1>3, <2>1, <2>2, <2>4, ItemSaved DEF SaveItem
  <2>5. QED
    BY <2>3, <2>4
<1>4. QED
  BY <1>1, <1>2, <1>3

LEMMA TriggerRequests ==
    ASSUME NEW q \in Requests PROVE IInv /\ (CreateTrigger(q) \/ PatchTrigger(q) \/ SaveTrigger(q)) => IInv'
<1> SUFFICES ASSUME IInv, CreateTrigger(q) \/ PatchTrigger(q) \/ SaveTrigger(q) PROVE IInv'
  OBVIOUS
<1>1. CASE CreateTrigger(q)
  BY <1>1, BotAssumption, Ends, TriggerSaved DEF CreateTrigger, TriggerFits, IInv
<1>2. CASE PatchTrigger(q)
  <2>1. PICK t \in Rows(trigger), b \in TriggerBodies : MoveReq(q, Saves("trigger", t, Patched(trigger[t], b)))
    BY <1>2 DEF PatchTrigger
  <2>2. t \in Triggers /\ trigger[t] \in TriggerRow
    BY RowTypes DEF IInv, TableTypes
  <2>3. Requested'
    BY <2>1, <2>2, BotAssumption, SavesSound, Moves DEF IInv
  <2>4. QED
    BY <1>2, <2>3, Moving DEF PatchTrigger
<1>3. CASE SaveTrigger(q)
  <2>1. Requested'
    BY <1>3, Ends DEF SaveTrigger, IInv
  <2>2. req[q].id \in Triggers /\ req[q].row \in TriggerRow
    BY <1>3 DEF SaveTrigger, IInv, Requested, Sound
  <2>3. CASE UNCHANGED trigger
    BY <1>3, <2>1, <2>3, Moving DEF SaveTrigger, tables
  <2>4. CASE ~UNCHANGED trigger
    BY <1>3, <2>1, <2>2, <2>4, TriggerSaved DEF SaveTrigger, TriggerFits
  <2>5. QED
    BY <2>3, <2>4
<1>4. QED
  BY <1>1, <1>2, <1>3

LEMMA MenuRequests ==
    ASSUME NEW q \in Requests
    PROVE  IInv /\ (CreateMenu(q) \/ PatchMenu(q) \/ SaveMenu(q) \/ CheckDelete(q) \/ DieRequest(q)) => IInv'
<1> SUFFICES ASSUME IInv, CreateMenu(q) \/ PatchMenu(q) \/ SaveMenu(q) \/ CheckDelete(q) \/ DieRequest(q)
             PROVE  IInv'
  OBVIOUS
<1>1. CASE CreateMenu(q)
  BY <1>1, BotAssumption, Ends, MenuSaved DEF CreateMenu, IInv
<1>2. CASE PatchMenu(q)
  <2>1. PICK m \in Rows(menu), b \in MenuBodies : MoveReq(q, Saves("menu", m, Patched(menu[m], b)))
    BY <1>2 DEF PatchMenu
  <2>2. m \in Menus /\ menu[m] \in MenuRow
    BY RowTypes DEF IInv, TableTypes
  <2>3. Requested'
    BY <2>1, <2>2, BotAssumption, SavesSound, Moves DEF IInv
  <2>4. QED
    BY <1>2, <2>3, Moving DEF PatchMenu
<1>3. CASE SaveMenu(q)
  <2>1. Requested'
    BY <1>3, Ends DEF SaveMenu, IInv
  <2>2. req[q].id \in Menus /\ req[q].row \in MenuRow
    BY <1>3 DEF SaveMenu, IInv, Requested, Sound
  <2>3. CASE UNCHANGED menu
    BY <1>3, <2>1, <2>3, Moving DEF SaveMenu, tables
  <2>4. CASE ~UNCHANGED menu
    BY <1>3, <2>1, <2>2, <2>4, MenuSaved DEF SaveMenu
  <2>5. QED
    BY <2>3, <2>4
<1>4. CASE CheckDelete(q)
  <2>1. PICK m \in Rows(menu) : MoveReq(q, [ReqAt("delete") EXCEPT !.id = m])
    BY <1>4 DEF CheckDelete
  <2>2. m \in Menus
    BY RowTypes DEF IInv, TableTypes
  <2>3. LET r == [ReqAt("delete") EXCEPT !.id = m] IN r \in ReqState /\ Sound(r)
    BY <2>2 DEF ReqAt, ReqState, ReqStep, Ids, AnyRow, Scopes, Sound
  <2>4. Requested'
    BY <2>1, <2>3, Moves DEF IInv
  <2>5. QED
    BY <1>4, <2>4, Moving DEF CheckDelete
<1>5. CASE DieRequest(q)
  BY <1>5, Ends, Moving DEF DieRequest, IInv
<1>6. QED
  BY <1>1, <1>2, <1>3, <1>4, <1>5

\* Nothing is left that refers to the menu that went.
LEMMA DeleteMenuKeeps == ASSUME NEW q \in Requests PROVE IInv /\ DeleteMenu(q) => IInv'
<1> SUFFICES ASSUME IInv, DeleteMenu(q) PROVE IInv'
  OBVIOUS
<1> DEFINE m == req[q].id
           own == {i \in Rows(item) : item[i].menu = m}
<1>1. m \in Menus
  BY DEF DeleteMenu, IInv, Requested, Sound
<1>2. Requested'
  BY Ends DEF DeleteMenu, IInv
<1>3. CASE UNCHANGED <<menu, item, config, session>>
  BY <1>2, <1>3, Moving DEF DeleteMenu, tables, talk
<1>4. CASE ~UNCHANGED <<menu, item, config, session>>
  <2>1. /\ ~Protects(m, Rows(item) \ own, Rows(menu) \ {m})
        /\ menu' = [menu EXCEPT ![m] = Deleted]
        /\ item' = [i \in Items |-> IF i \in own THEN Deleted ELSE item[i]]
        /\ config' = [c \in Configs |-> IF c \in Rows(config) /\ config[c].root = m
                                        THEN [config[c] EXCEPT !.root = NoMenu] ELSE config[c]]
        /\ session' = IF session.menu = m THEN [session EXCEPT !.menu = NoMenu] ELSE session
        /\ UNCHANGED <<trigger, open, chat, shown, sent, hook>>
    BY <1>4 DEF DeleteMenu
  <2>2. /\ menu' \in Table(Menus, MenuRow) /\ Rows(menu)' = Rows(menu) \ {m}
        /\ \A n \in Menus : n # m => menu'[n] = menu[n]
    BY <1>1, <2>1 DEF IInv, TableTypes, Table, Rows, Row
  <2>3. \A i \in Rows(item) : i \in Items /\ item[i] \in ItemRow
    BY RowTypes DEF IInv, TableTypes
  <2>4. item' \in Table(Items, ItemRow) /\ Rows(item)' = Rows(item) \ own /\ \A i \in Rows(item)' : item'[i] = item[i]
    BY <2>1, <2>3 DEF IInv, TableTypes, Table, Rows, Row
  <2>5. \A c \in Rows(config) : c \in Configs /\ config[c] \in ConfigRow
    BY RowTypes DEF IInv, TableTypes
  <2>6. \A c \in Rows(config) : [config[c] EXCEPT !.root = NoMenu] \in ConfigRow
    BY <2>5 DEF ConfigRow, MenuOrNone
  <2>7. config' \in Table(Configs, ConfigRow)
    BY <2>1, <2>6 DEF IInv, TableTypes, Table
  <2>8. \A c \in Rows(config)' : c \in Rows(config) /\ config'[c].root \in {config[c].root, NoMenu} \ {m}
    <3>1. NoMenu # m
      BY <1>1, BotAssumption
    <3>2. SUFFICES ASSUME NEW c \in Configs, Row(config', c)
                   PROVE  c \in Rows(config) /\ config'[c].root \in {config[c].root, NoMenu} \ {m}
      BY <2>7 DEF Rows, Table
    <3>3. c \in Rows(config)
      BY <2>1, <3>2 DEF IInv, TableTypes, Table, Rows, Row
    <3>4. CASE config[c].root = m
      BY <2>1, <2>5, <3>1, <3>3, <3>4 DEF ConfigRow
    <3>5. CASE config[c].root # m
      BY <2>1, <3>3, <3>5
    <3>6. QED
      BY <3>3, <3>4, <3>5
  <2>9. \A n \in Rows(menu)' : n \in Rows(menu) /\ menu'[n] = menu[n] /\ menu[n].parent # m
    BY <2>1, <2>2, RowTypes DEF IInv, TableTypes, Protects
  <2>10. \A i \in Rows(item)' : i \in Rows(item) /\ item'[i] = item[i] /\ item[i].menu # m /\ item[i].target # m
    BY <2>1, <2>4 DEF Protects
  <2>11. \A t \in Rows(trigger) : trigger[t].target # m
    BY <2>1 DEF Protects
  <2>12. \A i \in Rows(item)' : Row(menu', item'[i].menu)
    BY <2>2, <2>3, <2>10 DEF IInv, NothingDangles, Referential, Row, ItemRow
  <2>13. Referential(menu, item, trigger, config)'
    BY <2>1, <2>2, <2>8, <2>9, <2>10, <2>11, <2>12 DEF IInv, NothingDangles, Referential, Refers
  <2>14. session' \in [st : {"none", "active", "waiting", "completed"}, menu : MenuOrNone]
         /\ session'.st = session.st /\ session'.menu \in {session.menu, NoMenu} /\ Refers(menu, session.menu)'
    BY <1>1, <2>1, <2>2, BotAssumption DEF IInv, TalkTypes, MenuOrNone, NothingDangles, Refers
  <2>15. TalkTypes' /\ Position' /\ ShownIsPosition'
    BY <2>1, <2>14 DEF IInv, TalkTypes, Position, ShownIsPosition
  <2>16. Distinct(item)' /\ \A i \in Rows(item)' : Leads(item'[i])
    BY <2>4, ItemsDropped
  <2>17. MenuItemsLead'
    BY <2>1, <2>16 DEF IInv, MenuItemsLead
  <2>18. QED
    BY <1>2, <2>1, <2>2, <2>4, <2>7, <2>13, <2>14, <2>15, <2>16, <2>17 DEF IInv, TableTypes, NothingDangles
<1>5. QED
  BY <1>3, <1>4

LEMMA RequestKeeps == ASSUME NEW q \in Requests PROVE IInv /\ Request(q) => IInv'
BY ConfigRequests, ItemRequests, TriggerRequests, MenuRequests, DeleteItemKeeps, DeleteTriggerKeeps, DeleteMenuKeeps
   DEF Request

-----------------------------------------------------------------------------
(* Theorems                                                                *)

LEMMA InitHolds == Init => IInv
<1> SUFFICES ASSUME Init PROVE IInv
  OBVIOUS
<1>1. /\ TableTypes /\ Referential(menu, item, trigger, config) /\ Distinct(item)
      /\ \A i \in Rows(item) : Leads(item[i])
  BY BotAssumption DEF Init, TableTypes
<1>2. TalkTypes
  BY IdleOK, BotAssumption DEF Init, TalkTypes, MenuOrNone
<1>3. ReqAt("new") \in ReqState /\ Sound(ReqAt("new"))
  BY DEF ReqAt, ReqState, ReqStep, Ids, AnyRow, Scopes, Sound
<1>4. Requested
  BY <1>3 DEF Init, Requested
<1>5. MenuItemsLead /\ Position /\ ShownIsPosition
  BY <1>1, IdleOK DEF Init, MenuItemsLead, Position, ShownIsPosition
<1>6. QED
  BY <1>1, <1>2, <1>4, <1>5 DEF Init, IInv, NothingDangles, Refers

LEMMA NextHolds == IInv /\ [Next]_vars => IInv'
<1>1. ASSUME IInv, UNCHANGED vars PROVE IInv'
  BY <1>1 DEF vars, tables, talk, IInv, TableTypes, TalkTypes, Requested, NothingDangles, MenuItemsLead,
              Position, ShownIsPosition
<1>2. QED
  BY <1>1, EngineKeeps, CloseKeeps, ToggleKeeps, RequestKeeps DEF Next

\* The inductive invariant holds of every behaviour.
THEOREM Invariance == Spec => []IInv
BY InitHolds, NextHolds, PTL DEF Spec

\* Every variable has its type (TypeOK).
THEOREM TypeCorrect == Spec => []TypeOK
<1>1. IInv => TypeOK
  BY DEF IInv, TableTypes, TalkTypes, Requested, TypeOK
<1>2. QED
  BY <1>1, Invariance, PTL

\* No overlap of requests and deletions leaves a reference to a menu that is
\* gone, nor two items of a menu under one trigger value.
THEOREM ReferencesHold == Spec => []NothingDangles
<1>1. IInv => NothingDangles
  BY DEF IInv
<1>2. QED
  BY <1>1, Invariance, PTL

\* An item that shows a menu has one, in the table and in the engine's hand.
THEOREM MenusLead == Spec => []MenuItemsLead
<1>1. IInv => MenuItemsLead
  BY DEF IInv
<1>2. QED
  BY <1>1, Invariance, PTL

\* The list sent is one of the menu the session is at, the Offices' only if an
\* item led there.
THEOREM PositionShown == Spec => []ShownIsPosition
<1>1. IInv => ShownIsPosition
  BY DEF IInv
<1>2. QED
  BY <1>1, Invariance, PTL

\* A tap on the row of an item that is still the current menu's picks it.
THEOREM TapsFindTheirItem == Spec => TapFindsItsItem
<1> DEFINE A == \A i \in Rows(item) :
                  hook.pc = "item" /\ Tapped(i) /\ hook' \notin {hook, Idle}
                  => hook'.pc = "act" /\ hook'.does = item[i].does /\ hook'.next = item[i].target
<1>1. IInv /\ [Next]_vars => [A]_vars
  <2> SUFFICES ASSUME IInv, Next, NEW i \in Rows(item), hook.pc = "item", Tapped(i), hook' \notin {hook, Idle}
               PROVE  hook'.pc = "act" /\ hook'.does = item[i].does /\ hook'.next = item[i].target
    OBVIOUS
  <2>1. ~Close /\ (\A o \in Offices : ~Toggle(o)) /\ (\A q \in Requests : ~Request(q))
    BY DEF Close, Toggle, talk, Request, BeginConfig, InsertConfig, SaveConfig, CreateItem, PatchItem, SaveItem,
           DeleteItem, CreateTrigger, PatchTrigger, SaveTrigger, DeleteTrigger, CreateMenu, PatchMenu, SaveMenu,
           CheckDelete, DeleteMenu, DieRequest
  <2>2. PickItem
    BY <2>1 DEF Next, Engine, Receive, ReadConfig, ReadSession, Match, Abandon, Create, Die, ShowMenu, Finish,
                HandOff, Send, ChooseNone, ShowPage, Choose, Route, Wait, EndHook
  <2>3. Picks(hook.msg.text, hook.msg.row) = {i}
    BY DEF Picks, Tapped, IInv, NothingDangles, Distinct
  <2>4. hook' = [hook EXCEPT !.pc = "act", !.does = item[i].does, !.next = item[i].target]
    BY <2>2, <2>3 DEF PickItem, MoveHook
  <2>5. QED
    BY <2>4 DEF IInv, TalkTypes, HookState
<1>2. QED
  BY <1>1, Invariance, PTL DEF Spec, TapFindsItsItem

-----------------------------------------------------------------------------
(* Pages                                                                   *)

\* The last whole multiple of P up to a.
LEMMA Division ==
    ASSUME NEW a \in Nat, NEW P \in Nat \ {0}
    PROVE  a \div P \in Nat /\ (a \div P) * P <= a /\ a < (a \div P + 1) * P
OBVIOUS

LEMMA Multiples ==
    ASSUME NEW a \in Int, NEW b \in Int, NEW P \in Nat \ {0}
    PROVE  a <= b <=> a * P <= b * P
OBVIOUS

LEMMA Dimensions ==
    ASSUME open \subseteq Offices
    PROVE  /\ IsFiniteSet(open) /\ Count \in Nat /\ (Count = 0 <=> open = {})
           /\ \A S \in SUBSET open : IsFiniteSet(S) /\ Cardinality(S) \in 0..Count
BY BotAssumption, FS_Subset, FS_CardinalityType, FS_EmptySet DEF Count

\* Offices are numbered from 1 on, without gaps.
LEMMA PlacesNumber ==
    ASSUME open \subseteq Offices
    PROVE  /\ \A o \in open : Place(o) \in 1..Count
           /\ \A o, p \in open : Place(o) = Place(p) => o = p
           /\ \A k \in 1..Count : \E o \in open : Place(o) = k
<1> DEFINE UpTo(o) == {p \in open : Rank[p] <= Rank[o]}
<1>1. \A o \in open : Rank[o] \in Nat /\ o \in UpTo(o) /\ Place(o) = Cardinality(UpTo(o))
  BY BotAssumption DEF Place
<1>2. \A o \in open : Place(o) \in 1..Count
  <2> SUFFICES ASSUME NEW o \in open PROVE Place(o) \in 1..Count
    OBVIOUS
  <2>1. IsFiniteSet(UpTo(o)) /\ Cardinality(UpTo(o)) \in 0..Count
    BY Dimensions
  <2>2. Cardinality(UpTo(o)) # 0
    BY <1>1, <2>1, FS_EmptySet
  <2>3. Count \in Nat
    BY Dimensions
  <2> HIDE DEF UpTo
  <2>4. QED
    BY <1>1, <2>1, <2>2, <2>3
<1>3. \A o, p \in open : Place(o) = Place(p) => o = p
  <2>1. ASSUME NEW o \in open, NEW p \in open, Rank[o] <= Rank[p], Place(o) = Place(p) PROVE o = p
    <3>1. UpTo(o) \subseteq UpTo(p)
      <4>1. \A x \in open : Rank[x] \in Nat
        BY <1>1
      <4>2. QED
        BY <2>1, <4>1
    <3>2. IsFiniteSet(UpTo(p)) /\ Cardinality(UpTo(o)) = Cardinality(UpTo(p))
      BY <1>1, <2>1, Dimensions
    <3>3. UpTo(o) = UpTo(p)
      <4> HIDE DEF UpTo
      <4>1. QED
        BY <3>1, <3>2, FS_Subset
    <3>4. p \in UpTo(o)
      BY <1>1, <3>3
    <3>5. Rank[p] <= Rank[o] /\ Rank[o] \in Nat /\ Rank[p] \in Nat
      BY <1>1, <3>4
    <3>6. Rank[o] = Rank[p]
      BY <2>1, <3>5
    <3>7. QED
      BY <3>6, BotAssumption
  <2>2. SUFFICES ASSUME NEW o \in open, NEW p \in open, Place(o) = Place(p) PROVE o = p
    OBVIOUS
  <2>3. Rank[o] \in Nat /\ Rank[p] \in Nat
    BY <1>1
  <2>4. Rank[o] <= Rank[p] \/ Rank[p] <= Rank[o]
    BY <2>3
  <2>5. QED
    BY <2>1, <2>2, <2>4
<1>4. \A k \in 1..Count : \E o \in open : Place(o) = k
  <2> DEFINE place == [o \in open |-> Place(o)]
  <2>1. place \in Injection(open, 1..Count)
    BY <1>2, <1>3 DEF Injection, IsInjective
  <2>2. IsFiniteSet(1..Count) /\ Cardinality(1..Count) = Cardinality(open)
    BY Dimensions, FS_Interval DEF Count
  <2>3. place \in Surjection(open, 1..Count)
    BY <2>1, <2>2, FS_Injection
  <2>4. QED
    BY <2>3 DEF Surjection
<1>5. QED
  BY <1>2, <1>3, <1>4

\* The last page is the one with the last Office.
LEMMA LastPageEnds ==
    ASSUME open \subseteq Offices
    PROVE  /\ LastPage \in Nat \ {0}
           /\ open = {} => LastPage = 1
           /\ open # {} => (LastPage - 1) * PageSize < Count /\ Count <= LastPage * PageSize
           /\ \A n \in 1..LastPage : n * PageSize < Count <=> n < LastPage
<1>1. Count \in Nat /\ (Count = 0 <=> open = {}) /\ PageSize \in Nat \ {0}
  BY Dimensions, BotAssumption
<1>2. CASE Count = 0
  <2>1. LastPage = 1
    BY <1>2 DEF LastPage
  <2>2. QED
    BY <1>1, <1>2, <2>1
<1>3. CASE Count # 0
  <2> DEFINE q == (Count - 1) \div PageSize
  <2>1. q \in Nat /\ q * PageSize <= Count - 1 /\ Count - 1 < (q + 1) * PageSize
    BY <1>1, <1>3, Division
  <2>2. LastPage = q + 1
    BY <1>3 DEF LastPage
  <2> HIDE DEF q
  <2>3. LastPage \in Nat \ {0} /\ (LastPage - 1) * PageSize < Count /\ Count <= LastPage * PageSize
    BY <1>1, <2>1, <2>2
  <2>4. ASSUME NEW n \in 1..LastPage PROVE n * PageSize < Count <=> n < LastPage
    <3>1. CASE n < LastPage
      <4>1. n * PageSize <= (LastPage - 1) * PageSize
        BY <1>1, <2>3, <3>1, Multiples
      <4>2. QED
        BY <1>1, <2>3, <3>1, <4>1
    <3>2. CASE n = LastPage
      BY <1>1, <2>3, <3>2
    <3>3. QED
      BY <2>3, <3>1, <3>2
  <2>5. QED
    BY <1>1, <1>3, <2>3, <2>4
<1>4. QED
  BY <1>2, <1>3

\* Whatever page is asked for, one there is is shown, and has an Office.
LEMMA PageHasOffice ==
    ASSUME open \subseteq Offices, open # {}, NEW n \in Int
    PROVE  Clamped(n) \in 1..LastPage /\ \E o \in open : o \in OnPage(Clamped(n))
<1>1. LastPage \in Nat \ {0} /\ (LastPage - 1) * PageSize < Count /\ Count \in Nat /\ PageSize \in Nat \ {0}
  BY LastPageEnds, Dimensions, BotAssumption
<1>2. Clamped(n) \in 1..LastPage
  BY <1>1 DEF Clamped
<1> DEFINE k == Clamped(n)
<1>3. (k - 1) * PageSize <= (LastPage - 1) * PageSize /\ (k - 1) * PageSize \in Nat
  BY <1>1, <1>2, Multiples
<1>4. k * PageSize = (k - 1) * PageSize + PageSize
  BY <1>1, <1>2
<1> HIDE DEF k
<1>5. (k - 1) * PageSize + 1 \in 1..Count
  BY <1>1, <1>3
<1>6. PICK o \in open : Place(o) = (k - 1) * PageSize + 1
  BY <1>5, PlacesNumber
<1>7. o \in OnPage(k)
  BY <1>1, <1>3, <1>4, <1>6 DEF OnPage
<1>8. QED
  BY <1>2, <1>7 DEF k

\* An open Office is on the page of its place.
LEMMA OfficeHasPage ==
    ASSUME open \subseteq Offices, NEW o \in open
    PROVE  \E n \in 1..LastPage : o \in OnPage(n)
<1> DEFINE q == (Place(o) - 1) \div PageSize
<1>1. Place(o) \in 1..Count /\ Count \in Nat /\ PageSize \in Nat \ {0} /\ LastPage \in Nat \ {0} /\ Count <= LastPage * PageSize
  BY PlacesNumber, Dimensions, LastPageEnds, BotAssumption
<1>2. q \in Nat /\ q * PageSize <= Place(o) - 1 /\ Place(o) - 1 < (q + 1) * PageSize
  BY <1>1, Division
<1> HIDE DEF q
<1>3. q + 1 <= LastPage
  <2>1. q * PageSize < LastPage * PageSize
    BY <1>1, <1>2
  <2>2. QED
    BY <1>1, <1>2, <2>1, Multiples
<1>4. o \in OnPage(q + 1)
  BY <1>1, <1>2 DEF OnPage
<1>5. QED
  BY <1>1, <1>2, <1>3, <1>4

\* A page lists at most PageSize Offices.
LEMMA PageFits ==
    ASSUME open \subseteq Offices, NEW n \in 1..LastPage
    PROVE  IsFiniteSet(OnPage(n)) /\ Cardinality(OnPage(n)) <= PageSize
<1> DEFINE a == (n - 1) * PageSize
           b == n * PageSize
           place == [o \in OnPage(n) |-> Place(o)]
<1>1. LastPage \in Nat \ {0} /\ PageSize \in Nat \ {0}
  BY LastPageEnds, BotAssumption
<1>2. a \in Nat /\ b \in Nat /\ b = a + PageSize
  <2>1. n \in Nat \ {0}
    BY <1>1
  <2>2. QED
    BY <1>1, <2>1
<1>3. \A o \in OnPage(n) : o \in open /\ Place(o) \in Nat /\ a < Place(o) /\ Place(o) <= b
  BY PlacesNumber, Dimensions DEF OnPage
<1> HIDE DEF a, b
<1>4. \A o \in OnPage(n) : Place(o) \in (a + 1)..b
  BY <1>2, <1>3
<1>5. place \in Injection(OnPage(n), (a + 1)..b)
  BY <1>3, <1>4, PlacesNumber DEF Injection, IsInjective
<1>6. IsFiniteSet((a + 1)..b) /\ Cardinality((a + 1)..b) = PageSize
  BY <1>1, <1>2, FS_Interval
<1>7. QED
  BY <1>5, <1>6, FS_Injection

\* The rows that turn from a page: to the one before and the one after, if any.
TurnRow(p) == [row |-> PageRow(p), text |-> Turn, of |-> Turn]
OfficeRow(o) == [row |-> Pk[o], text |-> Name[o], of |-> o]
Turns(n) == {q \in {n - 1} : n > 1} \cup {q \in {n + 1} : n * PageSize < Count}

LEMMA PageRows ==
    ASSUME open \subseteq Offices, NEW n \in 1..LastPage
    PROVE  /\ OfficeRows(n) = {OfficeRow(o) : o \in OnPage(n)} \cup {TurnRow(p) : p \in Turns(n)}
           /\ Turns(n) = {n - 1, n + 1} \cap 1..LastPage
<1>1. LastPage \in Nat \ {0} /\ (n * PageSize < Count <=> n < LastPage)
  BY LastPageEnds
<1>2. Clamped(n) = n
  BY <1>1 DEF Clamped
<1>3. OfficeRows(n) = {OfficeRow(o) : o \in OnPage(n)} \cup {TurnRow(p) : p \in Turns(n)}
  BY <1>2 DEF OfficeRows, PageOfRows, OfficeRow, TurnRow, Turns
<1>4. Turns(n) = {n - 1, n + 1} \cap 1..LastPage
  BY <1>1 DEF Turns
<1>5. QED
  BY <1>3, <1>4

\* Only the rows that turn a page turn one.
LEMMA RowsDiffer ==
    ASSUME open \subseteq Offices
    PROVE  /\ \A n : \A o \in OnPage(n) : OfficeRow(o).of # Turn
           /\ \A p \in Int : TurnRow(p).of = Turn /\ TurnRow(p).row \in [page : Int] /\ TurnRow(p).row.page = p
BY BotAssumption DEF OnPage, OfficeRow, TurnRow, PageRow

LEMMA PagesAreLinked ==
    ASSUME open \subseteq Offices, NEW n \in 1..LastPage
    PROVE  PageRowsOf(n) = {n - 1, n + 1} \cap 1..LastPage
<1>1. n \in Int
  BY LastPageEnds
<1>2. Turns(n) \subseteq Int
  BY <1>1 DEF Turns
<1>3. {x \in OfficeRows(n) : x.of = Turn} = {TurnRow(p) : p \in Turns(n)}
  BY <1>2, PageRows, RowsDiffer
<1>4. PageRowsOf(n) = Turns(n)
  BY <1>2, <1>3, RowsDiffer DEF PageRowsOf
<1>5. QED
  BY <1>4, PageRows

\* A page's Offices and its turns fit a list.
LEMMA PageFitsList ==
    ASSUME open \subseteq Offices, NEW n \in 1..LastPage
    PROVE  Cardinality(OfficeRows(n)) <= MaxRows
<1> DEFINE A == {OfficeRow(o) : o \in OnPage(n)}
           B == {TurnRow(p) : p \in Turns(n)}
           listed == [o \in OnPage(n) |-> OfficeRow(o)]
<1>1. IsFiniteSet(A) /\ Cardinality(A) <= Cardinality(OnPage(n)) /\ Cardinality(A) \in Nat /\ Cardinality(OnPage(n)) \in Nat
  <2>1. listed \in Surjection(OnPage(n), A)
    BY DEF Surjection
  <2>2. QED
    BY <2>1, PageFits, FS_Surjection, FS_CardinalityType
<1>2. IsFiniteSet(B) /\ Cardinality(B) <= 2 /\ Cardinality(B) \in Nat
  <2> DEFINE T == {TurnRow(n - 1)} \cup {TurnRow(n + 1)}
  <2>1. B \subseteq T
    BY DEF Turns
  <2>2. IsFiniteSet({TurnRow(n - 1)}) /\ Cardinality({TurnRow(n - 1)}) = 1
    BY FS_Singleton
  <2>3. IsFiniteSet(T) /\ Cardinality(T) \in {1, 2}
    BY <2>2, FS_AddElement
  <2> HIDE DEF B, T
  <2>4. QED
    BY <2>1, <2>3, FS_Subset, FS_CardinalityType
<1>3. OfficeRows(n) = A \cup B
  BY PageRows
<1> HIDE DEF A, B
<1>4. Cardinality(A \cup B) = Cardinality(A) + Cardinality(B) - Cardinality(A \cap B)
  BY <1>1, <1>2, FS_Union
<1>5. Cardinality(A \cap B) \in Nat
  BY <1>1, FS_Intersection, FS_CardinalityType
<1>6. QED
  BY <1>1, <1>2, <1>3, <1>4, <1>5, PageFits, BotAssumption

\* A row that turns to a page says a number of a page.
TurnsArePages == \A r \in shown : r.of = Turn => r.row \in [page : Int]

LEMMA MenusTurnNothing == ASSUME IInv, NEW m PROVE \A r \in MenuRows(m) : r.of # Turn
<1>1. \A i \in Rows(item) : i \in Items
  BY RowTypes DEF IInv, TableTypes
<1>2. QED
  BY <1>1, BotAssumption DEF MenuRows

LEMMA OfficesTurnPages ==
    ASSUME IInv, NEW n \in Int
    PROVE  \A r \in OfficeRows(n) : r.of = Turn => r.row \in [page : Int]
<1>1. open \subseteq Offices
  BY DEF IInv, TalkTypes
<1>2. Clamped(n) \in Int
  BY <1>1, LastPageEnds DEF Clamped
<1>3. \A k \in Int : \A r \in PageOfRows(k) : r.of = Turn => r.row \in [page : Int]
  BY <1>1, BotAssumption DEF PageOfRows, OnPage, PageRow
<1>4. QED
  BY <1>2, <1>3 DEF OfficeRows

LEMMA TurnsStayPages == IInv /\ TurnsArePages /\ [Next]_vars => TurnsArePages'
<1> SUFFICES ASSUME IInv, TurnsArePages, [Next]_vars PROVE TurnsArePages'
  OBVIOUS
<1>1. CASE UNCHANGED shown
  BY <1>1 DEF TurnsArePages
<1>2. CASE Send
  <2>1. hook.page \in Int
    BY DEF IInv, TalkTypes, HookState
  <2>2. QED
    BY <1>2, <2>1, MenusTurnNothing, OfficesTurnPages DEF Send, TurnsArePages
<1>3. CASE ShowPage
  <2>1. (IF TurnsPage THEN hook.msg.row.page ELSE 1) \in Int
    BY DEF TurnsPage
  <2>2. QED
    BY <1>3, <2>1, OfficesTurnPages DEF ShowPage, TurnsArePages
<1>4. CASE Engine
  BY <1>1, <1>2, <1>3, <1>4
     DEF Engine, Receive, ReadConfig, ReadSession, Match, Abandon, Create, Die, PickItem, ShowMenu, Finish,
         HandOff, ChooseNone, Choose, Route, Wait
<1>5. CASE Close \/ \E o \in Offices : Toggle(o)
  BY <1>1, <1>5 DEF Close, Toggle, talk
<1>6. ASSUME NEW q \in Requests, Request(q) PROVE UNCHANGED shown
  BY <1>6 DEF Request, BeginConfig, InsertConfig, SaveConfig, CreateItem, PatchItem, SaveItem, DeleteItem,
              CreateTrigger, PatchTrigger, SaveTrigger, DeleteTrigger, CreateMenu, PatchMenu, SaveMenu,
              CheckDelete, DeleteMenu, DieRequest, talk
<1>7. QED
  BY <1>1, <1>4, <1>5, <1>6 DEF Next, vars, talk

\* However many Offices there are, and however they open and close while old
\* lists lie about: every page shown has an Office, the pages are linked, none
\* of the open Offices is left out, and none of the lists is too long.
THEOREM PagesAlwaysHold == Spec => []PagesHold
<1>1. Init => TurnsArePages
  BY DEF Init, TurnsArePages
<1>2. IInv /\ TurnsArePages => PagesHold
  <2> SUFFICES ASSUME IInv, TurnsArePages PROVE PagesHold
    OBVIOUS
  <2>1. open \subseteq Offices
    BY DEF IInv, TalkTypes
  <2>2. ASSUME open # {}, NEW r \in shown, r.of = Turn PROVE \E x \in OfficeRows(r.row.page) : x.of \in open
    <3>1. r.row.page \in Int
      BY <2>2 DEF TurnsArePages
    <3>2. PICK o \in open : o \in OnPage(Clamped(r.row.page))
      BY <2>1, <2>2, <3>1, PageHasOffice
    <3>3. OfficeRow(o) \in OfficeRows(r.row.page) /\ OfficeRow(o).of = o
      BY <3>2 DEF OfficeRows, PageOfRows, OfficeRow
    <3>4. QED
      BY <3>3
  <2>3. ASSUME NEW o \in open PROVE \E n \in 1..LastPage : \E x \in OfficeRows(n) : x.of = o
    <3>1. PICK n \in 1..LastPage : o \in OnPage(n)
      BY <2>1, OfficeHasPage
    <3>2. OfficeRow(o) \in OfficeRows(n) /\ OfficeRow(o).of = o
      BY <2>1, <3>1, PageRows DEF OfficeRow
    <3>3. QED
      BY <3>2
  <2>4. QED
    BY <2>1, <2>2, <2>3, PagesAreLinked, PageFitsList DEF PagesHold
<1>3. QED
  BY <1>1, <1>2, TurnsStayPages, Invariance, PTL DEF Spec

-----------------------------------------------------------------------------
(* The contract                                                            *)

\* A thread that went on past its look at the session still finds no handoff,
\* and one that will create a session finds none active.
Acting == hook.pc \notin {"idle", "config", "session"}
TurnHolds ==
    /\ Acting => session.st # "waiting"
    /\ hook.pc = "create" \/ (hook.pc = "match" /\ hook.at = NoSession) => session.st # "active"

\* Steps of the engine that leave the session as it is: the thread looks, goes
\* on, or ends.
LEMMA LooksTalk ==
    ASSUME IInv, TurnHolds, Receive \/ ReadConfig \/ ReadSession \/ Match \/ PickItem \/ Choose
    PROVE  TurnHolds' /\ (Talk!Take \/ Talk!Yield \/ UNCHANGED <<Phase, Acting>>)
<1> USE DEF TurnHolds, Acting, MoveHook
<1>1. hook \in HookState /\ session' = session /\ Phase' = Phase
  BY DEF IInv, TalkTypes, Receive, ReadConfig, ReadSession, Match, PickItem, Choose, Phase
<1>2. CASE EndHook
  BY <1>1, <1>2, IdleOK DEF EndHook, Talk!Yield
<1>3. CASE Receive
  <2>1. hook'.pc = "config"
    BY <1>3 DEF Receive, Idle
  <2>2. QED
    BY <1>1, <1>3, <2>1 DEF Receive
<1>4. CASE ReadConfig /\ ~EndHook
  <2>1. hook.pc = "config" /\ hook'.pc = "session"
    BY <1>1, <1>4 DEF ReadConfig, HookState
  <2>2. QED
    BY <1>1, <2>1
<1>5. CASE ReadSession /\ ~EndHook
  <2>1. hook.pc = "session" /\ hook'.pc = "match" /\ session.st # "waiting"
    BY <1>1, <1>5 DEF ReadSession, HookState
  <2>2. session.st = "active" => hook'.at # NoSession
    <3>1. session.menu # NoSession
      BY BotAssumption DEF IInv, TalkTypes
    <3>2. QED
      BY <1>1, <1>5, <3>1 DEF ReadSession, HookState
  <2>3. QED
    BY <1>1, <2>1, <2>2 DEF Talk!Take, Phase
<1>6. CASE Match
  <2>1. hook.pc = "match" /\ hook'.pc \in {"abandon", Onward}
    BY <1>1, <1>6 DEF Match, HookState
  <2>2. Onward \in {"create", "abandon", "offices", "item"} /\ (Onward = "create" => hook.at = NoSession)
    BY BotAssumption DEF Onward, MenuOrNone
  <2>3. QED
    BY <1>1, <2>1, <2>2
<1>7. CASE PickItem \/ Choose
  <2>1. hook.pc \in {"item", "offices"} /\ hook'.pc \in {"send", "act", "route"}
    BY <1>1, <1>7 DEF PickItem, Choose, HookState
  <2>2. QED
    BY <1>1, <2>1
<1>8. QED
  BY <1>2, <1>3, <1>4, <1>5, <1>6, <1>7

\* Steps of the engine that write the session, the chat or a list, and the ends
\* of the thread.
LEMMA WritesTalk ==
    ASSUME IInv, TurnHolds,
           Abandon \/ Create \/ ShowMenu \/ Finish \/ HandOff \/ Die \/ Send \/ ChooseNone \/ ShowPage
           \/ Route \/ Wait
    PROVE  TurnHolds' /\ (Talk!Next \/ UNCHANGED <<Phase, Acting>>)
<1> USE DEF TurnHolds, Acting, MoveHook, Talk!Next, Talk!Begin, Talk!Leave, Talk!HandOver, Talk!Yield, Talk!Write
<1>1. hook \in HookState /\ session \in [st : {"none", "active", "waiting", "completed"}, menu : MenuOrNone]
  BY DEF IInv, TalkTypes
<1>2. CASE Abandon
  <2>1. hook.pc = "abandon" /\ hook'.pc = "create"
    BY <1>1, <1>2 DEF Abandon, HookState
  <2>2. CASE session.st = "active"
    BY <1>2, <2>1, <2>2 DEF Abandon, Over, Phase
  <2>3. CASE session.st # "active"
    BY <1>1, <1>2, <2>1, <2>3 DEF Abandon, Phase
  <2>4. QED
    BY <2>2, <2>3
<1>3. ASSUME EndHook, hook.pc \notin {"idle", "config", "session"}, Phase' = Phase
      PROVE  TurnHolds' /\ Talk!Yield
  BY <1>3, IdleOK DEF EndHook
<1>4. CASE Create
  <2>1. hook.pc = "create" /\ session.st \notin {"active", "waiting"}
    BY <1>4 DEF Create
  <2>2. CASE hook.next \notin Rows(menu)
    BY <1>3, <1>4, <2>1, <2>2 DEF Create, Phase
  <2>3. CASE hook.next \in Rows(menu)
    <3>1. hook'.pc = "send" /\ session'.st = "active"
      BY <1>1, <1>4, <2>3 DEF Create, HookState
    <3>2. QED
      BY <1>1, <2>1, <3>1 DEF Phase
  <2>4. QED
    BY <2>2, <2>3
<1>5. CASE ShowMenu
  <2>1. hook.pc = "act" /\ session'.st = session.st
    BY <1>1, <1>5 DEF ShowMenu
  <2>2. Phase' = Phase
    BY <2>1 DEF Phase
  <2>3. CASE EndHook
    BY <1>3, <2>1, <2>2, <2>3
  <2>4. CASE hook'.pc = "send"
    BY <2>1, <2>2, <2>4
  <2>5. QED
    BY <1>1, <1>5, <2>3, <2>4 DEF ShowMenu, HookState
<1>6. CASE Finish \/ HandOff \/ Wait
  <2>1. hook.pc \in {"act", "wait"} /\ hook'.pc = "idle" /\ session.st = "active"
    BY <1>6, IdleOK, BotAssumption DEF Finish, HandOff, Wait, EndHook, IInv, Position, MenuOrNone
  <2>2. session'.st \in {"completed", "waiting"}
    BY <1>1, <1>6 DEF Finish, HandOff, Wait, Over
  <2>3. QED
    BY <2>1, <2>2 DEF Phase
<1>7. CASE Send \/ ChooseNone \/ ShowPage
  BY <1>3, <1>7 DEF Send, ChooseNone, ShowPage, Phase
<1>8. CASE Die
  <2>1. Phase' = Phase /\ hook'.pc = "idle"
    BY <1>8, IdleOK DEF Die, EndHook, Phase
  <2>2. QED
    BY <2>1, IdleOK
<1>9. CASE Route
  <2>1. hook.pc = "route" /\ session' = session /\ Phase' = Phase
    BY <1>9 DEF Route, Phase
  <2>2. CASE EndHook
    BY <1>3, <2>1, <2>2
  <2>3. CASE hook'.pc = "wait"
    BY <2>1, <2>3
  <2>4. QED
    BY <1>1, <1>9, <2>2, <2>3 DEF Route, HookState
<1>10. QED
  BY <1>2, <1>4, <1>5, <1>6, <1>7, <1>8, <1>9

\* Whatever administrators do to menus, items, triggers, configurations and
\* Offices meanwhile, the chat keeps every promise of Conversation.
THEOREM ConversationKept == Spec => ConversationSpec
<1>1. Init => TurnHolds /\ Talk!Init
  BY IdleOK DEF Init, TurnHolds, Acting, Talk!Init, Phase
<1>2. ASSUME IInv, TurnHolds, [Next]_vars PROVE TurnHolds' /\ (Talk!Next \/ UNCHANGED <<Phase, Acting>>)
  <2>1. CASE Engine
    BY <1>2, <2>1, LooksTalk, WritesTalk DEF Engine, Talk!Next
  <2>2. CASE Close
    BY <1>2, <2>2 DEF Close, Over, TurnHolds, Acting, Talk!Next, Talk!End, Phase
  <2>3. ASSUME hook' = hook, session'.st = session.st PROVE TurnHolds' /\ UNCHANGED <<Phase, Acting>>
    BY <1>2, <2>3 DEF TurnHolds, Acting, Phase
  <2>4. ASSUME NEW q \in Requests, Request(q) PROVE hook' = hook /\ session'.st = session.st
    <3>1. session' = session \/ session' = [session EXCEPT !.menu = NoMenu]
      BY <2>4 DEF Request, BeginConfig, InsertConfig, SaveConfig, CreateItem, PatchItem, SaveItem, DeleteItem,
              CreateTrigger, PatchTrigger, SaveTrigger, DeleteTrigger, CreateMenu, PatchMenu, SaveMenu,
              CheckDelete, DeleteMenu, DieRequest, talk
    <3>2. hook' = hook
      BY <2>4 DEF Request, BeginConfig, InsertConfig, SaveConfig, CreateItem, PatchItem, SaveItem, DeleteItem,
              CreateTrigger, PatchTrigger, SaveTrigger, DeleteTrigger, CreateMenu, PatchMenu, SaveMenu,
              CheckDelete, DeleteMenu, DieRequest, talk
    <3>3. QED
      BY <1>2, <3>1, <3>2 DEF IInv, TalkTypes
  <2>5. CASE (\E o \in Offices : Toggle(o)) \/ UNCHANGED vars
    BY <2>3, <2>5 DEF Toggle, vars, talk
  <2>6. QED
    BY <1>2, <2>1, <2>2, <2>3, <2>4, <2>5 DEF Next
<1>3. ASSUME IInv, TurnHolds, [Next]_vars PROVE TurnHolds' /\ [Talk!Next]_(Talk!conversationVars)
  BY <1>2, <1>3 DEF Acting, Talk!conversationVars
<1>4. QED
  BY Invariance, <1>1, <1>3, PTL DEF Spec, ConversationSpec, Talk!Spec
=============================================================================
