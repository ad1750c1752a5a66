--------------------------- MODULE HandoffProofs ---------------------------
(***************************************************************************)
(* Theorems about Handoff for any number of messages, requests, Offices    *)
(* and users: what stale reads and blind writes cannot break, and what     *)
(* holds as long as Django serves one request at a time.                   *)
(***************************************************************************)
EXTENDS Handoff, TLAPS

-----------------------------------------------------------------------------
(* The inductive invariant                                                 *)

\* A message creates its session in the last step of its thread.
BegunOnce == \A m \in Messages : hook[m].pc # "over" => rows[m].st = "none"

\* The session a thread read is a row: sessions are never deleted. One that
\* was waiting when it was read has not become active since.
SeenExists ==
    /\ \A m \in Messages :
          /\ hook[m].pc = "found" /\ hook[m].menu \in Menus => hook[m].seen # NoSession
          /\ hook[m].pc = "found" /\ hook[m].seen # NoSession => rows[hook[m].seen].st # "none"
          /\ hook[m].pc \in {"abandon", "route"} =>
                hook[m].seen \in Messages /\ rows[hook[m].seen].st # "none"
    /\ \A r \in Requests : req[r].pc = "close" =>
          req[r].seen \in Messages /\ rows[req[r].seen].st \in {"waiting", "completed"}
    /\ sweep # NoSession => rows[sweep].st \in {"waiting", "completed"}

\* A session that never was a handoff has no Office.
OnlyHandoffsAreRouted ==
    \A s \in Messages : rows[s].st \in {"none", "active"} => rows[s].office = NoOffice

\* An Office on its way into a session was written to the chat before.
RoutedFirst ==
    /\ SessionFollowsChat
    /\ \A m \in Messages : hook[m].pc = "route" => hook[m].office \in routed
    /\ \A r \in Requests : req[r].pc = "reroute" => req[r].office \in routed

\* While a message's Office is looked up, whoever has the conversation is
\* collected, and what was read of the chat or its live session is among them;
\* the chat's own Office counts only as long as no session ever began.
HoldersSeen ==
    \A m \in Messages :
       /\ hook[m].pc \in {"opened", "between"} => Holders \subseteq had[m]
       /\ hook[m].pc \in {"opened", "between"} /\ (\A s \in Messages : rows[s].st = "none")
             => hook[m].office \in had[m] \cup {NoOffice}
       /\ hook[m].pc = "file" => hook[m].office \in had[m] \cup {NoOffice}

(* With one worker *)

OneBusy ==
    OneWorker =>
       /\ \A m, n \in Messages : HookBusy(m) /\ HookBusy(n) => m = n
       /\ \A r, q \in Requests : ReqBusy(r) /\ ReqBusy(q) => r = q
       /\ \A m \in Messages, r \in Requests : ~(HookBusy(m) /\ ReqBusy(r))

\* What a webhook thread read of its session is still so.
SessionHolds ==
    OneWorker => \A m \in Messages :
       /\ hook[m].pc = "found" /\ hook[m].seen = NoSession => NoneLive
       /\ hook[m].pc = "found" /\ hook[m].seen # NoSession => rows[hook[m].seen].st = "active"
       /\ hook[m].pc \in {"abandon", "route"} => rows[hook[m].seen].st = "active"
       /\ hook[m].pc = "create" => NoneLive

\* What a request thread read of the chat is still so, and so its assignee belongs.
ChatHolds ==
    OneWorker =>
       /\ OwnerBelongs
       /\ \A r \in Requests :
          /\ req[r].pc = "claim" =>
                /\ chat.owner = Nobody
                /\ req[r].who \in Globals \/ Home[req[r].who] = chat.office
          /\ req[r].pc \in {"check", "assign"} =>
                req[r].who = Nobody \/ Home[req[r].who] = chat.office
          /\ req[r].pc = "assign" =>
                chat.owner \in {Nobody, req[r].who} \/ \A s \in Messages : ~Waiting(s)
          /\ req[r].pc \in {"closing", "close"} =>
                req[r].who \in Globals \/ Home[req[r].who] = chat.office

IInv ==
    /\ TypeOK
    /\ BegunOnce
    /\ SeenExists
    /\ OnlyHandoffsAreRouted
    /\ RoutedFirst
    /\ HoldersSeen
    /\ OneLiveSession
    /\ OneBusy
    /\ SessionHolds
    /\ ChatHolds

-----------------------------------------------------------------------------
(* Steps                                                                   *)

\* Saving a session's state, its menu, or both leaves a session.
LEMMA RowTyped ==
  ASSUME NEW row \in Session, NEW st \in {"none", "active", "waiting", "completed"},
         NEW menu \in MenuOrNone
  PROVE  /\ [row EXCEPT !.st = st] \in Session
         /\ [row EXCEPT !.menu = menu] \in Session
  BY DEF Session
\* Completing a session leaves a table of sessions, and so does moving one, or
\* handing it off.
LEMMA TableTyped ==
  ASSUME rows \in [Messages -> Session], NEW s \in Messages \cup {NoSession},
         NEW menu \in MenuOrNone
  PROVE  /\ Completed(s) \in [Messages -> Session]
         /\ [rows EXCEPT ![s].menu = menu] \in [Messages -> Session]
         /\ [rows EXCEPT ![s] = [rows[s] EXCEPT !.st = "waiting"]] \in [Messages -> Session]
<1>1. ASSUME NEW t \in Messages PROVE Completed(s)[t] \in Session
  <2>1. CASE t = s
    <3>1. Completed(s)[t] = [rows[t] EXCEPT !.st = "completed", !.menu = "none"]
      BY <2>1 DEF Completed
    <3>2. QED
      BY <3>1 DEF Session, MenuOrNone
  <2>2. CASE t # s
    BY <2>2 DEF Completed
  <2>3. QED
    BY <2>1, <2>2
<1>2. ASSUME NEW t \in Messages PROVE [rows EXCEPT ![s].menu = menu][t] \in Session
  <2>1. CASE t = s
    <3>1. [rows EXCEPT ![s].menu = menu][t] = [rows[t] EXCEPT !.menu = menu]
      BY <2>1
    <3>2. QED
      BY <3>1, RowTyped
  <2>2. CASE t # s
    BY <2>2
  <2>3. QED
    BY <2>1, <2>2
<1>3. ASSUME NEW t \in Messages
      PROVE  [rows EXCEPT ![s] = [rows[s] EXCEPT !.st = "waiting"]][t] \in Session
  <2>1. CASE t = s
    BY <2>1, RowTyped
  <2>2. CASE t # s
    BY <2>2
  <2>3. QED
    BY <2>1, <2>2
<1>4. QED
  BY <1>1, <1>2, <1>3 DEF Completed

\* Every step keeps the types.
LEMMA TypeStep == IInv /\ [Next]_vars => TypeOK'
<1> SUFFICES ASSUME IInv, [Next]_vars PROVE TypeOK'
  OBVIOUS
<1> USE HandoffAssumption
   DEF IInv, TypeOK, db, threads, Session, HookState, ReqState, HookStep, ReqStep,
       OfficeOrNone, UserOrNone, MenuOrNone, Menus
<1>0. had' \in [Messages -> SUBSET Offices]
  <2>1. CASE Track
    BY <2>1 DEF Track, Holders
  <2>2. CASE UNCHANGED vars
    BY <2>2 DEF vars
  <2>3. QED
    BY <2>1, <2>2 DEF Next
<1> USE <1>0
<1>1. ASSUME NEW m \in Messages, OpenChat(m) \/ FindOffice(m) \/ AskHistory(m) \/ Store(m)
      PROVE  TypeOK'
  <2>1. /\ HookAt("stored") \in HookState
        /\ \A o \in OfficeOrNone : HookFiles("opened", o) \in HookState
        /\ \A o \in OfficeOrNone : HookFiles("between", o) \in HookState
        /\ \A o \in OfficeOrNone : HookFiles("file", o) \in HookState
    BY DEF HookFiles, HookAt, HookReads
  <2>2. /\ hook[m].office \in OfficeOrNone /\ chat.office \in OfficeOrNone
        /\ \A s \in Messages : rows[s].office \in OfficeOrNone
    OBVIOUS
  <2> HIDE DEF HookState
  <2>3. \E state \in HookState : MoveHook(m, state)
    BY <1>1, <2>1, <2>2 DEF OpenChat, FindOffice, AskHistory, Store
  <2>4. hook' \in [Messages -> HookState]
    BY <2>3 DEF MoveHook
  <2>5. QED
    BY <1>1, <2>4 DEF OpenChat, FindOffice, AskHistory, Store
<1>2. ASSUME NEW m \in Messages, FindSession(m) PROVE TypeOK'
  BY <1>2 DEF FindSession, MoveHook, EndHook, HookAt, HookReads
<1>3. ASSUME NEW m \in Messages, MatchTrigger(m) PROVE TypeOK'
  BY <1>3 DEF MatchTrigger, MoveHook, HookAt, HookReads
<1>4. ASSUME NEW m \in Messages, Abandon(m) PROVE TypeOK'
  <2>1. rows' \in [Messages -> Session]
    BY <1>4, TableTyped DEF Abandon, Complete
  <2>2. QED
    BY <1>4, <2>1 DEF Abandon, MoveHook, HookReads
<1>5. ASSUME NEW m \in Messages, Create(m) PROVE TypeOK'
  BY <1>5 DEF Create, Insert, EndHook, MoveHook, HookAt, HookReads, Opened
<1>6. ASSUME NEW m \in Messages, StartFirst(m) PROVE TypeOK'
  BY <1>6 DEF StartFirst, Insert, EndHook, MoveHook, HookAt, HookReads, Opened
<1>7. ASSUME NEW m \in Messages, Recover(m) PROVE TypeOK'
  BY <1>7 DEF Recover, Complete, Completed, MoveHook, HookAt, HookReads
<1>8. ASSUME NEW m \in Messages, ShowMenu(m) PROVE TypeOK'
  <2>1. PICK menu \in MenuOrNone : rows' = [rows EXCEPT ![hook[m].seen].menu = menu]
    BY <1>8 DEF ShowMenu
  <2>2. rows' \in [Messages -> Session]
    BY <2>1, TableTyped
  <2>3. QED
    BY <1>8, <2>2 DEF ShowMenu, EndHook, MoveHook, HookAt, HookReads
<1>9. ASSUME NEW m \in Messages, Finish(m) PROVE TypeOK'
  <2>1. rows' \in [Messages -> Session]
    BY <1>9, TableTyped DEF Finish, Complete
  <2>2. QED
    BY <1>9, <2>1 DEF Finish, EndHook, MoveHook, HookAt, HookReads
<1>10. ASSUME NEW m \in Messages, HandOff(m) PROVE TypeOK'
  <2>1. rows' \in [Messages -> Session]
    BY <1>10, TableTyped DEF HandOff, StartWaiting
  <2>2. QED
    BY <1>10, <2>1 DEF HandOff, EndHook, MoveHook, HookAt, HookReads
<1>11. ASSUME NEW m \in Messages, SelectOffice(m) PROVE TypeOK'
  BY <1>11 DEF SelectOffice, RouteChat, MoveHook
<1>12. ASSUME NEW m \in Messages, RouteSession(m) PROVE TypeOK'
  BY <1>12 DEF RouteSession, StartWaiting, EndHook, MoveHook, HookAt, HookReads
<1>13. ASSUME NEW m \in Messages, Ignore(m) \/ Reshow(m) \/ HookDies(m)
      PROVE  TypeOK'
  <2>1. EndHook(m) /\ UNCHANGED <<db, req, sweep, routed>>
    BY <1>13 DEF Ignore, Reshow, HookDies
  <2>2. QED
    BY <2>1 DEF EndHook, MoveHook, HookAt, HookReads
<1>14. ASSUME NEW r \in Requests, OpenClaim(r) PROVE TypeOK'
  BY <1>14 DEF OpenClaim, Begin, MoveReq, ReqAt, ReqReads, Free
<1>15. ASSUME NEW r \in Requests, Claim(r) PROVE TypeOK'
  BY <1>15 DEF Claim, Own, EndReq, MoveReq, ReqAt, ReqReads
<1>16. ASSUME NEW r \in Requests, OpenAssign(r) PROVE TypeOK'
  BY <1>16 DEF OpenAssign, Begin, MoveReq, ReqAt, ReqReads, Free
<1>17. ASSUME NEW r \in Requests, CheckClosed(r) PROVE TypeOK'
  BY <1>17 DEF CheckClosed, EndReq, MoveReq, ReqAt, ReqReads
<1>18. ASSUME NEW r \in Requests, Assign(r) PROVE TypeOK'
  BY <1>18 DEF Assign, Own, EndReq, MoveReq, ReqAt, ReqReads
<1>19. ASSUME NEW r \in Requests, OpenClose(r) PROVE TypeOK'
  BY <1>19 DEF OpenClose, Begin, MoveReq, ReqAt, ReqReads, Free
<1>20. ASSUME NEW r \in Requests, FindWaiting(r) PROVE TypeOK'
  BY <1>20 DEF FindWaiting, EndReq, MoveReq, ReqAt, ReqReads
<1>21. ASSUME NEW r \in Requests, Close(r) PROVE TypeOK'
  <2>1. rows' \in [Messages -> Session]
    BY <1>21, TableTyped DEF Close, Complete
  <2>2. QED
    BY <1>21, <2>1 DEF Close, EndReq, MoveReq, ReqAt, ReqReads
<1>22. ASSUME NEW r \in Requests, Transfer(r) PROVE TypeOK'
  BY <1>22 DEF Transfer, Begin, MoveReq, ReqAt, ReqReads, Free
<1>23. ASSUME NEW r \in Requests, TransferSession(r) PROVE TypeOK'
  <2>1. rows' \in [Messages -> Session]
    BY <1>23 DEF TransferSession
  <2>2. QED
    BY <1>23, <2>1 DEF TransferSession, EndReq, MoveReq, ReqAt, ReqReads
<1>24. ASSUME NEW r \in Requests, SelectByApi(r) PROVE TypeOK'
  BY <1>24 DEF SelectByApi, Begin, MoveReq, ReqAt, ReqReads, Free, RouteChat
<1>25. ASSUME NEW r \in Requests, RequestDies(r)
      PROVE  TypeOK'
  BY <1>25 DEF RequestDies, EndReq, MoveReq, ReqAt, ReqReads
<1>26. CASE Scan
  BY <1>26 DEF Scan
<1>27. CASE Expire
  <2>1. rows' \in [Messages -> Session]
    BY <1>27, TableTyped DEF Expire, Complete
  <2>2. QED
    BY <1>27, <2>1 DEF Expire
<1>28. CASE DeleteMenu
  BY <1>28 DEF DeleteMenu
<1>29. CASE SweepDies \/ GoesQuiet \/ Reply \/ UNCHANGED vars
  BY <1>29 DEF SweepDies, GoesQuiet, Reply, vars
<1>30. QED
  BY <1>1, <1>2, <1>3, <1>4, <1>5, <1>6, <1>7, <1>8, <1>9, <1>10, <1>11, <1>12, <1>13,
     <1>14, <1>15, <1>16, <1>17, <1>18, <1>19, <1>20, <1>21, <1>22, <1>23, <1>24, <1>25,
     <1>26, <1>27, <1>28, <1>29 DEF Next, Message, Request

\* Each message's session is created once, by the message.
LEMMA BegunOnceStep == IInv /\ [Next]_vars => BegunOnce'
<1> SUFFICES ASSUME IInv, [Next]_vars PROVE BegunOnce'
  OBVIOUS
<1>a. TypeOK /\ BegunOnce /\ SeenExists
  BY DEF IInv
<1> USE HandoffAssumption, <1>a
   DEF TypeOK, db, threads, BegunOnce, SeenExists, Session, HookState, Menus
<1>1. ASSUME NEW m \in Messages, OpenChat(m) \/ FindOffice(m) \/ AskHistory(m) \/ Store(m)
      PROVE  BegunOnce'
  BY <1>1 DEF OpenChat, FindOffice, AskHistory, Store, HookFiles, HookAt, HookReads, MoveHook, Free
<1>2. ASSUME NEW m \in Messages, Abandon(m) PROVE BegunOnce'
  BY <1>2 DEF Abandon, Complete, Completed, MoveHook, HookAt, HookReads
<1>3. ASSUME NEW m \in Messages, Create(m) PROVE BegunOnce'
  BY <1>3 DEF Create, Insert, EndHook, MoveHook, HookAt, HookReads, Opened
<1>4. ASSUME NEW m \in Messages, StartFirst(m) PROVE BegunOnce'
  BY <1>4 DEF StartFirst, Insert, EndHook, MoveHook, HookAt, HookReads, Opened
<1>5. ASSUME NEW m \in Messages, Recover(m) PROVE BegunOnce'
  BY <1>5 DEF Recover, Complete, Completed, MoveHook, HookAt, HookReads
<1>6. ASSUME NEW m \in Messages, ShowMenu(m) PROVE BegunOnce'
  BY <1>6 DEF ShowMenu, AtItem, EndHook, MoveHook, HookAt, HookReads
<1>7. ASSUME NEW m \in Messages, Finish(m) PROVE BegunOnce'
  BY <1>7 DEF Finish, AtItem, Complete, Completed, EndHook, MoveHook, HookAt, HookReads
<1>8. ASSUME NEW m \in Messages, HandOff(m) PROVE BegunOnce'
  BY <1>8 DEF HandOff, AtItem, StartWaiting, EndHook, MoveHook, HookAt, HookReads
<1>9. ASSUME NEW m \in Messages, RouteSession(m) PROVE BegunOnce'
  BY <1>9 DEF RouteSession, StartWaiting, EndHook, MoveHook, HookAt, HookReads
<1>10. ASSUME NEW m \in Messages, Ignore(m) \/ FindSession(m) \/ MatchTrigger(m) \/ Reshow(m) \/
             SelectOffice(m) \/ HookDies(m)
      PROVE  BegunOnce'
  BY <1>10 DEF Ignore, EndHook, MoveHook, HookAt, HookReads, FindSession, MatchTrigger,
     Reshow, SelectOffice, RouteChat, HookDies
<1>11. ASSUME NEW r \in Requests, Close(r) PROVE BegunOnce'
  BY <1>11 DEF Close, Complete, Completed, EndReq, MoveReq, ReqAt, ReqReads
<1>12. ASSUME NEW r \in Requests, TransferSession(r) PROVE BegunOnce'
  BY <1>12 DEF TransferSession, EndReq, MoveReq, ReqAt, ReqReads
<1>13. ASSUME NEW r \in Requests, OpenClaim(r) \/ Claim(r) \/ OpenAssign(r) \/ CheckClosed(r) \/
             Assign(r) \/ OpenClose(r) \/ FindWaiting(r) \/ Transfer(r) \/ SelectByApi(r) \/
             RequestDies(r)
      PROVE  BegunOnce'
  BY <1>13 DEF OpenClaim, Begin, MoveReq, ReqAt, ReqReads, Free, Claim, Own, EndReq,
     OpenAssign, CheckClosed, Assign, OpenClose, FindWaiting, Transfer, SelectByApi,
     RouteChat, RequestDies
<1>14. CASE Expire
  BY <1>14 DEF Expire, Complete, Completed
<1>15. CASE DeleteMenu
  BY <1>15 DEF DeleteMenu
<1>16. CASE Scan \/ SweepDies \/ GoesQuiet \/ Reply \/ UNCHANGED vars
  BY <1>16 DEF Scan, SweepDies, GoesQuiet, Reply, vars
<1>17. QED
  BY <1>1, <1>2, <1>3, <1>4, <1>5, <1>6, <1>7, <1>8, <1>9, <1>10, <1>11, <1>12, <1>13,
     <1>14, <1>15, <1>16 DEF Next, Message, Request

\* Rows stay; what was waiting is waiting or completed.
LEMMA SeenExistsStep == IInv /\ [Next]_vars => SeenExists'
<1> SUFFICES ASSUME IInv, [Next]_vars PROVE SeenExists'
  OBVIOUS
<1>a. TypeOK /\ BegunOnce /\ SeenExists
  BY DEF IInv
<1> USE HandoffAssumption, <1>a
   DEF TypeOK, db, threads, BegunOnce, SeenExists, Session, HookState, ReqState, Menus, Live,
       Waiting, NoneLive
<1>1. ASSUME NEW m \in Messages, FindSession(m) PROVE SeenExists'
  <2>1. CASE NoneLive /\ MoveHook(m, HookAt("found"))
    BY <1>1, <2>1 DEF FindSession, MoveHook, EndHook, HookAt, HookReads
  <2>2. ASSUME NEW s \in Messages, rows[s].st = "active",
               MoveHook(m, HookReads("found", s, rows[s].menu))
        PROVE  SeenExists'
    BY <1>1, <2>2 DEF FindSession, MoveHook, HookReads
  <2>3. CASE EndHook(m)
    BY <1>1, <2>3 DEF FindSession, MoveHook, EndHook, HookAt, HookReads
  <2>4. QED
    BY <1>1, <2>1, <2>2, <2>3 DEF FindSession
<1>2. ASSUME NEW m \in Messages, MatchTrigger(m) PROVE SeenExists'
  <2>1. /\ UNCHANGED <<rows, req, sweep>>
        /\ \A n \in Messages \ {m} : hook'[n] = hook[n]
        /\ \/ hook'[m].pc = "create"
           \/ hook'[m].pc = "abandon" /\ \E s \in Messages : hook'[m].seen = s /\ Live(s)
    BY <1>2 DEF MatchTrigger, MoveHook, HookAt, HookReads
  <2>2. QED
    BY <2>1
<1>3. ASSUME NEW m \in Messages, Abandon(m) PROVE SeenExists'
  BY <1>3 DEF Abandon, Complete, Completed, MoveHook, HookAt, HookReads
<1>4. ASSUME NEW m \in Messages, Create(m) PROVE SeenExists'
  BY <1>4 DEF Create, Insert, EndHook, MoveHook, HookAt, HookReads, Opened
<1>5. ASSUME NEW m \in Messages, StartFirst(m) PROVE SeenExists'
  BY <1>5 DEF StartFirst, Insert, EndHook, MoveHook, HookAt, HookReads, Opened
<1>6. ASSUME NEW m \in Messages, Recover(m) PROVE SeenExists'
  BY <1>6 DEF Recover, Complete, Completed, MoveHook, HookAt, HookReads
<1>7. ASSUME NEW m \in Messages, ShowMenu(m) PROVE SeenExists'
  BY <1>7 DEF ShowMenu, AtItem, EndHook, MoveHook, HookAt, HookReads
<1>8. ASSUME NEW m \in Messages, Finish(m) PROVE SeenExists'
  BY <1>8 DEF Finish, AtItem, Complete, Completed, EndHook, MoveHook, HookAt, HookReads
<1>9. ASSUME NEW m \in Messages, HandOff(m) PROVE SeenExists'
  BY <1>9 DEF HandOff, AtItem, StartWaiting, EndHook, MoveHook, HookAt, HookReads
<1>10. ASSUME NEW m \in Messages, SelectOffice(m) PROVE SeenExists'
  BY <1>10 DEF SelectOffice, RouteChat, MoveHook
<1>11. ASSUME NEW m \in Messages, RouteSession(m) PROVE SeenExists'
  BY <1>11 DEF RouteSession, StartWaiting, EndHook, MoveHook, HookAt, HookReads
<1>12. ASSUME NEW m \in Messages, OpenChat(m) \/ FindOffice(m) \/ AskHistory(m) \/ Store(m) \/
             Ignore(m) \/ Reshow(m) \/ HookDies(m)
      PROVE  SeenExists'
  <2>1. /\ UNCHANGED <<rows, req, sweep>>
        /\ \A n \in Messages \ {m} : hook'[n] = hook[n]
        /\ hook'[m].pc \in {"opened", "between", "file", "stored", "over"}
    BY <1>12 DEF OpenChat, FindOffice, AskHistory, Store, HookFiles, HookAt, HookReads, MoveHook,
       Ignore, EndHook, Reshow, HookDies
  <2>2. QED
    BY <2>1
<1>13. ASSUME NEW r \in Requests, FindWaiting(r) PROVE SeenExists'
  BY <1>13 DEF FindWaiting, EndReq, MoveReq, ReqAt, ReqReads
<1>14. ASSUME NEW r \in Requests, Close(r) PROVE SeenExists'
  BY <1>14 DEF Close, Complete, Completed, EndReq, MoveReq, ReqAt, ReqReads
<1>15. ASSUME NEW r \in Requests, TransferSession(r) PROVE SeenExists'
  BY <1>15 DEF TransferSession, EndReq, MoveReq, ReqAt, ReqReads
<1>16. ASSUME NEW r \in Requests, OpenClaim(r) \/ Claim(r) \/ OpenAssign(r) \/ CheckClosed(r) \/
             Assign(r) \/ OpenClose(r) \/ Transfer(r) \/ SelectByApi(r) \/ RequestDies(r)
      PROVE  SeenExists'
  BY <1>16 DEF OpenClaim, Begin, MoveReq, ReqAt, ReqReads, Free, Claim, Own, EndReq,
     OpenAssign, CheckClosed, Assign, OpenClose, Transfer, SelectByApi, RouteChat,
     RequestDies
<1>17. CASE Scan
  BY <1>17 DEF Scan
<1>18. CASE Expire
  BY <1>18 DEF Expire, Complete, Completed
<1>19. CASE DeleteMenu
  BY <1>19 DEF DeleteMenu
<1>20. CASE SweepDies \/ GoesQuiet \/ Reply \/ UNCHANGED vars
  BY <1>20 DEF SweepDies, GoesQuiet, Reply, vars
<1>21. QED
  BY <1>1, <1>2, <1>3, <1>4, <1>5, <1>6, <1>7, <1>8, <1>9, <1>10, <1>11, <1>12, <1>13,
     <1>14, <1>15, <1>16, <1>17, <1>18, <1>19, <1>20 DEF Next, Message, Request

\* Only becoming a handoff, or moving one, gives a session an Office.
LEMMA OnlyHandoffsAreRoutedStep == IInv /\ [Next]_vars => OnlyHandoffsAreRouted'
<1> SUFFICES ASSUME IInv, [Next]_vars PROVE OnlyHandoffsAreRouted'
  OBVIOUS
<1>a. TypeOK /\ SeenExists /\ OnlyHandoffsAreRouted
  BY DEF IInv
<1> USE HandoffAssumption, <1>a
   DEF TypeOK, db, threads, SeenExists, OnlyHandoffsAreRouted, Session, HookState, Menus,
       Waiting
<1>1. ASSUME NEW m \in Messages, Abandon(m) PROVE OnlyHandoffsAreRouted'
  BY <1>1 DEF Abandon, Complete, Completed, MoveHook, HookAt, HookReads
<1>2. ASSUME NEW m \in Messages, Create(m) PROVE OnlyHandoffsAreRouted'
  BY <1>2 DEF Create, Insert, EndHook, MoveHook, HookAt, HookReads, Opened
<1>3. ASSUME NEW m \in Messages, StartFirst(m) PROVE OnlyHandoffsAreRouted'
  BY <1>3 DEF StartFirst, Insert, EndHook, MoveHook, HookAt, HookReads, Opened
<1>4. ASSUME NEW m \in Messages, Recover(m) PROVE OnlyHandoffsAreRouted'
  BY <1>4 DEF Recover, Complete, Completed, MoveHook, HookAt, HookReads
<1>5. ASSUME NEW m \in Messages, ShowMenu(m) PROVE OnlyHandoffsAreRouted'
  BY <1>5 DEF ShowMenu, AtItem, EndHook, MoveHook, HookAt, HookReads
<1>6. ASSUME NEW m \in Messages, Finish(m) PROVE OnlyHandoffsAreRouted'
  BY <1>6 DEF Finish, AtItem, Complete, Completed, EndHook, MoveHook, HookAt, HookReads
<1>7. ASSUME NEW m \in Messages, HandOff(m) PROVE OnlyHandoffsAreRouted'
  BY <1>7 DEF HandOff, AtItem, StartWaiting, EndHook, MoveHook, HookAt, HookReads
<1>8. ASSUME NEW m \in Messages, RouteSession(m) PROVE OnlyHandoffsAreRouted'
  BY <1>8 DEF RouteSession, StartWaiting, EndHook, MoveHook, HookAt, HookReads
<1>9. ASSUME NEW m \in Messages, OpenChat(m) \/ FindOffice(m) \/ AskHistory(m) \/ Store(m) \/
             Ignore(m) \/ FindSession(m) \/ MatchTrigger(m) \/ Reshow(m) \/ SelectOffice(m) \/ HookDies(m)
      PROVE  OnlyHandoffsAreRouted'
  BY <1>9 DEF OpenChat, FindOffice, AskHistory, Store, HookFiles, HookAt, HookReads, MoveHook,
     Free, Ignore, EndHook, FindSession,
     MatchTrigger, Reshow, SelectOffice, RouteChat, HookDies
<1>10. ASSUME NEW r \in Requests, Close(r) PROVE OnlyHandoffsAreRouted'
  BY <1>10 DEF Close, Complete, Completed, EndReq, MoveReq, ReqAt, ReqReads
<1>11. ASSUME NEW r \in Requests, TransferSession(r) PROVE OnlyHandoffsAreRouted'
  BY <1>11 DEF TransferSession, EndReq, MoveReq, ReqAt, ReqReads
<1>12. ASSUME NEW r \in Requests, OpenClaim(r) \/ Claim(r) \/ OpenAssign(r) \/ CheckClosed(r) \/
             Assign(r) \/ OpenClose(r) \/ FindWaiting(r) \/ Transfer(r) \/ SelectByApi(r) \/
             RequestDies(r)
      PROVE  OnlyHandoffsAreRouted'
  BY <1>12 DEF OpenClaim, Begin, MoveReq, ReqAt, ReqReads, Free, Claim, Own, EndReq,
     OpenAssign, CheckClosed, Assign, OpenClose, FindWaiting, Transfer, SelectByApi,
     RouteChat, RequestDies
<1>13. CASE Expire
  BY <1>13 DEF Expire, Complete, Completed
<1>14. CASE DeleteMenu
  BY <1>14 DEF DeleteMenu
<1>15. CASE Scan \/ SweepDies \/ GoesQuiet \/ Reply \/ UNCHANGED vars
  BY <1>15 DEF Scan, SweepDies, GoesQuiet, Reply, vars
<1>16. QED
  BY <1>1, <1>2, <1>3, <1>4, <1>5, <1>6, <1>7, <1>8, <1>9, <1>10, <1>11, <1>12, <1>13,
     <1>14, <1>15 DEF Next, Message, Request

\* The chat is routed before its session.
LEMMA RoutedFirstStep == IInv /\ [Next]_vars => RoutedFirst'
<1> SUFFICES ASSUME IInv, [Next]_vars PROVE RoutedFirst'
  OBVIOUS
<1>a. TypeOK /\ RoutedFirst
  BY DEF IInv
<1> USE HandoffAssumption, <1>a
   DEF TypeOK, db, threads, RoutedFirst, SessionFollowsChat, Session, HookState, ReqState,
       Waiting
<1>1. ASSUME NEW m \in Messages, Abandon(m) PROVE RoutedFirst'
  BY <1>1 DEF Abandon, Complete, Completed, MoveHook, HookAt, HookReads
<1>2. ASSUME NEW m \in Messages, Create(m) PROVE RoutedFirst'
  BY <1>2 DEF Create, Insert, EndHook, MoveHook, HookAt, HookReads, Opened
<1>3. ASSUME NEW m \in Messages, StartFirst(m) PROVE RoutedFirst'
  BY <1>3 DEF StartFirst, Insert, EndHook, MoveHook, HookAt, HookReads, Opened
<1>4. ASSUME NEW m \in Messages, Recover(m) PROVE RoutedFirst'
  BY <1>4 DEF Recover, Complete, Completed, MoveHook, HookAt, HookReads
<1>5. ASSUME NEW m \in Messages, ShowMenu(m) PROVE RoutedFirst'
  BY <1>5 DEF ShowMenu, AtItem, EndHook, MoveHook, HookAt, HookReads
<1>6. ASSUME NEW m \in Messages, Finish(m) PROVE RoutedFirst'
  BY <1>6 DEF Finish, AtItem, Complete, Completed, EndHook, MoveHook, HookAt, HookReads
<1>7. ASSUME NEW m \in Messages, HandOff(m) PROVE RoutedFirst'
  BY <1>7 DEF HandOff, AtItem, StartWaiting, EndHook, MoveHook, HookAt, HookReads
<1>8. ASSUME NEW m \in Messages, SelectOffice(m) PROVE RoutedFirst'
  BY <1>8 DEF SelectOffice, RouteChat, MoveHook
<1>9. ASSUME NEW m \in Messages, RouteSession(m) PROVE RoutedFirst'
  BY <1>9 DEF RouteSession, StartWaiting, EndHook, MoveHook, HookAt, HookReads
<1>10. ASSUME NEW m \in Messages, OpenChat(m) \/ FindOffice(m) \/ AskHistory(m) \/ Store(m) \/
             Ignore(m) \/ FindSession(m) \/ MatchTrigger(m) \/ Reshow(m) \/ HookDies(m)
      PROVE  RoutedFirst'
  <2>1. /\ UNCHANGED <<rows, req, routed>>
        /\ \A n \in Messages \ {m} : hook'[n] = hook[n]
        /\ hook'[m].pc # "route"
    BY <1>10 DEF OpenChat, FindOffice, AskHistory, Store, HookFiles, HookAt, HookReads, MoveHook,
       Ignore, EndHook, FindSession, MatchTrigger, Reshow, HookDies
  <2>2. QED
    BY <2>1
<1>11. ASSUME NEW r \in Requests, Close(r) PROVE RoutedFirst'
  BY <1>11 DEF Close, Complete, Completed, EndReq, MoveReq, ReqAt, ReqReads
<1>12. ASSUME NEW r \in Requests, Transfer(r) PROVE RoutedFirst'
  BY <1>12 DEF Transfer, Begin, MoveReq, ReqAt, ReqReads, Free
<1>13. ASSUME NEW r \in Requests, TransferSession(r) PROVE RoutedFirst'
  BY <1>13 DEF TransferSession, EndReq, MoveReq, ReqAt, ReqReads
<1>14. ASSUME NEW r \in Requests, SelectByApi(r) PROVE RoutedFirst'
  BY <1>14 DEF SelectByApi, Begin, MoveReq, ReqAt, ReqReads, Free, RouteChat
<1>15. ASSUME NEW r \in Requests, OpenClaim(r) \/ Claim(r) \/ OpenAssign(r) \/ CheckClosed(r) \/
             Assign(r) \/ OpenClose(r) \/ FindWaiting(r) \/ RequestDies(r)
      PROVE  RoutedFirst'
  BY <1>15 DEF OpenClaim, Begin, MoveReq, ReqAt, ReqReads, Free, Claim, Own, EndReq,
     OpenAssign, CheckClosed, Assign, OpenClose, FindWaiting, RequestDies
<1>16. CASE Expire
  BY <1>16 DEF Expire, Complete, Completed
<1>17. CASE DeleteMenu
  BY <1>17 DEF DeleteMenu
<1>18. CASE Scan \/ SweepDies \/ GoesQuiet \/ Reply \/ UNCHANGED vars
  BY <1>18 DEF Scan, SweepDies, GoesQuiet, Reply, vars
<1>19. QED
  BY <1>1, <1>2, <1>3, <1>4, <1>5, <1>6, <1>7, <1>8, <1>9, <1>10, <1>11, <1>12, <1>13,
     <1>14, <1>15, <1>16, <1>17, <1>18 DEF Next, Message, Request

\* The unique constraint guards each write that makes a session live.
LEMMA OneLiveSessionStep == IInv /\ [Next]_vars => OneLiveSession'
<1> SUFFICES ASSUME IInv, [Next]_vars PROVE OneLiveSession'
  OBVIOUS
<1>a. TypeOK /\ OneLiveSession /\ SeenExists /\ BegunOnce
  BY DEF IInv
<1> USE HandoffAssumption, <1>a
   DEF TypeOK, db, threads, OneLiveSession, SeenExists, BegunOnce, Session, HookState, Menus,
       Live, Waiting, NoneLive, Unrivalled
<1>1. ASSUME NEW m \in Messages, Abandon(m) PROVE OneLiveSession'
  BY <1>1 DEF Abandon, Complete, Completed, MoveHook, HookAt, HookReads
<1>2. ASSUME NEW m \in Messages, Create(m) PROVE OneLiveSession'
  BY <1>2 DEF Create, Insert, EndHook, MoveHook, HookAt, HookReads, Opened
<1>3. ASSUME NEW m \in Messages, StartFirst(m) PROVE OneLiveSession'
  BY <1>3 DEF StartFirst, Insert, EndHook, MoveHook, HookAt, HookReads, Opened
<1>4. ASSUME NEW m \in Messages, Recover(m) PROVE OneLiveSession'
  BY <1>4 DEF Recover, Complete, Completed, MoveHook, HookAt, HookReads
<1>5. ASSUME NEW m \in Messages, ShowMenu(m) PROVE OneLiveSession'
  BY <1>5 DEF ShowMenu, AtItem, EndHook, MoveHook, HookAt, HookReads
<1>6. ASSUME NEW m \in Messages, Finish(m) PROVE OneLiveSession'
  BY <1>6 DEF Finish, AtItem, Complete, Completed, EndHook, MoveHook, HookAt, HookReads
<1>7. ASSUME NEW m \in Messages, HandOff(m) PROVE OneLiveSession'
  BY <1>7 DEF HandOff, AtItem, StartWaiting, EndHook, MoveHook, HookAt, HookReads
<1>8. ASSUME NEW m \in Messages, RouteSession(m) PROVE OneLiveSession'
  BY <1>8 DEF RouteSession, StartWaiting, EndHook, MoveHook, HookAt, HookReads
<1>9. ASSUME NEW m \in Messages, OpenChat(m) \/ FindOffice(m) \/ AskHistory(m) \/ Store(m) \/
             Ignore(m) \/ FindSession(m) \/ MatchTrigger(m) \/ Reshow(m) \/ SelectOffice(m) \/ HookDies(m)
      PROVE  OneLiveSession'
  BY <1>9 DEF OpenChat, FindOffice, AskHistory, Store, HookFiles, HookAt, HookReads, MoveHook,
     Free, Ignore, EndHook, FindSession,
     MatchTrigger, Reshow, SelectOffice, RouteChat, HookDies
<1>10. ASSUME NEW r \in Requests, Close(r) PROVE OneLiveSession'
  BY <1>10 DEF Close, Complete, Completed, EndReq, MoveReq, ReqAt, ReqReads
<1>11. ASSUME NEW r \in Requests, TransferSession(r) PROVE OneLiveSession'
  BY <1>11 DEF TransferSession, EndReq, MoveReq, ReqAt, ReqReads
<1>12. ASSUME NEW r \in Requests, OpenClaim(r) \/ Claim(r) \/ OpenAssign(r) \/ CheckClosed(r) \/
             Assign(r) \/ OpenClose(r) \/ FindWaiting(r) \/ Transfer(r) \/ SelectByApi(r) \/
             RequestDies(r)
      PROVE  OneLiveSession'
  BY <1>12 DEF OpenClaim, Begin, MoveReq, ReqAt, ReqReads, Free, Claim, Own, EndReq,
     OpenAssign, CheckClosed, Assign, OpenClose, FindWaiting, Transfer, SelectByApi,
     RouteChat, RequestDies
<1>13. CASE Expire
  BY <1>13 DEF Expire, Complete, Completed
<1>14. CASE DeleteMenu
  BY <1>14 DEF DeleteMenu
<1>15. CASE Scan \/ SweepDies \/ GoesQuiet \/ Reply \/ UNCHANGED vars
  BY <1>15 DEF Scan, SweepDies, GoesQuiet, Reply, vars
<1>16. QED
  BY <1>1, <1>2, <1>3, <1>4, <1>5, <1>6, <1>7, <1>8, <1>9, <1>10, <1>11, <1>12, <1>13,
     <1>14, <1>15 DEF Next, Message, Request

\* One worker runs one thread.
LEMMA OneBusyStep == IInv /\ [Next]_vars => OneBusy'
<1> SUFFICES ASSUME IInv, [Next]_vars PROVE OneBusy'
  OBVIOUS
<1>a. TypeOK /\ OneBusy
  BY DEF IInv
<1> USE HandoffAssumption, <1>a
   DEF TypeOK, db, threads, OneBusy, HookBusy, ReqBusy, HookState, ReqState
<1>1. ASSUME NEW m \in Messages, OpenChat(m) \/ FindOffice(m) \/ AskHistory(m) \/ Store(m)
      PROVE  OneBusy'
  BY <1>1 DEF OpenChat, FindOffice, AskHistory, Store, HookFiles, HookAt, HookReads, MoveHook, Free
<1>2. ASSUME NEW m \in Messages, Ignore(m) PROVE OneBusy'
  BY <1>2 DEF Ignore, EndHook, MoveHook, HookAt, HookReads
<1>3. ASSUME NEW m \in Messages, FindSession(m) PROVE OneBusy'
  BY <1>3 DEF FindSession, MoveHook, EndHook, HookAt, HookReads
<1>4. ASSUME NEW m \in Messages, MatchTrigger(m) PROVE OneBusy'
  BY <1>4 DEF MatchTrigger, MoveHook, HookAt, HookReads
<1>5. ASSUME NEW m \in Messages, Abandon(m) PROVE OneBusy'
  BY <1>5 DEF Abandon, Complete, Completed, MoveHook, HookAt, HookReads
<1>6. ASSUME NEW m \in Messages, Create(m) PROVE OneBusy'
  BY <1>6 DEF Create, Insert, EndHook, MoveHook, HookAt, HookReads, Opened
<1>7. ASSUME NEW m \in Messages, StartFirst(m) PROVE OneBusy'
  BY <1>7 DEF StartFirst, Insert, EndHook, MoveHook, HookAt, HookReads, Opened
<1>8. ASSUME NEW m \in Messages, Recover(m) PROVE OneBusy'
  BY <1>8 DEF Recover, Complete, Completed, MoveHook, HookAt, HookReads
<1>9. ASSUME NEW m \in Messages, Reshow(m) PROVE OneBusy'
  BY <1>9 DEF Reshow, EndHook, MoveHook, HookAt, HookReads
<1>10. ASSUME NEW m \in Messages, ShowMenu(m) PROVE OneBusy'
  BY <1>10 DEF ShowMenu, AtItem, EndHook, MoveHook, HookAt, HookReads
<1>11. ASSUME NEW m \in Messages, Finish(m) PROVE OneBusy'
  BY <1>11 DEF Finish, AtItem, Complete, Completed, EndHook, MoveHook, HookAt, HookReads
<1>12. ASSUME NEW m \in Messages, HandOff(m) PROVE OneBusy'
  BY <1>12 DEF HandOff, AtItem, StartWaiting, EndHook, MoveHook, HookAt, HookReads
<1>13. ASSUME NEW m \in Messages, SelectOffice(m) PROVE OneBusy'
  BY <1>13 DEF SelectOffice, RouteChat, MoveHook
<1>14. ASSUME NEW m \in Messages, RouteSession(m) PROVE OneBusy'
  BY <1>14 DEF RouteSession, StartWaiting, EndHook, MoveHook, HookAt, HookReads
<1>15. ASSUME NEW m \in Messages, HookDies(m) PROVE OneBusy'
  BY <1>15 DEF HookDies, EndHook, MoveHook, HookAt, HookReads
<1>16. ASSUME NEW r \in Requests, OpenClaim(r) PROVE OneBusy'
  BY <1>16 DEF OpenClaim, Begin, MoveReq, ReqAt, ReqReads, Free
<1>17. ASSUME NEW r \in Requests, Claim(r) PROVE OneBusy'
  BY <1>17 DEF Claim, Own, EndReq, MoveReq, ReqAt, ReqReads
<1>18. ASSUME NEW r \in Requests, OpenAssign(r) PROVE OneBusy'
  BY <1>18 DEF OpenAssign, Begin, MoveReq, ReqAt, ReqReads, Free
<1>19. ASSUME NEW r \in Requests, CheckClosed(r) PROVE OneBusy'
  BY <1>19 DEF CheckClosed, EndReq, MoveReq, ReqAt, ReqReads
<1>20. ASSUME NEW r \in Requests, Assign(r) PROVE OneBusy'
  BY <1>20 DEF Assign, Own, EndReq, MoveReq, ReqAt, ReqReads
<1>21. ASSUME NEW r \in Requests, OpenClose(r) PROVE OneBusy'
  BY <1>21 DEF OpenClose, Begin, MoveReq, ReqAt, ReqReads, Free
<1>22. ASSUME NEW r \in Requests, FindWaiting(r) PROVE OneBusy'
  BY <1>22 DEF FindWaiting, EndReq, MoveReq, ReqAt, ReqReads
<1>23. ASSUME NEW r \in Requests, Close(r) PROVE OneBusy'
  BY <1>23 DEF Close, Complete, Completed, EndReq, MoveReq, ReqAt, ReqReads
<1>24. ASSUME NEW r \in Requests, Transfer(r) PROVE OneBusy'
  BY <1>24 DEF Transfer, Begin, MoveReq, ReqAt, ReqReads, Free
<1>25. ASSUME NEW r \in Requests, TransferSession(r) PROVE OneBusy'
  BY <1>25 DEF TransferSession, EndReq, MoveReq, ReqAt, ReqReads
<1>26. ASSUME NEW r \in Requests, SelectByApi(r) PROVE OneBusy'
  BY <1>26 DEF SelectByApi, Begin, MoveReq, ReqAt, ReqReads, Free, RouteChat
<1>27. ASSUME NEW r \in Requests, RequestDies(r) PROVE OneBusy'
  BY <1>27 DEF RequestDies, EndReq, MoveReq, ReqAt, ReqReads
<1>28. CASE Scan \/ Expire \/ SweepDies \/ GoesQuiet \/ Reply \/ DeleteMenu \/ UNCHANGED vars
  BY <1>28 DEF Scan, Expire, Complete, Completed, SweepDies, GoesQuiet, Reply, DeleteMenu,
     vars
<1>29. QED
  BY <1>1, <1>2, <1>3, <1>4, <1>5, <1>6, <1>7, <1>8, <1>9, <1>10, <1>11, <1>12, <1>13,
     <1>14, <1>15, <1>16, <1>17, <1>18, <1>19, <1>20, <1>21, <1>22, <1>23, <1>24, <1>25,
     <1>26, <1>27, <1>28 DEF Next, Message, Request

\* With one worker nobody moves the session a webhook thread read.
LEMMA SessionHoldsStep == IInv /\ [Next]_vars => SessionHolds'
<1> SUFFICES ASSUME IInv, [Next]_vars PROVE SessionHolds'
  OBVIOUS
<1>a. TypeOK /\ BegunOnce /\ SeenExists /\ OneLiveSession /\ OneBusy /\ SessionHolds
  BY DEF IInv
<1> USE HandoffAssumption, <1>a
   DEF TypeOK, db, threads, BegunOnce, SeenExists, OneLiveSession, OneBusy, SessionHolds,
       HookBusy, ReqBusy, Session, HookState, Menus, Live, Waiting, NoneLive, Unrivalled
<1>1. ASSUME NEW m \in Messages, FindSession(m) PROVE SessionHolds'
  BY <1>1 DEF FindSession, MoveHook, EndHook, HookAt, HookReads
<1>2. ASSUME NEW m \in Messages, MatchTrigger(m) PROVE SessionHolds'
  BY <1>2 DEF MatchTrigger, MoveHook, HookAt, HookReads
<1>3. ASSUME NEW m \in Messages, Abandon(m) PROVE SessionHolds'
  BY <1>3 DEF Abandon, Complete, Completed, MoveHook, HookAt, HookReads
<1>4. ASSUME NEW m \in Messages, Create(m) PROVE SessionHolds'
  BY <1>4 DEF Create, Insert, EndHook, MoveHook, HookAt, HookReads, Opened
<1>5. ASSUME NEW m \in Messages, StartFirst(m) PROVE SessionHolds'
  BY <1>5 DEF StartFirst, Insert, EndHook, MoveHook, HookAt, HookReads, Opened
<1>6. ASSUME NEW m \in Messages, Recover(m) PROVE SessionHolds'
  BY <1>6 DEF Recover, Complete, Completed, MoveHook, HookAt, HookReads
<1>7. ASSUME NEW m \in Messages, ShowMenu(m) PROVE SessionHolds'
  BY <1>7 DEF ShowMenu, AtItem, EndHook, MoveHook, HookAt, HookReads
<1>8. ASSUME NEW m \in Messages, Finish(m) PROVE SessionHolds'
  BY <1>8 DEF Finish, AtItem, Complete, Completed, EndHook, MoveHook, HookAt, HookReads
<1>9. ASSUME NEW m \in Messages, HandOff(m) PROVE SessionHolds'
  BY <1>9 DEF HandOff, AtItem, StartWaiting, EndHook, MoveHook, HookAt, HookReads
<1>10. ASSUME NEW m \in Messages, SelectOffice(m) PROVE SessionHolds'
  BY <1>10 DEF SelectOffice, RouteChat, MoveHook
<1>11. ASSUME NEW m \in Messages, RouteSession(m) PROVE SessionHolds'
  BY <1>11 DEF RouteSession, StartWaiting, EndHook, MoveHook, HookAt, HookReads
<1>12. ASSUME NEW m \in Messages, OpenChat(m) \/ FindOffice(m) \/ AskHistory(m) \/ Store(m) \/
             Ignore(m) \/ Reshow(m) \/ HookDies(m)
      PROVE  SessionHolds'
  BY <1>12 DEF OpenChat, FindOffice, AskHistory, Store, HookFiles, HookAt, HookReads, MoveHook,
     Free, Ignore, EndHook, Reshow, HookDies
<1>13. ASSUME NEW r \in Requests, Close(r) PROVE SessionHolds'
  BY <1>13 DEF Close, Complete, Completed, EndReq, MoveReq, ReqAt, ReqReads
<1>14. ASSUME NEW r \in Requests, TransferSession(r) PROVE SessionHolds'
  BY <1>14 DEF TransferSession, EndReq, MoveReq, ReqAt, ReqReads
<1>15. ASSUME NEW r \in Requests, OpenClaim(r) \/ Claim(r) \/ OpenAssign(r) \/ CheckClosed(r) \/
             Assign(r) \/ OpenClose(r) \/ FindWaiting(r) \/ Transfer(r) \/ SelectByApi(r) \/
             RequestDies(r)
      PROVE  SessionHolds'
  BY <1>15 DEF OpenClaim, Begin, MoveReq, ReqAt, ReqReads, Free, Claim, Own, EndReq,
     OpenAssign, CheckClosed, Assign, OpenClose, FindWaiting, Transfer, SelectByApi,
     RouteChat, RequestDies
<1>16. CASE Expire
  BY <1>16 DEF Expire, Complete, Completed
<1>17. CASE DeleteMenu
  BY <1>17 DEF DeleteMenu
<1>18. CASE Scan \/ SweepDies \/ GoesQuiet \/ Reply \/ UNCHANGED vars
  BY <1>18 DEF Scan, SweepDies, GoesQuiet, Reply, vars
<1>19. QED
  BY <1>1, <1>2, <1>3, <1>4, <1>5, <1>6, <1>7, <1>8, <1>9, <1>10, <1>11, <1>12, <1>13,
     <1>14, <1>15, <1>16, <1>17, <1>18 DEF Next, Message, Request

\* With one worker nobody moves the chat a request read.
LEMMA ChatHoldsStep == IInv /\ [Next]_vars => ChatHolds'
<1> SUFFICES ASSUME IInv, [Next]_vars PROVE ChatHolds'
  OBVIOUS
<1>a. TypeOK /\ SeenExists /\ OneBusy /\ ChatHolds
  BY DEF IInv
<1> USE HandoffAssumption, <1>a
   DEF TypeOK, db, threads, SeenExists, OneBusy, ChatHolds, OwnerBelongs, HookBusy, ReqBusy,
       Session, HookState, ReqState, Menus, Waiting, UserOrNone, Manages, MayClaim,
       MayHandle, MayReceive
<1>1. ASSUME NEW m \in Messages, Abandon(m) PROVE ChatHolds'
  BY <1>1 DEF Abandon, Complete, Completed, MoveHook, HookAt, HookReads
<1>2. ASSUME NEW m \in Messages, Create(m) PROVE ChatHolds'
  BY <1>2 DEF Create, Insert, EndHook, MoveHook, HookAt, HookReads, Opened
<1>3. ASSUME NEW m \in Messages, StartFirst(m) PROVE ChatHolds'
  BY <1>3 DEF StartFirst, Insert, EndHook, MoveHook, HookAt, HookReads, Opened
<1>4. ASSUME NEW m \in Messages, Recover(m) PROVE ChatHolds'
  BY <1>4 DEF Recover, Complete, Completed, MoveHook, HookAt, HookReads
<1>5. ASSUME NEW m \in Messages, ShowMenu(m) PROVE ChatHolds'
  BY <1>5 DEF ShowMenu, AtItem, EndHook, MoveHook, HookAt, HookReads
<1>6. ASSUME NEW m \in Messages, Finish(m) PROVE ChatHolds'
  BY <1>6 DEF Finish, AtItem, Complete, Completed, EndHook, MoveHook, HookAt, HookReads
<1>7. ASSUME NEW m \in Messages, HandOff(m) PROVE ChatHolds'
  BY <1>7 DEF HandOff, AtItem, StartWaiting, EndHook, MoveHook, HookAt, HookReads
<1>8. ASSUME NEW m \in Messages, SelectOffice(m) PROVE ChatHolds'
  BY <1>8 DEF SelectOffice, RouteChat, MoveHook
<1>9. ASSUME NEW m \in Messages, RouteSession(m) PROVE ChatHolds'
  BY <1>9 DEF RouteSession, StartWaiting, EndHook, MoveHook, HookAt, HookReads
<1>10. ASSUME NEW m \in Messages, OpenChat(m) \/ FindOffice(m) \/ AskHistory(m) \/ Store(m) \/
             Ignore(m) \/ FindSession(m) \/ MatchTrigger(m) \/ Reshow(m) \/ HookDies(m)
      PROVE  ChatHolds'
  BY <1>10 DEF OpenChat, FindOffice, AskHistory, Store, HookFiles, HookAt, HookReads, MoveHook,
     Free, Ignore, EndHook, FindSession,
     MatchTrigger, Reshow, HookDies
<1>11. ASSUME NEW r \in Requests, OpenClaim(r) PROVE ChatHolds'
  BY <1>11 DEF OpenClaim, Begin, MoveReq, ReqAt, ReqReads, Free
<1>12. ASSUME NEW r \in Requests, Claim(r) PROVE ChatHolds'
  BY <1>12 DEF Claim, Own, EndReq, MoveReq, ReqAt, ReqReads
<1>13. ASSUME NEW r \in Requests, OpenAssign(r) PROVE ChatHolds'
  BY <1>13 DEF OpenAssign, Begin, MoveReq, ReqAt, ReqReads, Free
<1>14. ASSUME NEW r \in Requests, CheckClosed(r) PROVE ChatHolds'
  BY <1>14 DEF CheckClosed, EndReq, MoveReq, ReqAt, ReqReads
<1>15. ASSUME NEW r \in Requests, Assign(r) PROVE ChatHolds'
  BY <1>15 DEF Assign, Own, EndReq, MoveReq, ReqAt, ReqReads
<1>16. ASSUME NEW r \in Requests, OpenClose(r) PROVE ChatHolds'
  BY <1>16 DEF OpenClose, Begin, MoveReq, ReqAt, ReqReads, Free
<1>17. ASSUME NEW r \in Requests, FindWaiting(r) PROVE ChatHolds'
  BY <1>17 DEF FindWaiting, EndReq, MoveReq, ReqAt, ReqReads
<1>18. ASSUME NEW r \in Requests, Close(r) PROVE ChatHolds'
  BY <1>18 DEF Close, Complete, Completed, EndReq, MoveReq, ReqAt, ReqReads
<1>19. ASSUME NEW r \in Requests, Transfer(r) PROVE ChatHolds'
  BY <1>19 DEF Transfer, Begin, MoveReq, ReqAt, ReqReads, Free
<1>20. ASSUME NEW r \in Requests, TransferSession(r) PROVE ChatHolds'
  BY <1>20 DEF TransferSession, EndReq, MoveReq, ReqAt, ReqReads
<1>21. ASSUME NEW r \in Requests, SelectByApi(r) PROVE ChatHolds'
  BY <1>21 DEF SelectByApi, Begin, MoveReq, ReqAt, ReqReads, Free, RouteChat
<1>22. ASSUME NEW r \in Requests, RequestDies(r)
      PROVE  ChatHolds'
  BY <1>22 DEF RequestDies, EndReq, MoveReq, ReqAt, ReqReads
<1>23. CASE Expire
  BY <1>23 DEF Expire, Complete, Completed
<1>24. CASE DeleteMenu
  BY <1>24 DEF DeleteMenu
<1>25. CASE Scan \/ SweepDies \/ GoesQuiet \/ Reply \/ UNCHANGED vars
  BY <1>25 DEF Scan, SweepDies, GoesQuiet, Reply, vars
<1>26. QED
  BY <1>1, <1>2, <1>3, <1>4, <1>5, <1>6, <1>7, <1>8, <1>9, <1>10, <1>11, <1>12, <1>13,
     <1>14, <1>15, <1>16, <1>17, <1>18, <1>19, <1>20, <1>21, <1>22, <1>23, <1>24, <1>25 DEF
     Next, Message, Request

\* Sessions are never deleted.
LEMMA RowsStay ==
  ASSUME IInv, [Next]_vars, NEW s \in Messages, rows[s].st # "none"
  PROVE  rows'[s].st # "none"
<1>a. rows \in [Messages -> Session]
  BY DEF IInv, TypeOK
<1> USE <1>a DEF Session
<1>1. ASSUME NEW t, Complete(t) PROVE rows'[s].st # "none"
  BY <1>1 DEF Complete, Completed
<1>2. ASSUME NEW t, NEW row, row.st = "waiting", StartWaiting(t, row) PROVE rows'[s].st # "none"
  BY <1>2 DEF StartWaiting
<1>3. ASSUME NEW m \in Messages, NEW menu, Insert(m, menu) PROVE rows'[s].st # "none"
  BY <1>3 DEF Insert, Opened
<1>4. ASSUME NEW m \in Messages, Message(m) PROVE rows'[s].st # "none"
  <2>1. CASE Abandon(m) \/ Recover(m) \/ Finish(m)
    BY <1>1, <2>1 DEF Abandon, Recover, Finish
  <2>2. CASE Create(m) \/ StartFirst(m)
    BY <1>3, <2>2 DEF Create, StartFirst
  <2>3. CASE ShowMenu(m)
    BY <2>3 DEF ShowMenu
  <2>4. CASE HandOff(m)
    <3>1. hook[m].seen \in Messages
      BY <2>4 DEF HandOff, AtItem, IInv, SeenExists, Menus, TypeOK, HookState
    <3>2. [rows[hook[m].seen] EXCEPT !.st = "waiting"].st = "waiting"
      BY <3>1
    <3>3. QED
      BY <1>2, <2>4, <3>2 DEF HandOff
  <2>5. CASE RouteSession(m)
    BY <1>2, <2>5 DEF RouteSession
  <2>6. CASE rows' = rows
    BY <2>6
  <2>7. QED
    BY <1>4, <2>1, <2>2, <2>3, <2>4, <2>5, <2>6 DEF Message, OpenChat, FindOffice, AskHistory,
       Store, Ignore, FindSession, MatchTrigger, Reshow, SelectOffice, HookDies, db
<1>5. ASSUME NEW r \in Requests, Request(r) PROVE rows'[s].st # "none"
  <2>1. CASE Close(r)
    BY <1>1, <2>1 DEF Close
  <2>2. CASE TransferSession(r)
    BY <2>2 DEF TransferSession
  <2>3. CASE rows' = rows
    BY <2>3
  <2>4. QED
    BY <1>5, <2>1, <2>2, <2>3 DEF Request, OpenClaim, Claim, Own, OpenAssign, CheckClosed, Assign,
       OpenClose, FindWaiting, Transfer, SelectByApi, RequestDies, db
<1>6. CASE Expire
  BY <1>1, <1>6 DEF Expire
<1>7. CASE DeleteMenu
  BY <1>7 DEF DeleteMenu
<1>8. CASE Scan \/ SweepDies \/ GoesQuiet \/ Reply \/ UNCHANGED vars
  BY <1>8 DEF Scan, SweepDies, GoesQuiet, Reply, vars, db
<1>9. QED
  BY <1>4, <1>5, <1>6, <1>7, <1>8 DEF Next

\* A thread storing its message keeps what it read until its own next step.
LEMMA ReadersStay ==
  ASSUME IInv, [Next]_vars, NEW m \in Messages, hook'[m].pc \in {"opened", "between", "file"}
  PROVE  hook'[m] = hook[m] \/ OpenChat(m) \/ FindOffice(m) \/ AskHistory(m)
<1>a. hook \in [Messages -> HookState]
  BY DEF IInv, TypeOK
<1> USE <1>a DEF MoveHook, EndHook, HookAt, HookReads
<1>1. ASSUME NEW n \in Messages, Message(n), n # m PROVE hook'[m] = hook[m]
  BY <1>1 DEF Message, OpenChat, FindOffice, AskHistory, Store, Ignore, FindSession, MatchTrigger,
     Abandon, Create, StartFirst, Insert, Recover, Reshow, ShowMenu, Finish, HandOff,
     SelectOffice, RouteSession, HookDies
<1>2. ASSUME Message(m) PROVE OpenChat(m) \/ FindOffice(m) \/ AskHistory(m)
  BY <1>2 DEF Message, Store, Ignore, FindSession, MatchTrigger, Abandon, Create, StartFirst,
     Insert, Recover, Reshow, ShowMenu, Finish, HandOff, SelectOffice, RouteSession, HookDies
<1>3. ASSUME NEW r \in Requests, Request(r) PROVE hook' = hook
  BY <1>3 DEF Request, OpenClaim, Claim, Own, OpenAssign, CheckClosed, Assign, OpenClose,
     FindWaiting, Close, Transfer, TransferSession, SelectByApi, RequestDies
<1>4. CASE Scan \/ Expire \/ SweepDies \/ GoesQuiet \/ Reply \/ DeleteMenu \/ UNCHANGED vars
  BY <1>4 DEF Scan, Expire, SweepDies, GoesQuiet, Reply, DeleteMenu, threads, vars
<1>5. QED
  BY <1>1, <1>2, <1>3, <1>4 DEF Next

\* Whoever has the conversation after a step is collected in that step.
LEMMA HoldersSeenStep == IInv /\ [Next]_vars => HoldersSeen'
<1> SUFFICES ASSUME IInv, [Next]_vars PROVE HoldersSeen'
  OBVIOUS
<1>a. TypeOK /\ HoldersSeen /\ OnlyHandoffsAreRouted
  BY DEF IInv
<1>1. CASE UNCHANGED vars
  BY <1>a, <1>1 DEF vars, db, threads, HoldersSeen, Holders, Waiting
<1>2. CASE Next
  <2> SUFFICES ASSUME NEW m \in Messages, hook'[m].pc \in {"opened", "between", "file"}
               PROVE  /\ hook'[m].pc \in {"opened", "between"} => Holders' \subseteq had'[m]
                      /\ hook'[m].pc \in {"opened", "between"} /\ (\A s \in Messages : rows'[s].st = "none")
                            => hook'[m].office \in had'[m] \cup {NoOffice}
                      /\ hook'[m].pc = "file" => hook'[m].office \in had'[m] \cup {NoOffice}
    BY DEF HoldersSeen
  <2>1. /\ hook'[m].pc \in {"opened", "between"} => had'[m] = had[m] \cup Holders'
        /\ hook'[m].pc = "file" => had'[m] = had[m] \cap {hook'[m].office}
    BY <1>2 DEF Next, Track
  <2>2. (\A s \in Messages : rows'[s].st = "none") => \A s \in Messages : rows[s].st = "none"
    BY RowsStay
  <2> USE <1>a, <2>1, <2>2 DEF TypeOK, HookState, HoldersSeen
  <2>3. CASE hook'[m] = hook[m]
    BY <2>3
  <2>4. CASE OpenChat(m)
    <3>1. hook'[m].pc = "opened" /\ hook'[m].office = chat.office /\ chat' = chat
      BY <2>4 DEF OpenChat, MoveHook, HookFiles, HookAt, HookReads, db
    <3>2. (\A s \in Messages : rows'[s].st = "none") => chat.office \in Holders' \cup {NoOffice}
      BY <3>1 DEF Holders, OfficeOrNone
    <3>3. QED
      BY <3>1, <3>2
  <2>5. CASE FindOffice(m)
    <3>1. CASE MoveHook(m, HookFiles("between", hook[m].office))
      <4>1. hook[m].pc = "opened" /\ hook'[m].pc = "between" /\ hook'[m].office = hook[m].office
        BY <2>5, <3>1 DEF FindOffice, MoveHook, HookFiles, HookAt, HookReads
      <4>2. QED
        BY <4>1
    <3>2. ASSUME NEW s \in Messages, Live(s), MoveHook(m, HookFiles("file", rows[s].office))
          PROVE  hook'[m].pc = "file" /\ hook'[m].office \in had'[m] \cup {NoOffice}
      <4>1. hook[m].pc = "opened" /\ hook'[m].pc = "file" /\ hook'[m].office = rows[s].office
        BY <2>5, <3>2 DEF FindOffice, MoveHook, HookFiles, HookAt, HookReads
      <4>2. CASE rows[s].office = NoOffice
        BY <4>1, <4>2
      <4>3. CASE rows[s].office # NoOffice
        <5>1. Waiting(s) /\ rows[s].office \in Offices
          BY <3>2, <4>3 DEF Live, Waiting, OnlyHandoffsAreRouted, Session, OfficeOrNone
        <5>2. rows[s].office \in Holders
          BY <5>1 DEF Holders, Waiting
        <5>3. QED
          BY <4>1, <5>2
      <4>4. QED
        BY <4>1, <4>2, <4>3
    <3>3. QED
      BY <2>5, <3>1, <3>2 DEF FindOffice
  <2>6. CASE AskHistory(m)
    <3>1. /\ hook[m].pc = "between" /\ hook'[m].pc = "file"
          /\ hook'[m].office = IF \E s \in Messages : rows[s].st # "none" THEN NoOffice ELSE hook[m].office
      BY <2>6 DEF AskHistory, MoveHook, HookFiles, HookAt, HookReads
    <3>2. QED
      BY <3>1
  <2>7. QED
    BY <2>3, <2>4, <2>5, <2>6, ReadersStay
<1>3. QED
  BY <1>1, <1>2

-----------------------------------------------------------------------------
(* What follows                                                            *)

\* The invariant holds before the first message.
LEMMA InitIInv == Init => IInv
<1> SUFFICES ASSUME Init PROVE IInv
  OBVIOUS
<1> USE HandoffAssumption DEF Init, NoRow, HookAt, HookReads, ReqAt, ReqReads
<1>1. TypeOK
  BY DEF TypeOK, Session, HookState, HookStep, ReqState, ReqStep, OfficeOrNone, UserOrNone,
         MenuOrNone, Menus
<1>2. BegunOnce /\ SeenExists /\ OnlyHandoffsAreRouted
  BY DEF BegunOnce, SeenExists, OnlyHandoffsAreRouted
<1>3. RoutedFirst /\ HoldersSeen /\ OneLiveSession
  BY DEF RoutedFirst, SessionFollowsChat, HoldersSeen, OneLiveSession, Live
<1>4. OneBusy /\ SessionHolds /\ ChatHolds
  BY DEF OneBusy, HookBusy, ReqBusy, SessionHolds, ChatHolds, OwnerBelongs
<1>5. QED
  BY <1>1, <1>2, <1>3, <1>4 DEF IInv

\* The inductive invariant holds in every reachable state.
THEOREM Invariance == Spec => []IInv
<1>1. IInv /\ [Next]_vars => IInv'
  BY TypeStep, BegunOnceStep, SeenExistsStep, OnlyHandoffsAreRoutedStep, RoutedFirstStep,
     HoldersSeenStep, OneLiveSessionStep, OneBusyStep, SessionHoldsStep, ChatHoldsStep DEF IInv
<1>2. QED
  BY InitIInv, <1>1, PTL DEF Spec

\* Every row and thread keeps its type.
THEOREM TypeCorrect == Spec => []TypeOK
<1>1. IInv => TypeOK
  BY DEF IInv
<1>2. QED
  BY Invariance, <1>1, PTL

\* No session is ever filed under an Office its chat was not routed to before.
THEOREM SessionsFollow == Spec => []SessionFollowsChat
<1>1. IInv => SessionFollowsChat
  BY DEF IInv, RoutedFirst
<1>2. QED
  BY Invariance, <1>1, PTL

\* A chat never has two live sessions.
THEOREM OneLive == Spec => []OneLiveSession
<1>1. IInv => OneLiveSession
  BY DEF IInv
<1>2. QED
  BY Invariance, <1>1, PTL

\* An inbound message is filed under no Office, or under one that had the
\* conversation while persist_message read the chat and its sessions.
THEOREM NavigationStaysPrivate == Spec => NavigationIsPrivate
<1>1. ASSUME IInv, [Next]_vars
      PROVE  [\A m \in Messages : Store(m) => hook[m].office \in had[m] \cup {NoOffice}]_vars
  BY <1>1 DEF IInv, HoldersSeen, Store
<1>2. QED
  BY Invariance, <1>1, PTL DEF Spec, NavigationIsPrivate

\* With one worker, a handoff is closed by a user who may manage the chat then.
THEOREM SerialCloses == ASSUME OneWorker PROVE Spec => ClosedByItsOffice
<1>1. ASSUME IInv, [Next]_vars
      PROVE  [\A r \in Requests : Close(r) =>
                 req[r].who \in Globals \/ Home[req[r].who] = chat.office]_vars
  BY <1>1 DEF IInv, ChatHolds, Close
<1>2. QED
  BY Invariance, <1>1, PTL DEF Spec, ClosedByItsOffice

\* With one worker, assigning never takes an open handoff from its assignee.
THEOREM SerialAssigns == ASSUME OneWorker PROVE Spec => OpenHandoffKeepsOwner
<1>1. ASSUME IInv, [Next]_vars
      PROVE  [(\E r \in Requests : Assign(r)) /\ (\E s \in Messages : Waiting(s))
                => chat.owner \in {Nobody, chat'.owner}]_vars
  <2>1. ASSUME NEW r \in Requests, Assign(r), \E s \in Messages : Waiting(s)
        PROVE  chat.owner \in {Nobody, chat'.owner}
    BY <1>1, <2>1 DEF IInv, TypeOK, ChatHolds, Assign, Own
  <2>2. QED
    BY <2>1
<1>2. QED
  BY Invariance, <1>1, PTL DEF Spec, OpenHandoffKeepsOwner

\* With one worker, the assignee always belongs to the chat's Office or has
\* global access.
THEOREM SerialOwners == ASSUME OneWorker PROVE Spec => []OwnerBelongs
<1>1. IInv => OwnerBelongs
  BY DEF IInv, ChatHolds
<1>2. QED
  BY Invariance, <1>1, PTL

\* With one worker, a webhook thread saves only the session it read as active,
\* so no message ends a handoff or revives a completed session.
LEMMA HookTouchesActive ==
  ASSUME OneWorker, IInv, NEW m \in Messages, Message(m), NEW s \in Messages,
         rows[s].st \in {"waiting", "completed"}
  PROVE  rows'[s].st = rows[s].st
<1>a. TypeOK /\ BegunOnce /\ SeenExists /\ SessionHolds
  BY DEF IInv
<1> USE HandoffAssumption, <1>a DEF TypeOK, db, BegunOnce, SeenExists, SessionHolds, Menus
<1>1. CASE Abandon(m) \/ Recover(m) \/ Finish(m)
  BY <1>1 DEF Abandon, Recover, Finish, AtItem, Complete, Completed
<1>2. CASE Create(m) \/ StartFirst(m)
  BY <1>2 DEF Create, StartFirst, Insert
<1>3. CASE ShowMenu(m)
  BY <1>3 DEF ShowMenu
<1>4. CASE HandOff(m) \/ RouteSession(m)
  BY <1>4 DEF HandOff, AtItem, RouteSession, StartWaiting
<1>5. CASE rows' = rows
  BY <1>5
<1>6. QED
  BY <1>1, <1>2, <1>3, <1>4, <1>5 DEF Message, OpenChat, FindOffice, AskHistory, Store,
     HookFiles, Ignore, FindSession, MatchTrigger, Reshow,
     SelectOffice, HookDies

\* With one worker, no inbound message ends a handoff.
THEOREM SerialHandoffs == ASSUME OneWorker PROVE Spec => HandoffImmune
<1>1. ASSUME IInv, [Next]_vars
      PROVE  [\A s \in Messages : Waiting(s) /\ rows'[s].st # "waiting" => hook' = hook]_vars
  <2>1. ASSUME NEW m \in Messages, Message(m), NEW s \in Messages, Waiting(s)
        PROVE  rows'[s].st = "waiting"
    BY <1>1, <2>1, HookTouchesActive DEF Waiting
  <2>2. ASSUME NEW r \in Requests, Request(r) PROVE hook' = hook
    BY <2>2 DEF Request, OpenClaim, Claim, Own, OpenAssign, CheckClosed, Assign, OpenClose,
       FindWaiting, Close, Transfer, TransferSession, SelectByApi, RequestDies
  <2>3. CASE Scan \/ Expire \/ SweepDies \/ GoesQuiet \/ Reply \/ DeleteMenu
    BY <2>3 DEF Scan, Expire, SweepDies, GoesQuiet, Reply, DeleteMenu, threads
  <2>4. QED
    BY <1>1, <2>1, <2>2, <2>3 DEF Next
<1>2. QED
  BY Invariance, <1>1, PTL DEF Spec, HandoffImmune

\* With one worker, a completed session stays completed.
THEOREM SerialHistory == ASSUME OneWorker PROVE Spec => CompletedStays
<1>1. ASSUME IInv, [Next]_vars
      PROVE  [\A s \in Messages : rows[s].st = "completed" => rows'[s].st = "completed"]_vars
  <2> SUFFICES ASSUME NEW s \in Messages, rows[s].st = "completed", Next
               PROVE  rows'[s].st = "completed"
    BY <1>1
  <2>a. rows \in [Messages -> Session]
    BY <1>1 DEF IInv, TypeOK
  <2>1. ASSUME NEW m \in Messages, Message(m) PROVE rows'[s].st = "completed"
    BY <1>1, <2>1, HookTouchesActive
  <2>2. ASSUME NEW t \in Messages \cup {NoSession}, Complete(t) PROVE rows'[s].st = "completed"
    BY <2>a, <2>2 DEF Complete, Completed
  <2>3. ASSUME NEW r \in Requests, Request(r) PROVE rows'[s].st = "completed"
    <3>1. CASE Close(r)
      BY <1>1, <2>2, <3>1 DEF IInv, TypeOK, ReqState, Close
    <3>2. CASE TransferSession(r)
      BY <3>2 DEF TransferSession, Waiting
    <3>3. CASE rows' = rows
      BY <3>3
    <3>4. QED
      BY <2>3, <3>1, <3>2, <3>3 DEF Request, OpenClaim, Claim, Own, OpenAssign, CheckClosed,
         Assign, OpenClose, FindWaiting, Transfer, SelectByApi, RequestDies, db
  <2>4. CASE Expire
    BY <1>1, <2>2, <2>4 DEF IInv, TypeOK, Expire
  <2>5. CASE DeleteMenu
    BY <2>a, <2>5 DEF DeleteMenu
  <2>6. CASE Scan \/ SweepDies \/ GoesQuiet \/ Reply
    BY <2>6 DEF Scan, SweepDies, GoesQuiet, Reply, db
  <2>7. QED
    BY <2>1, <2>3, <2>4, <2>5, <2>6 DEF Next
<1>2. QED
  BY Invariance, <1>1, PTL DEF Spec, CompletedStays

-----------------------------------------------------------------------------
(* The contract                                                            *)

\* How the phase follows from the rows: it keeps while no state changes, and
\* starting, completing and handing off the one live session move it.
LEMMA PhaseKeeps == ASSUME \A s \in Messages : rows'[s].st = rows[s].st PROVE Phase' = Phase
BY DEF Phase, Waiting, NoneLive, Live
LEMMA PhaseOfNone == ASSUME NoneLive PROVE Phase = "none"
BY DEF Phase, Waiting, NoneLive, Live
LEMMA PhaseOfActive ==
  ASSUME OneLiveSession, NEW s \in Messages, rows[s].st = "active" PROVE Phase = "menu"
BY DEF Phase, Waiting, NoneLive, Live, OneLiveSession
LEMMA PhaseStarts ==
  ASSUME rows \in [Messages -> Session], NoneLive, NEW m \in Messages, NEW menu,
         rows' = [rows EXCEPT ![m] = Opened(menu)]
  PROVE  Phase' = "menu"
<1>1. rows'[m].st = "active" /\ \A s \in Messages \ {m} : rows'[s] = rows[s]
  BY DEF Opened
<1>2. QED
  BY <1>1 DEF Phase, Waiting, NoneLive, Live
LEMMA PhaseEnds ==
  ASSUME rows \in [Messages -> Session], OneLiveSession, NEW s \in Messages, Live(s), Complete(s)
  PROVE  Phase' = "none"
<1>1. rows'[s].st = "completed" /\ \A t \in Messages \ {s} : rows'[t] = rows[t]
  BY DEF Complete, Completed, Session
<1>2. QED
  BY <1>1 DEF Phase, Waiting, NoneLive, Live, OneLiveSession
LEMMA PhaseWaits ==
  ASSUME rows \in [Messages -> Session], OneLiveSession, NEW s \in Messages,
         rows[s].st = "active", NEW row, row.st = "waiting", StartWaiting(s, row)
  PROVE  Phase' \in {"operators", Phase}
<1>1. CASE rows' = [rows EXCEPT ![s] = row]
  BY <1>1 DEF Phase, Waiting
<1>2. CASE rows' = rows
  BY <1>2, PhaseKeeps
<1>3. QED
  BY <1>1, <1>2 DEF StartWaiting

\* With one worker, the thread that is under way is the bot's only turn.
LEMMA OneTurn ==
  ASSUME OneWorker, IInv, NEW m \in Messages, HookBusy(m)
  PROVE  /\ (\E n \in Messages : Acting(n)) <=> Acting(m)
         /\ \A state : MoveHook(m, state) =>
               ((\E n \in Messages : Acting(n)') <=> state.pc \in {"found", "abandon", "create", "route"})
<1>1. \A n \in Messages : Acting(n) => HookBusy(n)
  BY DEF Acting, HookBusy
<1>2. hook \in [Messages -> HookState] /\ \A n \in Messages : HookBusy(n) => n = m
  BY DEF IInv, TypeOK, OneBusy
<1>3. ASSUME NEW state, MoveHook(m, state)
      PROVE  (\E n \in Messages : Acting(n)') <=> state.pc \in {"found", "abandon", "create", "route"}
  <2>1. hook'[m] = state /\ \A n \in Messages \ {m} : hook'[n] = hook[n]
    BY <1>2, <1>3 DEF MoveHook
  <2>2. \A n \in Messages \ {m} : ~Acting(n)'
    BY <1>1, <1>2, <2>1 DEF Acting
  <2>3. QED
    BY <2>1, <2>2 DEF Acting
<1>4. QED
  BY <1>1, <1>2, <1>3

\* With one worker, no handoff is waiting in a turn of the bot, and the session a
\* thread is about to save is the active one.
LEMMA TurnOfBot ==
  ASSUME OneWorker, IInv, NEW m \in Messages, Acting(m)
  PROVE  Phase # "operators"
<1>1. SessionHolds /\ SeenExists /\ OneLiveSession /\ TypeOK
  BY DEF IInv
<1>2. CASE NoneLive
  BY <1>2, PhaseOfNone
<1>3. CASE ~NoneLive
  <2>1. hook[m].seen \in Messages /\ rows[hook[m].seen].st = "active"
    BY <1>1, <1>3 DEF SessionHolds, SeenExists, Acting, TypeOK, HookState
  <2>2. QED
    BY <1>1, <2>1, PhaseOfActive
<1>4. QED
  BY <1>2, <1>3

Turn == \E m \in Messages : Acting(m)

\* A step of the bot's thread is a step of the contract or none.
LEMMA MessageTalks ==
  ASSUME OneWorker, IInv, NEW m \in Messages, Message(m)
  PROVE  Talk!Next \/ UNCHANGED <<Phase, Turn>>
<1>a. rows \in [Messages -> Session] /\ OneLiveSession /\ SessionHolds /\ SeenExists /\ BegunOnce
      /\ hook \in [Messages -> HookState]
  BY DEF IInv, TypeOK
<1> USE HandoffAssumption DEF Turn, Talk!Next, Talk!Take, Talk!Begin, Talk!Leave, Talk!HandOver,
     Talk!Yield, Talk!Write
<1>1. CASE OpenChat(m) \/ FindOffice(m) \/ AskHistory(m) \/ Store(m) \/ Ignore(m)
  <2>1. rows' = rows /\ ~Acting(m) /\ ~Acting(m)' /\ \A n \in Messages \ {m} : hook'[n] = hook[n]
    BY <1>a, <1>1 DEF OpenChat, FindOffice, AskHistory, Store, HookFiles, Ignore, EndHook,
     MoveHook, HookAt, HookReads, Acting, db
  <2>2. Turn' = Turn
    BY <2>1 DEF Acting
  <2>3. QED
    BY <2>1, <2>2, PhaseKeeps
<1>2. CASE FindSession(m)
  <2>1. HookBusy(m) /\ ~Acting(m) /\ rows' = rows
    BY <1>2 DEF FindSession, HookBusy, Acting, db
  <2>2. ~Turn
    BY <2>1, OneTurn
  <2>3. Phase' = Phase
    BY <2>1, PhaseKeeps
  <2>4. CASE NoneLive /\ MoveHook(m, HookAt("found"))
    <3>1. Turn'
      BY <2>1, <2>4, OneTurn DEF HookAt, HookReads
    <3>2. QED
      BY <2>2, <2>3, <2>4, <3>1, PhaseOfNone
  <2>5. ASSUME NEW s \in Messages, Live(s), ~Waiting(s), MoveHook(m, HookReads("found", s, rows[s].menu))
        PROVE  Talk!Next
    <3>1. Turn'
      BY <2>1, <2>5, OneTurn DEF HookReads
    <3>2. Phase = "menu"
      BY <1>a, <2>5, PhaseOfActive DEF Live, Waiting
    <3>3. QED
      BY <2>2, <2>3, <3>1, <3>2
  <2>6. CASE EndHook(m)
    <3>1. ~Turn'
      BY <2>1, <2>6, OneTurn DEF EndHook, HookAt, HookReads
    <3>2. QED
      BY <2>2, <2>3, <3>1
  <2>7. QED
    BY <1>2, <2>4, <2>5, <2>6 DEF FindSession
<1>3. CASE Reshow(m) \/ HookDies(m)
  <2>1. HookBusy(m) /\ EndHook(m) /\ rows' = rows
    BY <1>3 DEF Reshow, HookDies, HookBusy, db
  <2>2. ~Turn'
    BY <2>1, OneTurn DEF EndHook, HookAt, HookReads
  <2>3. Phase' = Phase
    BY <2>1, PhaseKeeps
  <2>4. QED
    BY <2>2, <2>3
<1>4. ASSUME Acting(m), NEW state, MoveHook(m, state) PROVE Turn /\ Turn' \in BOOLEAN /\ (state.pc = "over" => ~Turn')
  BY <1>4, OneTurn DEF Acting, HookBusy
<1>5. ASSUME Acting(m), MatchTrigger(m) \/ SelectOffice(m) PROVE UNCHANGED <<Phase, Turn>>
  <2>1. rows' = rows
    BY <1>5 DEF MatchTrigger, SelectOffice, db
  <2>2. PICK state : MoveHook(m, state) /\ state.pc \in {"create", "abandon", "route"}
    <3>1. CASE MatchTrigger(m)
      <4>1. \A s, menu : HookReads("create", s, menu).pc = "create" /\ HookReads("abandon", s, menu).pc = "abandon"
        BY DEF HookReads
      <4>2. QED
        BY <3>1, <4>1 DEF MatchTrigger
    <3>2. CASE SelectOffice(m)
      <4>1. PICK o \in Offices :
               MoveHook(m, [pc |-> "route", seen |-> hook[m].seen, menu |-> "none", office |-> o])
        BY <3>2 DEF SelectOffice
      <4>2. QED
        BY <4>1
    <3>3. QED
      BY <1>5, <3>1, <3>2
  <2>3. Turn /\ Turn'
    <3>1. HookBusy(m)
      BY <1>5 DEF Acting, HookBusy
    <3>2. \E n \in Messages : Acting(n)'
      BY <2>2, <3>1, OneTurn
    <3>3. QED
      BY <1>5, <3>2
  <2>4. QED
    BY <2>1, <2>3, PhaseKeeps
<1>6. ASSUME Acting(m), NEW s \in Messages, rows[s].st = "active", Complete(s), NEW state, MoveHook(m, state)
      PROVE  Talk!Leave
  <2>1. Phase = "menu" /\ Phase' = "none"
    BY <1>a, <1>6, PhaseOfActive, PhaseEnds DEF Live
  <2>2. QED
    BY <1>4, <1>6, <2>1
<1>7. CASE Abandon(m) \/ Recover(m) \/ Finish(m)
  <2>1. /\ Acting(m) /\ hook[m].seen \in Messages /\ rows[hook[m].seen].st = "active" /\ Complete(hook[m].seen)
        /\ \E state : MoveHook(m, state)
    BY <1>a, <1>7 DEF Abandon, Recover, Finish, AtItem, Acting, SessionHolds, SeenExists,
     EndHook, HookState, Menus
  <2>2. QED
    BY <1>6, <2>1
<1>8. ASSUME Acting(m), NoneLive, NEW menu, Insert(m, menu) PROVE Talk!Next
  <2>1. Turn /\ ~Turn'
    BY <1>4, <1>8 DEF Insert, EndHook, HookAt, HookReads
  <2>2. Phase = "none" /\ Phase' = "menu"
    BY <1>a, <1>8, PhaseOfNone, PhaseStarts DEF Insert
  <2>3. QED
    BY <2>1, <2>2
<1>9. CASE Create(m) \/ StartFirst(m)
  <2>1. Acting(m) /\ NoneLive /\ \E menu : Insert(m, menu)
    BY <1>a, <1>9 DEF Create, StartFirst, Acting, SessionHolds
  <2>2. QED
    BY <1>8, <2>1
<1>10. CASE ShowMenu(m)
  <2>1. Acting(m) /\ EndHook(m) /\ \A s \in Messages : rows'[s].st = rows[s].st
    BY <1>a, <1>10 DEF ShowMenu, AtItem, Acting, Session
  <2>2. Turn /\ ~Turn'
    BY <1>4, <2>1 DEF EndHook, HookAt, HookReads
  <2>3. QED
    BY <2>1, <2>2, PhaseKeeps
<1>11. ASSUME Acting(m), NEW s \in Messages, rows[s].st = "active", NEW row, row.st = "waiting",
              StartWaiting(s, row), EndHook(m)
       PROVE  Talk!HandOver \/ Talk!Yield
  <2>1. Turn /\ ~Turn'
    BY <1>4, <1>11 DEF EndHook, HookAt, HookReads
  <2>2. Phase = "menu" /\ Phase' \in {"operators", Phase}
    BY <1>a, <1>11, PhaseOfActive, PhaseWaits
  <2>3. QED
    BY <2>1, <2>2
<1>12. CASE HandOff(m)
  <2>1. Acting(m) /\ EndHook(m) /\ hook[m].seen \in Messages /\ rows[hook[m].seen].st = "active"
    BY <1>a, <1>12 DEF HandOff, AtItem, Acting, SessionHolds, SeenExists, HookState, Menus
  <2>2. [rows[hook[m].seen] EXCEPT !.st = "waiting"].st = "waiting"
    BY <1>a, <2>1 DEF Session
  <2>3. QED
    BY <1>11, <1>12, <2>1, <2>2 DEF HandOff
<1>13. CASE RouteSession(m)
  <2>1. Acting(m) /\ EndHook(m) /\ hook[m].seen \in Messages /\ rows[hook[m].seen].st = "active"
    BY <1>a, <1>13 DEF RouteSession, Acting, SessionHolds, SeenExists, HookState
  <2>2. QED
    BY <1>11, <1>13, <2>1 DEF RouteSession
<1>14. MatchTrigger(m) \/ SelectOffice(m) => Acting(m)
  BY DEF MatchTrigger, SelectOffice, Acting
<1>15. QED
  BY <1>1, <1>2, <1>3, <1>5, <1>7, <1>9, <1>10, <1>12, <1>13, <1>14 DEF Message

\* A completed handoff ends, or was over already.
LEMMA CompletionTalks ==
  ASSUME OneWorker, IInv, NEW s \in Messages, rows[s].st \in {"waiting", "completed"},
         Complete(s), hook' = hook
  PROVE  Talk!Next \/ UNCHANGED <<Phase, Turn>>
<1>1. rows \in [Messages -> Session] /\ OneLiveSession
  BY DEF IInv, TypeOK
<1>2. Turn' = Turn
  BY DEF Turn, Acting
<1>3. CASE rows[s].st = "completed"
  <2>1. \A t \in Messages : rows'[t].st = rows[t].st
    BY <1>1, <1>3 DEF Complete, Completed, Session
  <2>2. QED
    BY <1>2, <2>1, PhaseKeeps
<1>4. CASE rows[s].st = "waiting"
  <2>1. Phase = "operators" /\ Phase' = "none"
    BY <1>1, <1>4, PhaseEnds DEF Phase, Waiting, Live
  <2>2. ~Turn
    BY <2>1, TurnOfBot DEF Turn
  <2>3. QED
    BY <1>2, <2>1, <2>2 DEF Talk!Next, Talk!End, Turn
<1>5. QED
  BY <1>3, <1>4

\* With one worker, the chat keeps every promise of Conversation.
THEOREM SerialConversation == ASSUME OneWorker PROVE Spec => ConversationSpec
<1>1. Init => Talk!Init
  BY DEF Init, NoRow, HookAt, HookReads, Talk!Init, Phase, NoneLive, Live, Waiting, Acting
<1>2. ASSUME IInv, [Next]_vars PROVE Talk!Next \/ UNCHANGED <<Phase, Turn>>
  <2>1. ASSUME NEW m \in Messages, Message(m) PROVE Talk!Next \/ UNCHANGED <<Phase, Turn>>
    BY <1>2, <2>1, MessageTalks
  <2>2. ASSUME hook' = hook, \A s \in Messages : rows'[s].st = rows[s].st PROVE UNCHANGED <<Phase, Turn>>
    BY <2>2, PhaseKeeps DEF Turn, Acting
  <2>3. ASSUME NEW r \in Requests, Request(r) PROVE Talk!Next \/ UNCHANGED <<Phase, Turn>>
    <3>1. CASE Close(r)
      BY <1>2, <3>1, CompletionTalks DEF IInv, SeenExists, Close
    <3>2. CASE ~Close(r)
      <4>1. hook' = hook /\ \A s \in Messages : rows'[s].st = rows[s].st
        BY <1>2, <2>3, <3>2 DEF IInv, TypeOK, Session, Waiting, Request, OpenClaim, Claim, Own,
     OpenAssign,
           CheckClosed, Assign, OpenClose, FindWaiting, Transfer, TransferSession, SelectByApi, RequestDies, db
      <4>2. QED
        BY <2>2, <4>1
    <3>3. QED
      BY <3>1, <3>2
  <2>4. CASE Expire
    BY <1>2, <2>4, CompletionTalks DEF IInv, TypeOK, SeenExists, Expire
  <2>5. CASE DeleteMenu
    BY <1>2, <2>2, <2>5 DEF IInv, TypeOK, Session, DeleteMenu, threads
  <2>6. CASE Scan \/ SweepDies \/ GoesQuiet \/ Reply \/ UNCHANGED vars
    BY <2>2, <2>6 DEF Scan, SweepDies, GoesQuiet, Reply, vars, db, threads
  <2>7. QED
    BY <1>2, <2>1, <2>3, <2>4, <2>5, <2>6 DEF Next
<1>3. ASSUME IInv, [Next]_vars PROVE [Talk!Next]_(Talk!conversationVars)
  BY <1>2, <1>3 DEF Turn, Talk!conversationVars
<1>4. QED
  BY Invariance, <1>1, <1>3, PTL DEF Spec, ConversationSpec, Talk!Spec
=============================================================================
