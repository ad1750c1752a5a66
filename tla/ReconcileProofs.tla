--------------------------- MODULE ReconcileProofs ---------------------------
(***************************************************************************)
(* Theorems about Reconcile for any number of chats, messages, overlapping *)
(* runs, pages, retries and faults.                                        *)
(***************************************************************************)
EXTENDS Reconcile, TLAPS

-----------------------------------------------------------------------------
(* The inductive invariant                                                 *)

\* A chat's history is in order.
HistoryOrdered ==
    \A c \in Chats :
       /\ Len(history[c]) <= MaxMessages
       /\ \A i \in 1..Len(history[c]) : history[c][i] <= now
       /\ \A i, j \in 1..Len(history[c]) : i <= j => history[c][i] <= history[c][j]

StoredTime(t) == \E m \in stored : Exists(m) /\ history[m[1]][m[2]] = t

\* Rows have messages, and the watermarks that runs read or will write have rows.
TimesAreStored ==
    /\ \A m \in stored : Exists(m)
    /\ MarkIsStored
    /\ \A r \in Runs : /\ run[r].mark # 0 => StoredTime(run[r].mark)
                       /\ run[r].latest # 0 => StoredTime(run[r].latest)

Covered(r, i) == <<run[r].chat, i>> \in stored \cup Broken

\* What a run has stored of the messages it found: between two pages, those from
\* the last page's oldest on; within a page, those after `place`.  What is left
\* is on the next page or a later one, as messages only move back.
Reading(r) ==
    /\ run[r].pc \notin {"fetch", "page"} => run[r].chat = NoChat /\ run[r].number = 0 /\ run[r].began = 0
    /\ run[r].pc \in {"fetch", "page"} =>
          /\ run[r].chat \in Chats
          /\ run[r].number < MaxPages
          /\ run[r].began <= Len(history[run[r].chat])
    /\ run[r].pc = "fetch" /\ run[r].number = 0 => run[r].began = 0
    /\ run[r].pc = "fetch" /\ run[r].number # 0 =>
          /\ 1 <= run[r].bottom
          /\ run[r].bottom <= Top(run[r].chat, run[r].number) + 1
          /\ \A i \in Nat : run[r].bottom <= i /\ i <= run[r].began => Covered(r, i)
    /\ run[r].pc = "page" =>
          /\ 1 <= run[r].bottom
          /\ run[r].bottom <= run[r].place + 1
          /\ run[r].place <= Len(history[run[r].chat])
          /\ run[r].short => run[r].bottom = 1
          /\ ~run[r].short => run[r].bottom <= Top(run[r].chat, run[r].number + 1) + 1
          /\ \A i \in Nat : run[r].place < i /\ i <= run[r].began => Covered(r, i)

\* What a recovery request has read and nothing has overwritten is still so.
FreshIsStuck == recovery = "fresh" => Stuck

IInv ==
    /\ TypeOK
    /\ HistoryOrdered
    /\ TimesAreStored
    /\ \A r \in Runs : Reading(r)
    /\ RunningHasOwner
    /\ FreshIsStuck

-----------------------------------------------------------------------------
(* Steps                                                                   *)

\* The states a run is put in are states of runs.
LEMMA CallTyped == ASSUME NEW t \in Chats \cup {NoChat}, NEW n \in Nat, NEW a \in Nat PROVE Call(t, n, a) \in RunState
  BY DEF Call, RunState, Positions
LEMMA EndedTyped == ASSUME NEW pc \in Positions PROVE Ended(pc) \in RunState
  BY DEF Ended, Call, RunState, Positions
LEMMA RunTyped == ASSUME TypeOK, NEW r \in Runs PROVE run[r] \in RunState
  BY DEF TypeOK
LEMMA NextChatTyped == ASSUME TypeOK, NEW r \in Runs PROVE NextChat(r) \in RunState
  BY RunTyped DEF NextChat, RunState, Positions

LEMMA PageTyped ==
  ASSUME NEW s \in RunState, NEW place \in Nat, NEW bottom \in Nat, NEW began \in Nat, NEW short \in BOOLEAN
  PROVE  [s EXCEPT !.pc = "page", !.place = place, !.bottom = bottom, !.short = short, !.began = began] \in RunState
  BY DEF RunState, Positions
LEMMA NumberTyped ==
  ASSUME NEW s \in RunState, NEW number \in Nat
  PROVE  [s EXCEPT !.pc = "fetch", !.number = number] \in RunState
  BY DEF RunState, Positions

\* Paging arithmetic.
LEMMA Paging ==
  ASSUME NEW k \in Nat, NEW p \in Nat, NEW l \in Nat
  PROVE  /\ k - p * l \in Int
         /\ k - p * l <= k
         /\ k - (p + 1) * l = (k - p * l) - l
         /\ k - 0 * l = k
<1>1. p * l \in Nat /\ (p + 1) * l = p * l + l /\ 0 * l = 0
  BY SMT
<1>2. QED
  BY <1>1

LEMMA TopIsInt ==
  ASSUME TypeOK, NEW c \in Chats, NEW p \in Nat
  PROVE  /\ Top(c, p) \in Int
         /\ Top(c, p) <= Len(history[c])
         /\ Top(c, p + 1) = Top(c, p) - Limit
         /\ Top(c, 0) = Len(history[c])
         /\ Bottom(c, p) \in Nat \ {0}
<1>1. Limit \in Nat /\ Len(history[c]) \in Nat
  BY ReconcileAssumption DEF TypeOK
<1>2. /\ Top(c, p) \in Int
      /\ Top(c, p) <= Len(history[c])
      /\ Top(c, p + 1) = Top(c, p) - Limit
      /\ Top(c, 0) = Len(history[c])
  BY <1>1, Paging DEF Top
<1>3. Bottom(c, p) \in Nat \ {0}
  BY <1>1, <1>2 DEF Bottom
<1>4. QED
  BY <1>2, <1>3

\* A message of the page is a message.
LEMMA PlaceDown ==
  ASSUME TypeOK, HistoryOrdered, NEW r \in Runs, Reading(r), OnPage(r)
  PROVE  /\ run[r].place - 1 \in Nat
         /\ run[r].chat \in Chats
         /\ run[r].place \in 1..Len(history[run[r].chat])
         /\ ThisOne(r) \in Message /\ Exists(ThisOne(r))
<1>1. run[r].chat \in Chats /\ run[r].place \in Nat /\ run[r].bottom \in Nat
  BY RunTyped DEF Reading, OnPage, RunState
<1>2. run[r].place \in 1..Len(history[run[r].chat]) /\ Len(history[run[r].chat]) \in Nat
      /\ Len(history[run[r].chat]) <= MaxMessages
  BY <1>1 DEF Reading, OnPage, TypeOK, HistoryOrdered
<1>3. QED
  BY <1>1, <1>2, ReconcileAssumption DEF ThisOne, Message, Exists

\* Runs stay runs.
LEMMA RunStep ==
  ASSUME TypeOK, HistoryOrdered, \A r \in Runs : Reading(r), [Next]_vars
  PROVE  run' \in [Runs -> RunState]
<1>1. ASSUME NEW r \in Runs, Dispatch(r) PROVE run' \in [Runs -> RunState]
  <2>1. PICK c \in Chats \cup {NoChat} : Become(r, Call(c, 0, 1))
    BY <1>1 DEF Dispatch
  <2>2. QED
    BY <2>1, CallTyped DEF Become, TypeOK
<1>2. ASSUME NEW r \in Runs, Begin(r) PROVE run' \in [Runs -> RunState]
  <2>1. [run[r] EXCEPT !.pc = "announce", !.mark = cp.mark] \in RunState
    BY <1>2, RunTyped DEF Begin, RunState, Positions, TypeOK
  <2>2. QED
    BY <1>2, <2>1 DEF Begin, Become, TypeOK
<1>3. ASSUME NEW r \in Runs, Announce(r) PROVE run' \in [Runs -> RunState]
  <2>1. [run[r] EXCEPT !.pc = IF run[r].target = NoChat THEN "discover" ELSE "list"] \in RunState
    BY <1>3, RunTyped DEF Announce, RunState, Positions
  <2>2. QED
    BY <1>3, <2>1 DEF Announce, Become, TypeOK
<1>4. ASSUME NEW r \in Runs, Discover(r) PROVE run' \in [Runs -> RunState]
  <2>1. [run[r] EXCEPT !.pc = "list"] \in RunState
    BY <1>4, RunTyped DEF Discover, RunState, Positions
  <2>2. QED
    BY <1>4, <2>1 DEF Discover, Become, TypeOK
<1>5. ASSUME NEW r \in Runs, List(r) PROVE run' \in [Runs -> RunState]
  <2>1. [run[r] EXCEPT !.pc = "next", !.todo = IF run[r].target = NoChat THEN known ELSE {run[r].target} \cap known] \in RunState
    BY <1>5, RunTyped DEF List, RunState, Positions, TypeOK
  <2>2. QED
    BY <1>5, <2>1 DEF List, Become, TypeOK
<1>6. ASSUME NEW r \in Runs, NEW c \in Chats, Pick(r, c) PROVE run' \in [Runs -> RunState]
  <2>1. [run[r] EXCEPT !.pc = "fetch", !.todo = @ \ {c}, !.chat = c] \in RunState
    BY <1>6, RunTyped DEF Pick, RunState, Positions
  <2>2. QED
    BY <1>6, <2>1 DEF Pick, Become, TypeOK
<1>7. ASSUME NEW r \in Runs, Fetch(r) PROVE run' \in [Runs -> RunState]
  <2>1. CASE Top(run[r].chat, run[r].number) < 1
    BY <1>7, <2>1, NextChatTyped DEF Fetch, Become, TypeOK
  <2>2. CASE ~(Top(run[r].chat, run[r].number) < 1)
    <3> DEFINE s == [run[r] EXCEPT !.pc = "page", !.place = Top(run[r].chat, run[r].number),
                                   !.bottom = Bottom(run[r].chat, run[r].number),
                                   !.short = Top(run[r].chat, run[r].number) < Limit,
                                   !.began = IF run[r].number = 0 THEN Len(history[run[r].chat]) ELSE @]
    <3>1. run[r].chat \in Chats /\ run[r].number \in Nat
      BY <1>7, RunTyped DEF Fetch, Reading, RunState
    <3>2. Top(run[r].chat, run[r].number) \in Nat
      <4>1. Top(run[r].chat, run[r].number) \in Int
        BY <3>1, TopIsInt
      <4>2. QED
        BY <2>2, <4>1
    <3>3. Bottom(run[r].chat, run[r].number) \in Nat
      BY <3>1, TopIsInt
    <3>4. (IF run[r].number = 0 THEN Len(history[run[r].chat]) ELSE run[r].began) \in Nat
      BY <3>1, RunTyped DEF TypeOK, RunState
    <3>5. s \in RunState
      <4>1. (Top(run[r].chat, run[r].number) < Limit) \in BOOLEAN
        OBVIOUS
      <4>2. QED
        BY <3>2, <3>3, <3>4, <4>1, RunTyped, PageTyped, Zenon
    <3>6. run' = [run EXCEPT ![r] = s]
      BY <1>7, <2>2 DEF Fetch, Become
    <3>7. QED
      BY <3>5, <3>6 DEF TypeOK
  <2>3. QED
    BY <2>1, <2>2
<1>8. ASSUME NEW r \in Runs, ParseFails(r) PROVE run' \in [Runs -> RunState]
  <2>1. [Passed(r) EXCEPT !.error = TRUE] \in RunState
    BY <1>8, RunTyped, PlaceDown DEF ParseFails, OnPage, RunState, Positions, Passed
  <2>2. QED
    BY <1>8, <2>1 DEF ParseFails, Become, TypeOK
<1>9. ASSUME NEW r \in Runs, Skip(r) PROVE run' \in [Runs -> RunState]
  <2>1. Passed(r) \in RunState
    BY <1>9, RunTyped, PlaceDown DEF Skip, OnPage, RunState, Positions, Passed
  <2>2. QED
    BY <1>9, <2>1 DEF Skip, Become, TypeOK
<1>10. ASSUME NEW r \in Runs, Insert(r) PROVE run' \in [Runs -> RunState]
  <2>1. Passed(r) \in RunState
    BY <1>10, RunTyped, PlaceDown DEF Insert, OnPage, Passed, RunState
  <2>2. history[run[r].chat][run[r].place] \in Nat
    BY <1>10, PlaceDown DEF Insert, TypeOK
  <2>3. \A t \in Nat : [Passed(r) EXCEPT !.inserted = TRUE, !.latest = IF t > @ THEN t ELSE @] \in RunState
    BY <2>1 DEF RunState
  <2>4. QED
    BY <1>10, <2>2, <2>3 DEF Insert, Become, TypeOK
<1>11. ASSUME NEW r \in Runs, TurnPage(r) PROVE run' \in [Runs -> RunState]
  <2>1. run[r].number + 1 \in Nat
    BY RunTyped DEF RunState
  <2>2. [run[r] EXCEPT !.pc = "fetch", !.number = run[r].number + 1] \in RunState
    BY <2>1, RunTyped, NumberTyped
  <2>3. QED
    BY <1>11, <2>2 DEF TurnPage, Become, TypeOK
<1>12. ASSUME NEW r \in Runs, LeaveChat(r) PROVE run' \in [Runs -> RunState]
  <2>1. NextChat(r) \in RunState
    BY <1>12, NextChatTyped DEF LeaveChat
  <2>2. QED
    BY <1>12, <2>1 DEF LeaveChat, Become, TypeOK
<1>13. ASSUME NEW r \in Runs, Finish(r) PROVE run' \in [Runs -> RunState]
  <2>1. Call(run[r].target, run[r].retries, run[r].attempt + 1) \in RunState
    <3>1. run[r].target \in Chats \cup {NoChat} /\ run[r].retries \in Nat /\ run[r].attempt + 1 \in Nat
      BY RunTyped DEF RunState
    <3>2. QED
      BY <3>1, CallTyped
  <2>2. Ended("idle") \in RunState
    BY EndedTyped DEF Positions
  <2>3. QED
    BY <1>13, <2>1, <2>2 DEF Finish, Become, TypeOK
<1>14. ASSUME NEW r \in Runs, DiscoverFails(r) PROVE run' \in [Runs -> RunState]
  <2>1. [run[r] EXCEPT !.pc = "list"] \in RunState
    BY <1>14, RunTyped DEF DiscoverFails, RunState, Positions
  <2>2. QED
    BY <1>14, <2>1 DEF DiscoverFails, Become, TypeOK
<1>15. ASSUME NEW r \in Runs, FetchFails(r) PROVE run' \in [Runs -> RunState]
  <2>1. [NextChat(r) EXCEPT !.error = TRUE] \in RunState
    BY <1>15, NextChatTyped DEF FetchFails, RunState
  <2>2. QED
    BY <1>15, <2>1 DEF FetchFails, Become, TypeOK
<1>16. ASSUME NEW r \in Runs, Raise(r) PROVE run' \in [Runs -> RunState]
  <2>1. Retry(r) \in RunState
    <3>1. run[r].target \in Chats \cup {NoChat} /\ run[r].retries + 1 \in Nat
      BY RunTyped DEF RunState
    <3>2. QED
      BY <3>1, CallTyped DEF Retry
  <2>2. Ended("idle") \in RunState
    BY EndedTyped DEF Positions
  <2>3. QED
    BY <1>16, <2>1, <2>2 DEF Raise, Become, TypeOK
<1>17. ASSUME NEW r \in Runs, Escape(r) PROVE run' \in [Runs -> RunState]
  <2>1. Retry(r) \in RunState
    <3>1. run[r].target \in Chats \cup {NoChat} /\ run[r].retries + 1 \in Nat
      BY RunTyped DEF RunState
    <3>2. QED
      BY <3>1, CallTyped DEF Retry
  <2>2. Ended("escaped") \in RunState
    BY EndedTyped DEF Positions
  <2>3. QED
    BY <1>17, <2>1, <2>2 DEF Escape, Become, TypeOK
<1>18. ASSUME NEW r \in Runs, Kill(r) PROVE run' \in [Runs -> RunState]
  <2>1. Ended("killed") \in RunState
    BY <1>18, EndedTyped DEF Kill, Positions
  <2>2. QED
    BY <1>18, <2>1 DEF Kill, Become, TypeOK
<1>19. ASSUME NEW c \in Chats, Arrive(c) PROVE run' \in [Runs -> RunState]
  BY <1>19 DEF Arrive, waha, rows, TypeOK
<1>20. ASSUME NEW m \in Message, Live(m) PROVE run' \in [Runs -> RunState]
  BY <1>20 DEF Live, waha, rows, TypeOK
<1>21. ASSUME RecoverRead PROVE run' \in [Runs -> RunState]
  BY <1>21 DEF RecoverRead, waha, rows, TypeOK
<1>22. ASSUME Recover PROVE run' \in [Runs -> RunState]
  BY <1>22 DEF Recover, waha, rows, TypeOK
<1>23. ASSUME RecoveryConflict PROVE run' \in [Runs -> RunState]
  BY <1>23 DEF RecoveryConflict, waha, rows, TypeOK
<1>24. CASE UNCHANGED vars
  BY <1>24 DEF vars, waha, rows, TypeOK
<1>25. QED
  BY <1>1, <1>2, <1>3, <1>4, <1>5, <1>6, <1>7, <1>8, <1>9, <1>10, <1>11, <1>12, <1>13, <1>14,
     <1>15, <1>16, <1>17, <1>18, <1>19, <1>20, <1>21, <1>22, <1>23, <1>24
     DEF Next, Work, Fault

\* The part of TypeOK that is not about runs.
RowsOK ==
    /\ history \in [Chats -> Seq(Nat)] /\ now \in Nat
    /\ stored \subseteq Message /\ known \subseteq Chats
    /\ cp \in [status : {"idle", "running", "ok", "error"}, mark : Nat, by : Runs \cup {NoRun}]
    /\ recovery \in {"none", "fresh", "stale"}
    /\ faults \in Nat

\* Rows stay rows.
LEMMA RowStep ==
  ASSUME TypeOK, HistoryOrdered, \A r \in Runs : Reading(r), [Next]_vars
  PROVE  RowsOK'
<1>1. ASSUME NEW r \in Runs, Dispatch(r) PROVE RowsOK'
  BY <1>1 DEF Dispatch, Become, Call, Over, waha, rows, TypeOK, RowsOK
<1>2. ASSUME NEW r \in Runs, Begin(r) PROVE RowsOK'
  BY <1>2 DEF Begin, Become, waha, rows, TypeOK, RowsOK
<1>3. ASSUME NEW r \in Runs, Announce(r) PROVE RowsOK'
  BY <1>3 DEF Announce, Save, Become, waha, rows, TypeOK, RowsOK
<1>4. ASSUME NEW r \in Runs, Discover(r) PROVE RowsOK'
  BY <1>4 DEF Discover, Become, waha, rows, TypeOK, RowsOK
<1>5. ASSUME NEW r \in Runs, List(r) PROVE RowsOK'
  BY <1>5 DEF List, Become, waha, rows, TypeOK, RowsOK
<1>6. ASSUME NEW r \in Runs, NEW c \in Chats, Pick(r, c) PROVE RowsOK'
  BY <1>6 DEF Pick, Become, waha, rows, TypeOK, RowsOK
<1>7. ASSUME NEW r \in Runs, Fetch(r) PROVE RowsOK'
  BY <1>7 DEF Fetch, Become, NextChat, waha, rows, TypeOK, RowsOK
<1>8. ASSUME NEW r \in Runs, ParseFails(r) PROVE RowsOK'
  BY <1>8 DEF ParseFails, OnPage, Passed, Become, waha, rows, TypeOK, RowsOK
<1>9. ASSUME NEW r \in Runs, Skip(r) PROVE RowsOK'
  BY <1>9 DEF Skip, OnPage, Passed, Become, waha, rows, TypeOK, RowsOK
<1>10. ASSUME NEW r \in Runs, Insert(r) PROVE RowsOK'
  BY <1>10, PlaceDown DEF Insert, TypeOK, RowsOK, waha
<1>11. ASSUME NEW r \in Runs, TurnPage(r) PROVE RowsOK'
  BY <1>11 DEF TurnPage, PageDone, Become, waha, rows, TypeOK, RowsOK
<1>12. ASSUME NEW r \in Runs, LeaveChat(r) PROVE RowsOK'
  BY <1>12 DEF LeaveChat, PageDone, NextChat, Become, waha, rows, TypeOK, RowsOK
<1>13. ASSUME NEW r \in Runs, Finish(r) PROVE RowsOK'
  <2>1. run[r].mark \in Nat /\ run[r].latest \in Nat
    BY RunTyped DEF RunState
  <2>2. QED
    BY <1>13, <2>1 DEF Finish, Save, Outcome, waha, rows, TypeOK, RowsOK
<1>14. ASSUME NEW r \in Runs, DiscoverFails(r) PROVE RowsOK'
  BY <1>14 DEF DiscoverFails, Become, waha, rows, TypeOK, RowsOK
<1>15. ASSUME NEW r \in Runs, FetchFails(r) PROVE RowsOK'
  BY <1>15 DEF FetchFails, NextChat, Become, waha, rows, TypeOK, RowsOK
<1>16. ASSUME NEW r \in Runs, Raise(r) PROVE RowsOK'
  BY <1>16 DEF Raise, Save, waha, rows, TypeOK, RowsOK
<1>17. ASSUME NEW r \in Runs, Escape(r) PROVE RowsOK'
  BY <1>17 DEF Escape, Become, Call, Ended, Retry, waha, rows, TypeOK, RowsOK
<1>18. ASSUME NEW r \in Runs, Kill(r) PROVE RowsOK'
  BY <1>18 DEF Kill, Become, Call, Ended, Over, waha, rows, TypeOK, RowsOK
<1>19. ASSUME NEW c \in Chats, Arrive(c) PROVE RowsOK'
  <2>1. history[c] \in Seq(Nat) /\ now' \in Nat
    BY <1>19 DEF Arrive, TypeOK
  <2>2. Append(history[c], now') \in Seq(Nat)
    BY <2>1
  <2>3. QED
    BY <1>19, <2>2, <2>1 DEF Arrive, rows, TypeOK, RowsOK
<1>20. ASSUME NEW m \in Message, Live(m) PROVE RowsOK'
  <2>1. m[1] \in Chats
    BY DEF Message
  <2>2. QED
    BY <1>20, <2>1 DEF Live, waha, TypeOK, RowsOK
<1>21. ASSUME RecoverRead PROVE RowsOK'
  BY <1>21 DEF RecoverRead, waha, rows, TypeOK, RowsOK
<1>22. ASSUME Recover PROVE RowsOK'
  BY <1>22 DEF Recover, waha, rows, TypeOK, RowsOK
<1>23. ASSUME RecoveryConflict PROVE RowsOK'
  BY <1>23 DEF RecoveryConflict, waha, rows, TypeOK, RowsOK
<1>24. CASE UNCHANGED vars
  BY <1>24 DEF vars, waha, rows, TypeOK, RowsOK
<1>25. QED
  BY <1>1, <1>2, <1>3, <1>4, <1>5, <1>6, <1>7, <1>8, <1>9, <1>10, <1>11, <1>12, <1>13, <1>14,
     <1>15, <1>16, <1>17, <1>18, <1>19, <1>20, <1>21, <1>22, <1>23, <1>24
     DEF Next, Work, Fault

LEMMA TypeStep ==
  ASSUME TypeOK, HistoryOrdered, \A r \in Runs : Reading(r), [Next]_vars
  PROVE  TypeOK'
  BY RunStep, RowStep DEF TypeOK, RowsOK

\* Messages are only added, and keep their places.
LEMMA Growth ==
  ASSUME TypeOK, [Next]_vars, NEW d \in Chats
  PROVE  /\ Len(history[d]) <= Len(history'[d])
         /\ \A i \in 1..Len(history[d]) : history'[d][i] = history[d][i]
         /\ stored \subseteq stored'
<1> DEFINE Grown == /\ Len(history[d]) <= Len(history'[d])
                    /\ \A i \in 1..Len(history[d]) : history'[d][i] = history[d][i]
                    /\ stored \subseteq stored'
<1>1. ASSUME NEW r \in Runs, Dispatch(r) PROVE Grown
  BY <1>1 DEF Dispatch, Become, Call, Over, waha, rows, TypeOK
<1>2. ASSUME NEW r \in Runs, Begin(r) PROVE Grown
  BY <1>2 DEF Begin, Become, waha, rows, TypeOK
<1>3. ASSUME NEW r \in Runs, Announce(r) PROVE Grown
  BY <1>3 DEF Announce, Save, Become, waha, rows, TypeOK
<1>4. ASSUME NEW r \in Runs, Discover(r) PROVE Grown
  BY <1>4 DEF Discover, Become, waha, rows, TypeOK
<1>5. ASSUME NEW r \in Runs, List(r) PROVE Grown
  BY <1>5 DEF List, Become, waha, rows, TypeOK
<1>6. ASSUME NEW r \in Runs, NEW c \in Chats, Pick(r, c) PROVE Grown
  BY <1>6 DEF Pick, Become, waha, rows, TypeOK
<1>7. ASSUME NEW r \in Runs, Fetch(r) PROVE Grown
  BY <1>7 DEF Fetch, Become, NextChat, waha, rows, TypeOK
<1>8. ASSUME NEW r \in Runs, ParseFails(r) PROVE Grown
  BY <1>8 DEF ParseFails, OnPage, Passed, Become, waha, rows, TypeOK
<1>9. ASSUME NEW r \in Runs, Skip(r) PROVE Grown
  BY <1>9 DEF Skip, OnPage, Passed, Become, waha, rows, TypeOK
<1>10. ASSUME NEW r \in Runs, Insert(r) PROVE Grown
  BY <1>10 DEF Insert, OnPage, Passed, ThisOne, Become, waha, rows, TypeOK
<1>11. ASSUME NEW r \in Runs, TurnPage(r) PROVE Grown
  BY <1>11 DEF TurnPage, PageDone, Become, waha, rows, TypeOK
<1>12. ASSUME NEW r \in Runs, LeaveChat(r) PROVE Grown
  BY <1>12 DEF LeaveChat, PageDone, NextChat, Become, waha, rows, TypeOK
<1>13. ASSUME NEW r \in Runs, Finish(r) PROVE Grown
  BY <1>13 DEF Finish, Save, Outcome, Become, Call, Ended, waha, rows, TypeOK
<1>14. ASSUME NEW r \in Runs, DiscoverFails(r) PROVE Grown
  BY <1>14 DEF DiscoverFails, Become, waha, rows, TypeOK
<1>15. ASSUME NEW r \in Runs, FetchFails(r) PROVE Grown
  BY <1>15 DEF FetchFails, NextChat, Become, waha, rows, TypeOK
<1>16. ASSUME NEW r \in Runs, Raise(r) PROVE Grown
  BY <1>16 DEF Raise, Save, Become, Call, Ended, Retry, waha, rows, TypeOK
<1>17. ASSUME NEW r \in Runs, Escape(r) PROVE Grown
  BY <1>17 DEF Escape, Become, Call, Ended, Retry, waha, rows, TypeOK
<1>18. ASSUME NEW r \in Runs, Kill(r) PROVE Grown
  BY <1>18 DEF Kill, Become, Call, Ended, Over, waha, rows, TypeOK
<1>19. ASSUME NEW c \in Chats, Arrive(c) PROVE Grown
  BY <1>19 DEF Arrive, waha, rows, TypeOK
<1>20. ASSUME NEW m \in Message, Live(m) PROVE Grown
  BY <1>20 DEF Live, waha, rows, TypeOK
<1>21. ASSUME RecoverRead PROVE Grown
  BY <1>21 DEF RecoverRead, waha, rows, TypeOK
<1>22. ASSUME Recover PROVE Grown
  BY <1>22 DEF Recover, waha, rows, TypeOK
<1>23. ASSUME RecoveryConflict PROVE Grown
  BY <1>23 DEF RecoveryConflict, waha, rows, TypeOK
<1>24. CASE UNCHANGED vars
  BY <1>24 DEF vars, waha, rows, TypeOK
<1>25. QED
  BY <1>1, <1>2, <1>3, <1>4, <1>5, <1>6, <1>7, <1>8, <1>9, <1>10, <1>11, <1>12, <1>13, <1>14,
     <1>15, <1>16, <1>17, <1>18, <1>19, <1>20, <1>21, <1>22, <1>23, <1>24
     DEF Next, Work, Fault

\* Histories stay in order.
LEMMA OrderStep ==
  ASSUME TypeOK, HistoryOrdered, [Next]_vars
  PROVE  HistoryOrdered'
<1>1. ASSUME NEW r \in Runs, Dispatch(r) PROVE HistoryOrdered'
  BY <1>1, ReconcileAssumption
     DEF Dispatch, Become, Call, Over, waha, rows, TypeOK, HistoryOrdered
<1>2. ASSUME NEW r \in Runs, Begin(r) PROVE HistoryOrdered'
  BY <1>2, ReconcileAssumption DEF Begin, Become, waha, rows, TypeOK, HistoryOrdered
<1>3. ASSUME NEW r \in Runs, Announce(r) PROVE HistoryOrdered'
  BY <1>3, ReconcileAssumption DEF Announce, Save, Become, waha, rows, TypeOK, HistoryOrdered
<1>4. ASSUME NEW r \in Runs, Discover(r) PROVE HistoryOrdered'
  BY <1>4, ReconcileAssumption DEF Discover, Become, waha, rows, TypeOK, HistoryOrdered
<1>5. ASSUME NEW r \in Runs, List(r) PROVE HistoryOrdered'
  BY <1>5, ReconcileAssumption DEF List, Become, waha, rows, TypeOK, HistoryOrdered
<1>6. ASSUME NEW r \in Runs, NEW c \in Chats, Pick(r, c) PROVE HistoryOrdered'
  BY <1>6, ReconcileAssumption DEF Pick, Become, waha, rows, TypeOK, HistoryOrdered
<1>7. ASSUME NEW r \in Runs, Fetch(r) PROVE HistoryOrdered'
  BY <1>7, ReconcileAssumption DEF Fetch, Become, NextChat, waha, rows, TypeOK, HistoryOrdered
<1>8. ASSUME NEW r \in Runs, ParseFails(r) PROVE HistoryOrdered'
  BY <1>8, ReconcileAssumption
     DEF ParseFails, OnPage, Passed, Become, waha, rows, TypeOK, HistoryOrdered
<1>9. ASSUME NEW r \in Runs, Skip(r) PROVE HistoryOrdered'
  BY <1>9, ReconcileAssumption
     DEF Skip, OnPage, Passed, Become, waha, rows, TypeOK, HistoryOrdered
<1>10. ASSUME NEW r \in Runs, Insert(r) PROVE HistoryOrdered'
  BY <1>10, ReconcileAssumption
     DEF Insert, OnPage, Passed, ThisOne, Become, waha, rows, TypeOK, HistoryOrdered
<1>11. ASSUME NEW r \in Runs, TurnPage(r) PROVE HistoryOrdered'
  BY <1>11, ReconcileAssumption DEF TurnPage, PageDone, Become, waha, rows, TypeOK, HistoryOrdered
<1>12. ASSUME NEW r \in Runs, LeaveChat(r) PROVE HistoryOrdered'
  BY <1>12, ReconcileAssumption
     DEF LeaveChat, PageDone, NextChat, Become, waha, rows, TypeOK, HistoryOrdered
<1>13. ASSUME NEW r \in Runs, Finish(r) PROVE HistoryOrdered'
  BY <1>13, ReconcileAssumption
     DEF Finish, Save, Outcome, Become, Call, Ended, waha, rows, TypeOK, HistoryOrdered
<1>14. ASSUME NEW r \in Runs, DiscoverFails(r) PROVE HistoryOrdered'
  BY <1>14, ReconcileAssumption DEF DiscoverFails, Become, waha, rows, TypeOK, HistoryOrdered
<1>15. ASSUME NEW r \in Runs, FetchFails(r) PROVE HistoryOrdered'
  BY <1>15, ReconcileAssumption
     DEF FetchFails, NextChat, Become, waha, rows, TypeOK, HistoryOrdered
<1>16. ASSUME NEW r \in Runs, Raise(r) PROVE HistoryOrdered'
  BY <1>16, ReconcileAssumption
     DEF Raise, Save, Become, Call, Ended, Retry, waha, rows, TypeOK, HistoryOrdered
<1>17. ASSUME NEW r \in Runs, Escape(r) PROVE HistoryOrdered'
  BY <1>17, ReconcileAssumption
     DEF Escape, Become, Call, Ended, Retry, waha, rows, TypeOK, HistoryOrdered
<1>18. ASSUME NEW r \in Runs, Kill(r) PROVE HistoryOrdered'
  BY <1>18, ReconcileAssumption
     DEF Kill, Become, Call, Ended, Over, waha, rows, TypeOK, HistoryOrdered
<1>19. ASSUME NEW c \in Chats, Arrive(c) PROVE HistoryOrdered'
  BY <1>19, ReconcileAssumption DEF Arrive, waha, rows, TypeOK, HistoryOrdered
<1>20. ASSUME NEW m \in Message, Live(m) PROVE HistoryOrdered'
  BY <1>20, ReconcileAssumption DEF Live, waha, rows, TypeOK, HistoryOrdered
<1>21. ASSUME RecoverRead PROVE HistoryOrdered'
  BY <1>21, ReconcileAssumption DEF RecoverRead, waha, rows, TypeOK, HistoryOrdered
<1>22. ASSUME Recover PROVE HistoryOrdered'
  BY <1>22, ReconcileAssumption DEF Recover, waha, rows, TypeOK, HistoryOrdered
<1>23. ASSUME RecoveryConflict PROVE HistoryOrdered'
  BY <1>23, ReconcileAssumption DEF RecoveryConflict, waha, rows, TypeOK, HistoryOrdered
<1>24. CASE UNCHANGED vars
  BY <1>24, ReconcileAssumption DEF vars, waha, rows, TypeOK, HistoryOrdered
<1>25. QED
  BY <1>1, <1>2, <1>3, <1>4, <1>5, <1>6, <1>7, <1>8, <1>9, <1>10, <1>11, <1>12, <1>13, <1>14,
     <1>15, <1>16, <1>17, <1>18, <1>19, <1>20, <1>21, <1>22, <1>23, <1>24
     DEF Next, Work, Fault

\* Who leaves the row running has not returned.
LEMMA OwnerStep ==
  ASSUME TypeOK, RunningHasOwner, [Next]_vars
  PROVE  RunningHasOwner'
<1>1. ASSUME NEW r \in Runs, Dispatch(r) PROVE RunningHasOwner'
  BY <1>1, ReconcileAssumption
     DEF Dispatch, Become, Call, Over, waha, rows, TypeOK, RunningHasOwner, NextChat, Ended
<1>2. ASSUME NEW r \in Runs, Begin(r) PROVE RunningHasOwner'
  BY <1>2, ReconcileAssumption
     DEF Begin, Become, waha, rows, TypeOK, RunningHasOwner, NextChat, Call, Ended, Over
<1>3. ASSUME NEW r \in Runs, Announce(r) PROVE RunningHasOwner'
  BY <1>3, ReconcileAssumption
     DEF Announce, Save, Become, waha, rows, TypeOK, RunningHasOwner, NextChat, Call, Ended,
         Over
<1>4. ASSUME NEW r \in Runs, Discover(r) PROVE RunningHasOwner'
  BY <1>4, ReconcileAssumption
     DEF Discover, Become, waha, rows, TypeOK, RunningHasOwner, NextChat, Call, Ended, Over
<1>5. ASSUME NEW r \in Runs, List(r) PROVE RunningHasOwner'
  BY <1>5, ReconcileAssumption
     DEF List, Become, waha, rows, TypeOK, RunningHasOwner, NextChat, Call, Ended, Over
<1>6. ASSUME NEW r \in Runs, NEW c \in Chats, Pick(r, c) PROVE RunningHasOwner'
  BY <1>6, ReconcileAssumption
     DEF Pick, Become, waha, rows, TypeOK, RunningHasOwner, NextChat, Call, Ended, Over
<1>7. ASSUME NEW r \in Runs, Fetch(r) PROVE RunningHasOwner'
  BY <1>7, ReconcileAssumption
     DEF Fetch, Become, NextChat, waha, rows, TypeOK, RunningHasOwner, Call, Ended, Over
<1>8. ASSUME NEW r \in Runs, ParseFails(r) PROVE RunningHasOwner'
  BY <1>8, ReconcileAssumption
     DEF ParseFails, OnPage, Passed, Become, waha, rows, TypeOK, RunningHasOwner, NextChat,
         Call, Ended, Over
<1>9. ASSUME NEW r \in Runs, Skip(r) PROVE RunningHasOwner'
  BY <1>9, ReconcileAssumption
     DEF Skip, OnPage, Passed, Become, waha, rows, TypeOK, RunningHasOwner, NextChat, Call,
         Ended, Over
<1>10. ASSUME NEW r \in Runs, Insert(r) PROVE RunningHasOwner'
  BY <1>10, ReconcileAssumption
     DEF Insert, OnPage, Passed, ThisOne, Become, waha, rows, TypeOK, RunningHasOwner,
         NextChat, Call, Ended, Over
<1>11. ASSUME NEW r \in Runs, TurnPage(r) PROVE RunningHasOwner'
  BY <1>11, ReconcileAssumption
     DEF TurnPage, PageDone, Become, waha, rows, TypeOK, RunningHasOwner, NextChat, Call,
         Ended, Over
<1>12. ASSUME NEW r \in Runs, LeaveChat(r) PROVE RunningHasOwner'
  BY <1>12, ReconcileAssumption
     DEF LeaveChat, PageDone, NextChat, Become, waha, rows, TypeOK, RunningHasOwner, Call,
         Ended, Over
<1>13. ASSUME NEW r \in Runs, Finish(r) PROVE RunningHasOwner'
  BY <1>13, ReconcileAssumption
     DEF Finish, Save, Outcome, Become, Call, Ended, waha, rows, TypeOK, RunningHasOwner,
         NextChat, Over
<1>14. ASSUME NEW r \in Runs, DiscoverFails(r) PROVE RunningHasOwner'
  BY <1>14, ReconcileAssumption
     DEF DiscoverFails, Become, waha, rows, TypeOK, RunningHasOwner, NextChat, Call, Ended, Over
<1>15. ASSUME NEW r \in Runs, FetchFails(r) PROVE RunningHasOwner'
  BY <1>15, ReconcileAssumption
     DEF FetchFails, NextChat, Become, waha, rows, TypeOK, RunningHasOwner, Call, Ended, Over
<1>16. ASSUME NEW r \in Runs, Raise(r) PROVE RunningHasOwner'
  <2>1. CASE IsFinal(r)
    BY <1>16, <2>1 DEF Raise, Save, TypeOK, RunningHasOwner
  <2>2. CASE ~IsFinal(r)
    BY <1>16, <2>2 DEF Raise, Become, Retry, Call, TypeOK, RunningHasOwner
  <2>3. QED
    BY <2>1, <2>2
<1>17. ASSUME NEW r \in Runs, Escape(r) PROVE RunningHasOwner'
  BY <1>17, ReconcileAssumption
     DEF Escape, Become, Call, Ended, Retry, waha, rows, TypeOK, RunningHasOwner, NextChat, Over
<1>18. ASSUME NEW r \in Runs, Kill(r) PROVE RunningHasOwner'
  BY <1>18, ReconcileAssumption
     DEF Kill, Become, Call, Ended, Over, waha, rows, TypeOK, RunningHasOwner, NextChat
<1>19. ASSUME NEW c \in Chats, Arrive(c) PROVE RunningHasOwner'
  BY <1>19, ReconcileAssumption
     DEF Arrive, waha, rows, TypeOK, RunningHasOwner, NextChat, Call, Ended, Over
<1>20. ASSUME NEW m \in Message, Live(m) PROVE RunningHasOwner'
  BY <1>20, ReconcileAssumption
     DEF Live, waha, rows, TypeOK, RunningHasOwner, NextChat, Call, Ended, Over
<1>21. ASSUME RecoverRead PROVE RunningHasOwner'
  BY <1>21, ReconcileAssumption
     DEF RecoverRead, waha, rows, TypeOK, RunningHasOwner, NextChat, Call, Ended, Over
<1>22. ASSUME Recover PROVE RunningHasOwner'
  BY <1>22, ReconcileAssumption
     DEF Recover, waha, rows, TypeOK, RunningHasOwner, NextChat, Call, Ended, Over
<1>23. ASSUME RecoveryConflict PROVE RunningHasOwner'
  BY <1>23, ReconcileAssumption
     DEF RecoveryConflict, waha, rows, TypeOK, RunningHasOwner, NextChat, Call, Ended, Over
<1>24. CASE UNCHANGED vars
  BY <1>24, ReconcileAssumption
     DEF vars, waha, rows, TypeOK, RunningHasOwner, NextChat, Call, Ended, Over
<1>25. QED
  BY <1>1, <1>2, <1>3, <1>4, <1>5, <1>6, <1>7, <1>8, <1>9, <1>10, <1>11, <1>12, <1>13, <1>14,
     <1>15, <1>16, <1>17, <1>18, <1>19, <1>20, <1>21, <1>22, <1>23, <1>24
     DEF Next, Work, Fault

\* A recovery request's reading is overtaken by writes of the row only.
LEMMA FreshStep ==
  ASSUME TypeOK, FreshIsStuck, [Next]_vars
  PROVE  FreshIsStuck'
<1>1. ASSUME NEW r \in Runs, Dispatch(r) PROVE FreshIsStuck'
  BY <1>1, ReconcileAssumption
     DEF Dispatch, Become, Call, Over, waha, rows, TypeOK, FreshIsStuck, Stuck, Working
<1>2. ASSUME NEW r \in Runs, Begin(r) PROVE FreshIsStuck'
  BY <1>2, ReconcileAssumption DEF Begin, Become, waha, rows, TypeOK, FreshIsStuck, Stuck, Working
<1>3. ASSUME NEW r \in Runs, Announce(r) PROVE FreshIsStuck'
  BY <1>3, ReconcileAssumption
     DEF Announce, Save, Become, waha, rows, TypeOK, FreshIsStuck, Stuck, Working
<1>4. ASSUME NEW r \in Runs, Discover(r) PROVE FreshIsStuck'
  BY <1>4, ReconcileAssumption
     DEF Discover, Become, waha, rows, TypeOK, FreshIsStuck, Stuck, Working
<1>5. ASSUME NEW r \in Runs, List(r) PROVE FreshIsStuck'
  BY <1>5, ReconcileAssumption DEF List, Become, waha, rows, TypeOK, FreshIsStuck, Stuck, Working
<1>6. ASSUME NEW r \in Runs, NEW c \in Chats, Pick(r, c) PROVE FreshIsStuck'
  BY <1>6, ReconcileAssumption DEF Pick, Become, waha, rows, TypeOK, FreshIsStuck, Stuck, Working
<1>7. ASSUME NEW r \in Runs, Fetch(r) PROVE FreshIsStuck'
  BY <1>7, ReconcileAssumption
     DEF Fetch, Become, NextChat, waha, rows, TypeOK, FreshIsStuck, Stuck, Working
<1>8. ASSUME NEW r \in Runs, ParseFails(r) PROVE FreshIsStuck'
  BY <1>8, ReconcileAssumption
     DEF ParseFails, OnPage, Passed, Become, waha, rows, TypeOK, FreshIsStuck, Stuck, Working
<1>9. ASSUME NEW r \in Runs, Skip(r) PROVE FreshIsStuck'
  BY <1>9, ReconcileAssumption
     DEF Skip, OnPage, Passed, Become, waha, rows, TypeOK, FreshIsStuck, Stuck, Working
<1>10. ASSUME NEW r \in Runs, Insert(r) PROVE FreshIsStuck'
  BY <1>10, ReconcileAssumption
     DEF Insert, OnPage, Passed, ThisOne, Become, waha, rows, TypeOK, FreshIsStuck, Stuck,
         Working
<1>11. ASSUME NEW r \in Runs, TurnPage(r) PROVE FreshIsStuck'
  BY <1>11, ReconcileAssumption
     DEF TurnPage, PageDone, Become, waha, rows, TypeOK, FreshIsStuck, Stuck, Working
<1>12. ASSUME NEW r \in Runs, LeaveChat(r) PROVE FreshIsStuck'
  BY <1>12, ReconcileAssumption
     DEF LeaveChat, PageDone, NextChat, Become, waha, rows, TypeOK, FreshIsStuck, Stuck, Working
<1>13. ASSUME NEW r \in Runs, Finish(r) PROVE FreshIsStuck'
  BY <1>13, ReconcileAssumption
     DEF Finish, Save, Outcome, Become, Call, Ended, waha, rows, TypeOK, FreshIsStuck, Stuck,
         Working
<1>14. ASSUME NEW r \in Runs, DiscoverFails(r) PROVE FreshIsStuck'
  BY <1>14, ReconcileAssumption
     DEF DiscoverFails, Become, waha, rows, TypeOK, FreshIsStuck, Stuck, Working
<1>15. ASSUME NEW r \in Runs, FetchFails(r) PROVE FreshIsStuck'
  BY <1>15, ReconcileAssumption
     DEF FetchFails, NextChat, Become, waha, rows, TypeOK, FreshIsStuck, Stuck, Working
<1>16. ASSUME NEW r \in Runs, Raise(r) PROVE FreshIsStuck'
  BY <1>16, ReconcileAssumption
     DEF Raise, Save, Become, Call, Ended, Retry, waha, rows, TypeOK, FreshIsStuck, Stuck,
         Working
<1>17. ASSUME NEW r \in Runs, Escape(r) PROVE FreshIsStuck'
  BY <1>17, ReconcileAssumption
     DEF Escape, Become, Call, Ended, Retry, waha, rows, TypeOK, FreshIsStuck, Stuck, Working
<1>18. ASSUME NEW r \in Runs, Kill(r) PROVE FreshIsStuck'
  BY <1>18, ReconcileAssumption
     DEF Kill, Become, Call, Ended, Over, waha, rows, TypeOK, FreshIsStuck, Stuck, Working
<1>19. ASSUME NEW c \in Chats, Arrive(c) PROVE FreshIsStuck'
  BY <1>19, ReconcileAssumption DEF Arrive, waha, rows, TypeOK, FreshIsStuck, Stuck, Working
<1>20. ASSUME NEW m \in Message, Live(m) PROVE FreshIsStuck'
  BY <1>20, ReconcileAssumption DEF Live, waha, rows, TypeOK, FreshIsStuck, Stuck, Working
<1>21. ASSUME RecoverRead PROVE FreshIsStuck'
  BY <1>21, ReconcileAssumption DEF RecoverRead, waha, rows, TypeOK, FreshIsStuck, Stuck, Working
<1>22. ASSUME Recover PROVE FreshIsStuck'
  BY <1>22, ReconcileAssumption DEF Recover, waha, rows, TypeOK, FreshIsStuck, Stuck, Working
<1>23. ASSUME RecoveryConflict PROVE FreshIsStuck'
  BY <1>23, ReconcileAssumption
     DEF RecoveryConflict, waha, rows, TypeOK, FreshIsStuck, Stuck, Working
<1>24. CASE UNCHANGED vars
  BY <1>24, ReconcileAssumption DEF vars, waha, rows, TypeOK, FreshIsStuck, Stuck, Working
<1>25. QED
  BY <1>1, <1>2, <1>3, <1>4, <1>5, <1>6, <1>7, <1>8, <1>9, <1>10, <1>11, <1>12, <1>13, <1>14,
     <1>15, <1>16, <1>17, <1>18, <1>19, <1>20, <1>21, <1>22, <1>23, <1>24
     DEF Next, Work, Fault

\* A step is at most one run's.
LEMMA OneActs ==
  ASSUME TypeOK, [Next]_vars, NEW q \in Runs
  PROVE  run'[q] = run[q] \/ Dispatch(q) \/ Work(q) \/ Fault(q)
<1>1. ASSUME NEW r \in Runs, NEW s, Become(r, s), r # q PROVE run'[q] = run[q]
  BY <1>1 DEF Become, TypeOK
<1>2. ASSUME NEW r \in Runs, Dispatch(r), r # q PROVE run'[q] = run[q]
  BY <1>2, <1>1 DEF Dispatch
<1>3. ASSUME NEW r \in Runs, Begin(r), r # q PROVE run'[q] = run[q]
  BY <1>3, <1>1 DEF Begin
<1>4. ASSUME NEW r \in Runs, Announce(r), r # q PROVE run'[q] = run[q]
  BY <1>4, <1>1 DEF Announce, Save
<1>5. ASSUME NEW r \in Runs, Discover(r), r # q PROVE run'[q] = run[q]
  BY <1>5, <1>1 DEF Discover
<1>6. ASSUME NEW r \in Runs, List(r), r # q PROVE run'[q] = run[q]
  BY <1>6, <1>1 DEF List
<1>7. ASSUME NEW r \in Runs, NEW c \in Chats, Pick(r, c), r # q PROVE run'[q] = run[q]
  BY <1>7, <1>1 DEF Pick
<1>8. ASSUME NEW r \in Runs, Fetch(r), r # q PROVE run'[q] = run[q]
  BY <1>8, <1>1 DEF Fetch
<1>9. ASSUME NEW r \in Runs, ParseFails(r), r # q PROVE run'[q] = run[q]
  BY <1>9, <1>1 DEF ParseFails
<1>10. ASSUME NEW r \in Runs, Skip(r), r # q PROVE run'[q] = run[q]
  BY <1>10, <1>1 DEF Skip
<1>11. ASSUME NEW r \in Runs, Insert(r), r # q PROVE run'[q] = run[q]
  BY <1>11, <1>1 DEF Insert
<1>12. ASSUME NEW r \in Runs, TurnPage(r), r # q PROVE run'[q] = run[q]
  BY <1>12, <1>1 DEF TurnPage
<1>13. ASSUME NEW r \in Runs, LeaveChat(r), r # q PROVE run'[q] = run[q]
  BY <1>13, <1>1 DEF LeaveChat
<1>14. ASSUME NEW r \in Runs, Finish(r), r # q PROVE run'[q] = run[q]
  BY <1>14, <1>1 DEF Finish, Save
<1>15. ASSUME NEW r \in Runs, DiscoverFails(r), r # q PROVE run'[q] = run[q]
  BY <1>15, <1>1 DEF DiscoverFails
<1>16. ASSUME NEW r \in Runs, FetchFails(r), r # q PROVE run'[q] = run[q]
  BY <1>16, <1>1 DEF FetchFails
<1>17. ASSUME NEW r \in Runs, Raise(r), r # q PROVE run'[q] = run[q]
  BY <1>17, <1>1 DEF Raise, Save
<1>18. ASSUME NEW r \in Runs, Escape(r), r # q PROVE run'[q] = run[q]
  BY <1>18, <1>1 DEF Escape
<1>19. ASSUME NEW r \in Runs, Kill(r), r # q PROVE run'[q] = run[q]
  BY <1>19, <1>1 DEF Kill
<1>20. ASSUME NEW c \in Chats, Arrive(c) PROVE run'[q] = run[q]
  BY <1>20 DEF Arrive
<1>21. ASSUME NEW m \in Message, Live(m) PROVE run'[q] = run[q]
  BY <1>21 DEF Live
<1>22. ASSUME RecoverRead PROVE run'[q] = run[q]
  BY <1>22 DEF RecoverRead
<1>23. ASSUME Recover PROVE run'[q] = run[q]
  BY <1>23 DEF Recover
<1>24. ASSUME RecoveryConflict PROVE run'[q] = run[q]
  BY <1>24 DEF RecoveryConflict
<1>25. CASE UNCHANGED vars
  BY <1>25 DEF vars
<1>26. QED
  BY <1>2, <1>3, <1>4, <1>5, <1>6, <1>7, <1>8, <1>9, <1>10, <1>11, <1>12, <1>13, <1>14,
     <1>15, <1>16, <1>17, <1>18, <1>19, <1>20, <1>21, <1>22, <1>23, <1>24, <1>25
     DEF Next, Work, Fault

\* Messages only move back, so what is left stays on the next page or a later one.
LEMMA ReadingKept ==
  ASSUME TypeOK, TypeOK', [Next]_vars, NEW r \in Runs, Reading(r), run'[r] = run[r]
  PROVE  Reading(r)'
<1>1. CASE run[r].pc \notin {"fetch", "page"}
  BY <1>1 DEF Reading
<1>2. CASE run[r].pc \in {"fetch", "page"}
  <2> DEFINE c == run[r].chat
  <2>1. c \in Chats /\ run[r].number \in Nat /\ run[r].began \in Nat /\ run[r].bottom \in Nat /\ run[r].place \in Nat
    BY <1>2, RunTyped DEF Reading, RunState
  <2>2. /\ Len(history[c]) <= Len(history'[c])
        /\ stored \subseteq stored'
        /\ Len(history[c]) \in Nat
        /\ Len(history'[c]) \in Nat
    BY <2>1, Growth DEF TypeOK
  <2>3. run[r].number * Limit \in Nat /\ (run[r].number + 1) * Limit \in Nat
    <3>1. Limit \in Nat /\ run[r].number + 1 \in Nat
      BY <2>1, ReconcileAssumption
    <3>2. QED
      BY <2>1, <3>1, SMT
  <2>4. \A i : Covered(r, i) => Covered(r, i)'
    BY <2>2 DEF Covered
  <2>5. Top(c, run[r].number) <= Len(history'[c]) - run[r].number * Limit
    BY <2>2, <2>3 DEF Top
  <2>6. Top(c, run[r].number + 1) <= Len(history'[c]) - (run[r].number + 1) * Limit
    BY <2>2, <2>3 DEF Top
  <2>7. Top(c, run[r].number) \in Int /\ Top(c, run[r].number + 1) \in Int
    <3>1. run[r].number + 1 \in Nat
      BY <2>1
    <3>2. QED
      BY <2>1, <3>1, TopIsInt
  <2>8. CASE run[r].pc = "fetch"
    <3>1. run[r].number # 0 => (\A i \in Nat : run[r].bottom <= i /\ i <= run[r].began => Covered(r, i))'
      BY <2>4, <2>8 DEF Reading
    <3>2. run[r].number # 0 => run[r].bottom <= (Len(history'[c]) - run[r].number * Limit) + 1
      BY <2>1, <2>2, <2>3, <2>5, <2>7, <2>8 DEF Reading
    <3>3. QED
      BY <2>1, <2>2, <2>8, <3>1, <3>2 DEF Reading, Top
  <2>9. CASE run[r].pc = "page"
    <3>1. (\A i \in Nat : run[r].place < i /\ i <= run[r].began => Covered(r, i))'
      BY <2>4, <2>9 DEF Reading
    <3>2. ~run[r].short => run[r].bottom <= (Len(history'[c]) - (run[r].number + 1) * Limit) + 1
      BY <2>1, <2>2, <2>3, <2>6, <2>7, <2>9 DEF Reading
    <3>3. QED
      BY <2>1, <2>2, <2>9, <3>1, <3>2 DEF Reading, Top
  <2>10. QED
    BY <1>2, <2>8, <2>9
<1>3. QED
  BY <1>1, <1>2

\* A run covers what it passes.
LEMMA ReadingStep ==
  ASSUME TypeOK, TypeOK', HistoryOrdered, [Next]_vars, NEW r \in Runs, Reading(r)
  PROVE  Reading(r)'
<1>1. ASSUME Dispatch(r) PROVE Reading(r)'
  BY <1>1 DEF Dispatch, Become, Call, Over, Reading, TypeOK, RunState
<1>2. ASSUME Begin(r) PROVE Reading(r)'
  BY <1>2 DEF Begin, Become, Reading, TypeOK, RunState
<1>3. ASSUME Announce(r) PROVE Reading(r)'
  BY <1>3 DEF Announce, Save, Become, Reading, TypeOK, RunState
<1>4. ASSUME Discover(r) PROVE Reading(r)'
  BY <1>4 DEF Discover, Become, Reading, TypeOK, RunState
<1>5. ASSUME List(r) PROVE Reading(r)'
  BY <1>5 DEF List, Become, Reading, TypeOK, RunState
<1>6. ASSUME NEW c \in Chats, Pick(r, c) PROVE Reading(r)'
  <2>1. /\ run'[r].pc = "fetch"
        /\ run'[r].chat = c
        /\ run'[r].number = run[r].number
        /\ run'[r].began = run[r].began
    BY <1>6, RunTyped DEF Pick, Become, TypeOK, RunState
  <2>2. run[r].number = 0 /\ run[r].began = 0
    BY <1>6 DEF Pick, Reading
  <2>3. Len(history'[c]) \in Nat /\ MaxPages \in Nat \ {0}
    BY ReconcileAssumption DEF TypeOK
  <2>4. QED
    BY <2>1, <2>2, <2>3 DEF Reading
<1>7. ASSUME Fetch(r) PROVE Reading(r)'
  <2> DEFINE c == run[r].chat
             p == run[r].number
  <2>1. c \in Chats /\ p \in Nat /\ Top(c, p) \in Int /\ Limit \in Nat \ {0} /\ Len(history[c]) \in Nat
    <3>1. c \in Chats /\ p \in Nat
      BY <1>7, RunTyped DEF Fetch, Reading, RunState
    <3>2. Top(c, p) \in Int
      BY <3>1, TopIsInt
    <3>3. QED
      BY <3>1, <3>2, ReconcileAssumption DEF TypeOK
  <2>2. CASE Top(c, p) < 1
    <3>1. run'[r] = NextChat(r)
      BY <1>7, <2>2 DEF Fetch, Become, TypeOK
    <3>2. QED
      BY <3>1 DEF NextChat, Reading
  <2>3. CASE ~(Top(c, p) < 1)
    <3>1. /\ run'[r].pc = "page"
          /\ run'[r].chat = c
          /\ run'[r].number = p
          /\ run'[r].place = Top(c, p)
          /\ run'[r].bottom = Bottom(c, p)
          /\ run'[r].short = (Top(c, p) < Limit)
          /\ run'[r].began = IF p = 0 THEN Len(history[c]) ELSE run[r].began
      BY <1>7, <2>3, RunTyped DEF Fetch, Become, TypeOK, RunState
    <3>2. /\ Top(c, p) <= Len(history[c])
          /\ Top(c, p + 1) = Top(c, p) - Limit
          /\ Top(c, 0) = Len(history[c])
      BY <2>1, TopIsInt
    <3>3. /\ 1 <= Bottom(c, p)
          /\ Bottom(c, p) <= Top(c, p) + 1
          /\ Top(c, p) < Limit => Bottom(c, p) = 1
          /\ ~(Top(c, p) < Limit) => Bottom(c, p) <= Top(c, p + 1) + 1
      BY <2>1, <2>3, <3>2 DEF Bottom
    <3>4. \A i \in Nat : Top(c, p) < i /\ i <= run'[r].began => <<c, i>> \in stored \cup Broken
      BY <1>7, <2>1, <3>1, <3>2, RunTyped DEF Fetch, Reading, Covered, RunState
    <3>5. history' = history /\ stored' = stored
      BY <1>7 DEF Fetch, waha, rows
    <3>6. p < MaxPages /\ run'[r].began <= Len(history[c])
      BY <1>7, <2>1, <3>1 DEF Fetch, Reading
    <3>7. Reading(r)'
      BY <2>1, <3>1, <3>2, <3>3, <3>4, <3>5, <3>6 DEF Reading, Covered, Top
    <3>8. QED
      BY <3>7
  <2>4. QED
    BY <2>2, <2>3
<1>8. ASSUME ParseFails(r) PROVE Reading(r)'
  <2>1. /\ run'[r].pc = "page"
        /\ run'[r].chat = run[r].chat
        /\ run'[r].number = run[r].number
        /\ run'[r].place = run[r].place - 1
        /\ run'[r].bottom = run[r].bottom
        /\ run'[r].short = run[r].short
        /\ run'[r].began = run[r].began
    BY <1>8, RunTyped DEF ParseFails, OnPage, Passed, Become, TypeOK, RunState
  <2>2. /\ history' = history
        /\ stored \subseteq stored'
        /\ <<run[r].chat, run[r].place>> \in stored' \cup Broken
    BY <1>8 DEF ParseFails, ThisOne, waha, rows
  <2>3. run[r].place \in Nat /\ run[r].place - 1 \in Nat /\ run[r].place >= run[r].bottom /\ run[r].bottom \in Nat
        /\ run[r].began \in Nat /\ run[r].pc = "page" /\ run[r].chat \in Chats
    BY <1>8, RunTyped, PlaceDown DEF ParseFails, OnPage, RunState
  <2>4. Len(history[run[r].chat]) \in Nat
    BY <2>3 DEF TypeOK
  <2>5. \A i \in Nat : run'[r].place < i /\ i <= run'[r].began => Covered(r, i)'
    <3>1. \A i \in Nat : run[r].place < i /\ i <= run[r].began => Covered(r, i)
      BY <2>3 DEF Reading
    <3>2. \A i \in Nat : run[r].place - 1 < i => i = run[r].place \/ run[r].place < i
      BY <2>3
    <3>3. QED
      BY <2>1, <2>2, <3>1, <3>2 DEF Covered
  <2>6. QED
    BY <2>1, <2>2, <2>3, <2>4, <2>5 DEF Reading, Top
<1>9. ASSUME Skip(r) PROVE Reading(r)'
  <2>1. /\ run'[r].pc = "page"
        /\ run'[r].chat = run[r].chat
        /\ run'[r].number = run[r].number
        /\ run'[r].place = run[r].place - 1
        /\ run'[r].bottom = run[r].bottom
        /\ run'[r].short = run[r].short
        /\ run'[r].began = run[r].began
    BY <1>9, RunTyped DEF Skip, OnPage, Passed, Become, TypeOK, RunState
  <2>2. /\ history' = history
        /\ stored \subseteq stored'
        /\ <<run[r].chat, run[r].place>> \in stored' \cup Broken
    BY <1>9 DEF Skip, ThisOne, waha, rows
  <2>3. run[r].place \in Nat /\ run[r].place - 1 \in Nat /\ run[r].place >= run[r].bottom /\ run[r].bottom \in Nat
        /\ run[r].began \in Nat /\ run[r].pc = "page" /\ run[r].chat \in Chats
    BY <1>9, RunTyped, PlaceDown DEF Skip, OnPage, RunState
  <2>4. Len(history[run[r].chat]) \in Nat
    BY <2>3 DEF TypeOK
  <2>5. \A i \in Nat : run'[r].place < i /\ i <= run'[r].began => Covered(r, i)'
    <3>1. \A i \in Nat : run[r].place < i /\ i <= run[r].began => Covered(r, i)
      BY <2>3 DEF Reading
    <3>2. \A i \in Nat : run[r].place - 1 < i => i = run[r].place \/ run[r].place < i
      BY <2>3
    <3>3. QED
      BY <2>1, <2>2, <3>1, <3>2 DEF Covered
  <2>6. QED
    BY <2>1, <2>2, <2>3, <2>4, <2>5 DEF Reading, Top
<1>10. ASSUME Insert(r) PROVE Reading(r)'
  <2>1. /\ run'[r].pc = "page"
        /\ run'[r].chat = run[r].chat
        /\ run'[r].number = run[r].number
        /\ run'[r].place = run[r].place - 1
        /\ run'[r].bottom = run[r].bottom
        /\ run'[r].short = run[r].short
        /\ run'[r].began = run[r].began
    BY <1>10, RunTyped DEF Insert, OnPage, Passed, Become, TypeOK, RunState
  <2>2. /\ history' = history
        /\ stored \subseteq stored'
        /\ <<run[r].chat, run[r].place>> \in stored' \cup Broken
    BY <1>10 DEF Insert, ThisOne, waha, rows
  <2>3. run[r].place \in Nat /\ run[r].place - 1 \in Nat /\ run[r].place >= run[r].bottom /\ run[r].bottom \in Nat
        /\ run[r].began \in Nat /\ run[r].pc = "page" /\ run[r].chat \in Chats
    BY <1>10, RunTyped, PlaceDown DEF Insert, OnPage, RunState
  <2>4. Len(history[run[r].chat]) \in Nat
    BY <2>3 DEF TypeOK
  <2>5. \A i \in Nat : run'[r].place < i /\ i <= run'[r].began => Covered(r, i)'
    <3>1. \A i \in Nat : run[r].place < i /\ i <= run[r].began => Covered(r, i)
      BY <2>3 DEF Reading
    <3>2. \A i \in Nat : run[r].place - 1 < i => i = run[r].place \/ run[r].place < i
      BY <2>3
    <3>3. QED
      BY <2>1, <2>2, <3>1, <3>2 DEF Covered
  <2>6. QED
    BY <2>1, <2>2, <2>3, <2>4, <2>5 DEF Reading, Top
<1>11. ASSUME TurnPage(r) PROVE Reading(r)'
  <2>1. /\ run'[r].pc = "fetch"
        /\ run'[r].chat = run[r].chat
        /\ run'[r].number = run[r].number + 1
        /\ run'[r].place = run[r].place
        /\ run'[r].bottom = run[r].bottom
        /\ run'[r].began = run[r].began
    BY <1>11, RunTyped DEF TurnPage, Become, TypeOK, RunState
  <2>2. history' = history /\ stored' = stored
    BY <1>11 DEF TurnPage, waha, rows
  <2>3. run[r].place \in Nat /\ run[r].bottom \in Nat /\ run[r].number \in Nat /\ run[r].began \in Nat
        /\ run[r].pc = "page" /\ run[r].place < run[r].bottom /\ ~run[r].short /\ run[r].number + 1 # MaxPages
        /\ MaxPages \in Nat
    BY <1>11, RunTyped, ReconcileAssumption DEF TurnPage, PageDone, LastPage, RunState
  <2>4. /\ 1 <= run[r].bottom
        /\ run[r].bottom <= Top(run[r].chat, run[r].number + 1) + 1
        /\ run[r].chat \in Chats
        /\ run[r].number < MaxPages
        /\ run[r].began <= Len(history[run[r].chat])
        /\ \A i \in Nat : run[r].bottom <= i /\ i <= run[r].began => Covered(r, i)
    BY <2>3 DEF Reading
  <2>5. (\A i \in Nat : run[r].bottom <= i /\ i <= run[r].began => Covered(r, i))'
    BY <2>1, <2>2, <2>4 DEF Covered
  <2>6. QED
    BY <2>1, <2>2, <2>3, <2>4, <2>5 DEF Reading, Top
<1>12. ASSUME LeaveChat(r) PROVE Reading(r)'
  BY <1>12 DEF LeaveChat, PageDone, NextChat, Become, Reading, TypeOK, RunState
<1>13. ASSUME Finish(r) PROVE Reading(r)'
  BY <1>13 DEF Finish, Save, Outcome, Become, Call, Ended, Reading, TypeOK, RunState
<1>14. ASSUME DiscoverFails(r) PROVE Reading(r)'
  BY <1>14 DEF DiscoverFails, Become, Reading, TypeOK, RunState
<1>15. ASSUME FetchFails(r) PROVE Reading(r)'
  BY <1>15 DEF FetchFails, NextChat, Become, Reading, TypeOK, RunState
<1>16. ASSUME Raise(r) PROVE Reading(r)'
  BY <1>16 DEF Raise, Become, Call, Ended, Retry, Reading, TypeOK
<1>17. ASSUME Escape(r) PROVE Reading(r)'
  BY <1>17 DEF Escape, Become, Call, Ended, Retry, Reading, TypeOK
<1>18. ASSUME Kill(r) PROVE Reading(r)'
  BY <1>18 DEF Kill, Become, Call, Ended, Over, Reading, TypeOK, RunState
<1>19. CASE run'[r] = run[r]
  BY <1>19, ReadingKept
<1>20. QED
  BY OneActs, <1>1, <1>2, <1>3, <1>4, <1>5, <1>6, <1>7, <1>8, <1>9, <1>10, <1>11, <1>12,
     <1>13, <1>14, <1>15, <1>16, <1>17, <1>18, <1>19
     DEF Work, Fault

\* A stored message keeps its time.
LEMMA TimeKept ==
  ASSUME TypeOK, [Next]_vars, NEW t, StoredTime(t)
  PROVE  \E m \in stored' : Exists(m)' /\ history'[m[1]][m[2]] = t
<1>1. PICK m \in stored : Exists(m) /\ history[m[1]][m[2]] = t
  BY DEF StoredTime
<1>2. m[1] \in Chats /\ m[2] \in 1..MaxMessages /\ m \in Message
  BY <1>1 DEF Exists, Message
<1>3. /\ Len(history[m[1]]) \in Nat
      /\ m[2] \in Nat \ {0}
  BY <1>2, ReconcileAssumption DEF TypeOK
<1>4. /\ Len(history[m[1]]) <= Len(history'[m[1]])
      /\ \A i \in 1..Len(history[m[1]]) : history'[m[1]][i] = history[m[1]][i]
      /\ m \in stored'
  BY <1>1, <1>2, Growth
<1>5. m[2] \in 1..Len(history[m[1]])
  BY <1>1, <1>2, <1>3 DEF Exists
<1>6. history'[m[1]][m[2]] = t
  BY <1>1, <1>4, <1>5
<1>7. Exists(m)'
  BY <1>2, <1>4, <1>5, <1>3 DEF Exists, Message
<1>8. QED
  BY <1>4, <1>6, <1>7

\* What a run takes for a watermark is the row's; what it takes for the latest
\* time is that of a message it inserts.
LEMMA RunTimes ==
  ASSUME TypeOK, HistoryOrdered, [Next]_vars, NEW r \in Runs, Reading(r)
  PROVE  /\ run'[r].mark \in {0, run[r].mark, cp.mark}
         /\ \/ run'[r].latest \in {0, run[r].latest}
            \/ \E m \in stored' : /\ m \in Message
                                  /\ m[2] <= Len(history'[m[1]])
                                  /\ history'[m[1]][m[2]] = run'[r].latest
<1> DEFINE Known == /\ run'[r].mark \in {0, run[r].mark, cp.mark}
                    /\ \/ run'[r].latest \in {0, run[r].latest}
                       \/ \E m \in stored' : /\ m \in Message /\ m[2] <= Len(history'[m[1]])
                                             /\ history'[m[1]][m[2]] = run'[r].latest
<1>1. ASSUME Dispatch(r) PROVE Known
  BY <1>1, RunTyped DEF Dispatch, Become, Call, Over, TypeOK, RunState
<1>2. ASSUME Begin(r) PROVE Known
  BY <1>2, RunTyped DEF Begin, Become, TypeOK, RunState
<1>3. ASSUME Announce(r) PROVE Known
  BY <1>3, RunTyped DEF Announce, Save, Become, TypeOK, RunState
<1>4. ASSUME Discover(r) PROVE Known
  BY <1>4, RunTyped DEF Discover, Become, TypeOK, RunState
<1>5. ASSUME List(r) PROVE Known
  BY <1>5, RunTyped DEF List, Become, TypeOK, RunState
<1>6. ASSUME NEW c \in Chats, Pick(r, c) PROVE Known
  BY <1>6, RunTyped DEF Pick, Become, TypeOK, RunState
<1>7. ASSUME Fetch(r) PROVE Known
  BY <1>7, RunTyped DEF Fetch, Become, NextChat, TypeOK, RunState
<1>8. ASSUME ParseFails(r) PROVE Known
  BY <1>8, RunTyped DEF ParseFails, OnPage, Passed, Become, TypeOK, RunState
<1>9. ASSUME Skip(r) PROVE Known
  BY <1>9, RunTyped DEF Skip, OnPage, Passed, Become, TypeOK, RunState
<1>10. ASSUME Insert(r) PROVE Known
  <2> DEFINE t == history[run[r].chat][run[r].place]
  <2>1. run'[r].mark = run[r].mark /\ run'[r].latest \in {t, run[r].latest}
    BY <1>10, RunTyped DEF Insert, Passed, Become, TypeOK, RunState
  <2>2. ThisOne(r) \in stored' /\ history' = history
    BY <1>10 DEF Insert, waha
  <2>3. \E m \in stored' : m \in Message /\ m[2] <= Len(history'[m[1]]) /\ history'[m[1]][m[2]] = t
    BY <1>10, <2>2, PlaceDown DEF Insert, ThisOne, Exists
  <2>4. QED
    BY <2>1, <2>3
<1>11. ASSUME TurnPage(r) PROVE Known
  BY <1>11, RunTyped DEF TurnPage, PageDone, Become, TypeOK, RunState
<1>12. ASSUME LeaveChat(r) PROVE Known
  BY <1>12, RunTyped DEF LeaveChat, PageDone, NextChat, Become, TypeOK, RunState
<1>13. ASSUME Finish(r) PROVE Known
  BY <1>13, RunTyped DEF Finish, Save, Outcome, Become, Call, Ended, TypeOK, RunState
<1>14. ASSUME DiscoverFails(r) PROVE Known
  BY <1>14, RunTyped DEF DiscoverFails, Become, TypeOK, RunState
<1>15. ASSUME FetchFails(r) PROVE Known
  BY <1>15, RunTyped DEF FetchFails, NextChat, Become, TypeOK, RunState
<1>16. ASSUME Raise(r) PROVE Known
  BY <1>16 DEF Raise, Become, Call, Ended, Retry, TypeOK
<1>17. ASSUME Escape(r) PROVE Known
  BY <1>17 DEF Escape, Become, Call, Ended, Retry, TypeOK
<1>18. ASSUME Kill(r) PROVE Known
  BY <1>18, RunTyped DEF Kill, Become, Call, Ended, Over, TypeOK, RunState
<1>19. CASE run'[r] = run[r]
  BY <1>19
<1>20. QED
  BY OneActs, <1>1, <1>2, <1>3, <1>4, <1>5, <1>6, <1>7, <1>8, <1>9, <1>10, <1>11, <1>12,
     <1>13, <1>14, <1>15, <1>16, <1>17, <1>18, <1>19
     DEF Work, Fault

\* A row's watermark comes from a run.
LEMMA RowTime ==
  ASSUME TypeOK, [Next]_vars
  PROVE  cp'.mark = cp.mark \/ (\E q \in Runs : cp'.mark \in {run[q].mark, run[q].latest})
<1> DEFINE FromRun == cp'.mark = cp.mark \/ \E q \in Runs : cp'.mark \in {run[q].mark, run[q].latest}
<1>1. ASSUME NEW r \in Runs, Dispatch(r) PROVE FromRun
  BY <1>1 DEF Dispatch, TypeOK
<1>2. ASSUME NEW r \in Runs, Begin(r) PROVE FromRun
  BY <1>2 DEF Begin, TypeOK
<1>3. ASSUME NEW r \in Runs, Announce(r) PROVE FromRun
  BY <1>3 DEF Announce, Save, TypeOK
<1>4. ASSUME NEW r \in Runs, Discover(r) PROVE FromRun
  BY <1>4 DEF Discover, TypeOK
<1>5. ASSUME NEW r \in Runs, List(r) PROVE FromRun
  BY <1>5 DEF List, TypeOK
<1>6. ASSUME NEW r \in Runs, NEW c \in Chats, Pick(r, c) PROVE FromRun
  BY <1>6 DEF Pick, TypeOK
<1>7. ASSUME NEW r \in Runs, Fetch(r) PROVE FromRun
  BY <1>7 DEF Fetch, TypeOK
<1>8. ASSUME NEW r \in Runs, ParseFails(r) PROVE FromRun
  BY <1>8 DEF ParseFails, TypeOK
<1>9. ASSUME NEW r \in Runs, Skip(r) PROVE FromRun
  BY <1>9 DEF Skip, TypeOK
<1>10. ASSUME NEW r \in Runs, Insert(r) PROVE FromRun
  BY <1>10 DEF Insert, TypeOK
<1>11. ASSUME NEW r \in Runs, TurnPage(r) PROVE FromRun
  BY <1>11 DEF TurnPage, TypeOK
<1>12. ASSUME NEW r \in Runs, LeaveChat(r) PROVE FromRun
  BY <1>12 DEF LeaveChat, TypeOK
<1>13. ASSUME NEW r \in Runs, Finish(r) PROVE FromRun
  BY <1>13, RunTyped DEF Finish, Save, Outcome, TypeOK
<1>14. ASSUME NEW r \in Runs, DiscoverFails(r) PROVE FromRun
  BY <1>14 DEF DiscoverFails, TypeOK
<1>15. ASSUME NEW r \in Runs, FetchFails(r) PROVE FromRun
  BY <1>15 DEF FetchFails, TypeOK
<1>16. ASSUME NEW r \in Runs, Raise(r) PROVE FromRun
  BY <1>16 DEF Raise, Save, TypeOK
<1>17. ASSUME NEW r \in Runs, Escape(r) PROVE FromRun
  BY <1>17 DEF Escape, TypeOK
<1>18. ASSUME NEW r \in Runs, Kill(r) PROVE FromRun
  BY <1>18 DEF Kill, TypeOK
<1>19. ASSUME NEW c \in Chats, Arrive(c) PROVE FromRun
  BY <1>19 DEF Arrive, TypeOK
<1>20. ASSUME NEW m \in Message, Live(m) PROVE FromRun
  BY <1>20 DEF Live, TypeOK
<1>21. ASSUME RecoverRead PROVE FromRun
  BY <1>21 DEF RecoverRead, TypeOK
<1>22. ASSUME Recover PROVE FromRun
  BY <1>22 DEF Recover, TypeOK
<1>23. ASSUME RecoveryConflict PROVE FromRun
  BY <1>23 DEF RecoveryConflict, TypeOK
<1>24. CASE UNCHANGED vars
  BY <1>24 DEF vars, waha, rows, TypeOK
<1>25. QED
  BY <1>1, <1>2, <1>3, <1>4, <1>5, <1>6, <1>7, <1>8, <1>9, <1>10, <1>11, <1>12, <1>13, <1>14,
     <1>15, <1>16, <1>17, <1>18, <1>19, <1>20, <1>21, <1>22, <1>23, <1>24
     DEF Next, Work, Fault

\* What is stored is a message at WAHA.
LEMMA NewRows ==
  ASSUME TypeOK, HistoryOrdered, \A r \in Runs : Reading(r), [Next]_vars
  PROVE  \A m \in stored' : m \in stored \/ Exists(m)
<1> DEFINE OnlyWhatExists == \A m \in stored' : m \in stored \/ Exists(m)
<1>1. ASSUME NEW r \in Runs, Dispatch(r) PROVE OnlyWhatExists
  BY <1>1 DEF Dispatch, rows
<1>2. ASSUME NEW r \in Runs, Begin(r) PROVE OnlyWhatExists
  BY <1>2 DEF Begin, rows
<1>3. ASSUME NEW r \in Runs, Announce(r) PROVE OnlyWhatExists
  BY <1>3 DEF Announce, rows
<1>4. ASSUME NEW r \in Runs, Discover(r) PROVE OnlyWhatExists
  BY <1>4 DEF Discover, rows
<1>5. ASSUME NEW r \in Runs, List(r) PROVE OnlyWhatExists
  BY <1>5 DEF List, rows
<1>6. ASSUME NEW r \in Runs, NEW c \in Chats, Pick(r, c) PROVE OnlyWhatExists
  BY <1>6 DEF Pick, rows
<1>7. ASSUME NEW r \in Runs, Fetch(r) PROVE OnlyWhatExists
  BY <1>7 DEF Fetch, rows
<1>8. ASSUME NEW r \in Runs, ParseFails(r) PROVE OnlyWhatExists
  BY <1>8 DEF ParseFails, rows
<1>9. ASSUME NEW r \in Runs, Skip(r) PROVE OnlyWhatExists
  BY <1>9 DEF Skip, rows
<1>10. ASSUME NEW r \in Runs, Insert(r) PROVE OnlyWhatExists
  BY <1>10, PlaceDown DEF Insert
<1>11. ASSUME NEW r \in Runs, TurnPage(r) PROVE OnlyWhatExists
  BY <1>11 DEF TurnPage, rows
<1>12. ASSUME NEW r \in Runs, LeaveChat(r) PROVE OnlyWhatExists
  BY <1>12 DEF LeaveChat, rows
<1>13. ASSUME NEW r \in Runs, Finish(r) PROVE OnlyWhatExists
  BY <1>13 DEF Finish, rows
<1>14. ASSUME NEW r \in Runs, DiscoverFails(r) PROVE OnlyWhatExists
  BY <1>14 DEF DiscoverFails, rows
<1>15. ASSUME NEW r \in Runs, FetchFails(r) PROVE OnlyWhatExists
  BY <1>15 DEF FetchFails, rows
<1>16. ASSUME NEW r \in Runs, Raise(r) PROVE OnlyWhatExists
  BY <1>16 DEF Raise, rows
<1>17. ASSUME NEW r \in Runs, Escape(r) PROVE OnlyWhatExists
  BY <1>17 DEF Escape, rows
<1>18. ASSUME NEW r \in Runs, Kill(r) PROVE OnlyWhatExists
  BY <1>18 DEF Kill, rows
<1>19. ASSUME NEW c \in Chats, Arrive(c) PROVE OnlyWhatExists
  BY <1>19 DEF Arrive, rows
<1>20. ASSUME NEW m \in Message, Live(m) PROVE OnlyWhatExists
  BY <1>20 DEF Live, rows
<1>21. ASSUME RecoverRead PROVE OnlyWhatExists
  BY <1>21 DEF RecoverRead, rows
<1>22. ASSUME Recover PROVE OnlyWhatExists
  BY <1>22 DEF Recover, rows
<1>23. ASSUME RecoveryConflict PROVE OnlyWhatExists
  BY <1>23 DEF RecoveryConflict, rows
<1>24. CASE UNCHANGED vars
  BY <1>24 DEF vars, waha, rows
<1>25. QED
  BY <1>1, <1>2, <1>3, <1>4, <1>5, <1>6, <1>7, <1>8, <1>9, <1>10, <1>11, <1>12, <1>13, <1>14,
     <1>15, <1>16, <1>17, <1>18, <1>19, <1>20, <1>21, <1>22, <1>23, <1>24
     DEF Next, Work, Fault

\* Watermarks stay the times of stored messages.
LEMMA TimesStep ==
  ASSUME TypeOK, HistoryOrdered, TimesAreStored, \A r \in Runs : Reading(r), [Next]_vars
  PROVE  TimesAreStored'
<1>1. ASSUME NEW m \in stored' PROVE Exists(m)'
  <2>1. Exists(m)
    BY NewRows DEF TimesAreStored
  <2>2. m \in Message /\ m[1] \in Chats /\ m[2] \in Nat /\ m[2] <= Len(history[m[1]])
    BY <2>1, ReconcileAssumption DEF Exists, Message
  <2>3. Len(history[m[1]]) <= Len(history'[m[1]])
    BY <2>2, Growth
  <2>4. Len(history[m[1]]) \in Nat
    BY <2>2 DEF TypeOK
  <2>5. m[2] <= Len(history'[m[1]])
    BY <2>2, <2>3, <2>4, TypeStep DEF TypeOK
  <2>6. QED
    BY <2>2, <2>5 DEF Exists, Message
<1>2. ASSUME NEW r \in Runs, NEW t, t = run'[r].mark, t # 0
      PROVE  \E m \in stored' : Exists(m)' /\ history'[m[1]][m[2]] = t
  <2>1. t \in {run[r].mark, cp.mark}
    BY <1>2, RunTimes
  <2>2. StoredTime(t)
    BY <1>2, <2>1 DEF TimesAreStored, MarkIsStored, StoredTime
  <2>3. QED
    BY <2>2, TimeKept
<1>3. ASSUME NEW r \in Runs, NEW t, t = run'[r].latest, t # 0
      PROVE  \E m \in stored' : Exists(m)' /\ history'[m[1]][m[2]] = t
  <2>1. CASE t = run[r].latest
    <3>1. StoredTime(t)
      BY <1>3, <2>1 DEF TimesAreStored, StoredTime
    <3>2. QED
      BY <3>1, TimeKept
  <2>2. CASE \E m \in stored' : /\ m \in Message
                                /\ m[2] <= Len(history'[m[1]])
                                /\ history'[m[1]][m[2]] = run'[r].latest
    BY <1>3, <2>2, <1>1
  <2>3. QED
    BY <1>3, <2>1, <2>2, RunTimes
<1>4. ASSUME NEW t, t = cp'.mark, t # 0
      PROVE  \E m \in stored' : Exists(m)' /\ history'[m[1]][m[2]] = t
  <2>1. StoredTime(t)
    <3>1. CASE t = cp.mark
      BY <1>4, <3>1 DEF TimesAreStored, MarkIsStored, StoredTime
    <3>2. CASE \E q \in Runs : t \in {run[q].mark, run[q].latest}
      BY <1>4, <3>2 DEF TimesAreStored, StoredTime
    <3>3. QED
      BY <1>4, <3>1, <3>2, RowTime
  <2>2. QED
    BY <2>1, TimeKept
<1>5. \A r \in Runs : /\ run'[r].mark # 0 => \E m \in stored' : Exists(m)' /\ history'[m[1]][m[2]] = run'[r].mark
                      /\ run'[r].latest # 0 => \E m \in stored' : Exists(m)' /\ history'[m[1]][m[2]] = run'[r].latest
  BY <1>2, <1>3
<1>6. cp'.mark # 0 => \E m \in stored' : Exists(m)' /\ history'[m[1]][m[2]] = cp'.mark
  BY <1>4
<1>7. MarkIsStored'
  BY <1>6 DEF MarkIsStored
<1>8. (\A r \in Runs : /\ run[r].mark # 0 => StoredTime(run[r].mark)
                       /\ run[r].latest # 0 => StoredTime(run[r].latest))'
  BY <1>5 DEF StoredTime
<1>9. (\A m \in stored : Exists(m))'
  BY <1>1
<1>10. QED
  BY <1>7, <1>8, <1>9 DEF TimesAreStored

LEMMA InitInv == Init => IInv
<1> SUFFICES ASSUME Init PROVE IInv
  OBVIOUS
<1>1. Ended("idle") \in RunState
  BY EndedTyped DEF Positions
<1>2. TypeOK
  BY <1>1 DEF Init, TypeOK
<1>3. HistoryOrdered /\ TimesAreStored
  BY ReconcileAssumption DEF Init, HistoryOrdered, TimesAreStored, MarkIsStored, Ended, Call
<1>4. \A r \in Runs : Reading(r)
  BY DEF Init, Reading, Ended, Call
<1>5. RunningHasOwner /\ FreshIsStuck
  BY DEF Init, RunningHasOwner, FreshIsStuck
<1>6. QED
  BY <1>2, <1>3, <1>4, <1>5 DEF IInv

LEMMA StepInv == IInv /\ [Next]_vars => IInv'
<1> SUFFICES ASSUME IInv, [Next]_vars PROVE IInv'
  OBVIOUS
<1>1. TypeOK /\ HistoryOrdered /\ TimesAreStored /\ (\A r \in Runs : Reading(r)) /\ RunningHasOwner /\ FreshIsStuck
  BY DEF IInv
<1>2. TypeOK'
  BY <1>1, TypeStep
<1>3. HistoryOrdered' /\ RunningHasOwner' /\ FreshIsStuck'
  BY <1>1, OrderStep, OwnerStep, FreshStep
<1>4. TimesAreStored'
  BY <1>1, TimesStep
<1>5. \A r \in Runs : Reading(r)'
  BY <1>1, <1>2, ReadingStep
<1>6. QED
  BY <1>2, <1>3, <1>4, <1>5 DEF IInv

-----------------------------------------------------------------------------
(* Theorems                                                                *)

\* The inductive invariant holds throughout.
THEOREM Invariance == Spec => []IInv
  BY InitInv, StepInv, PTL DEF Spec

\* Rows and runs keep their types.
THEOREM TypeCorrect == Spec => []TypeOK
<1>1. IInv => TypeOK
  BY DEF IInv
<1>2. QED
  BY <1>1, Invariance, PTL

\* Who left the checkpoint `running` did not return.
THEOREM RunningIsOwned == Spec => []RunningHasOwner
<1>1. IInv => RunningHasOwner
  BY DEF IInv
<1>2. QED
  BY <1>1, Invariance, PTL

\* The watermark is the time of a stored message.
THEOREM MarkHasMessage == Spec => []MarkIsStored
<1>1. IInv => MarkIsStored
  BY DEF IInv, TimesAreStored
<1>2. QED
  BY <1>1, Invariance, PTL

\* A recovery fails no Celery run that is at work.
LEMMA RecoveryFailsTheStuck ==
  ASSUME IInv, [Next]_vars, recovery # "none", recovery' = "none", cp' # cp
  PROVE  cp.status = "running" /\ (cp.by \in Celery => ~Working(cp.by))
<1> DEFINE WasStuck == cp.status = "running" /\ (cp.by \in Celery => ~Working(cp.by))
<1>1. ASSUME NEW r \in Runs, Dispatch(r) PROVE WasStuck
  BY <1>1 DEF Dispatch, waha, rows
<1>2. ASSUME NEW r \in Runs, Begin(r) PROVE WasStuck
  BY <1>2 DEF Begin, waha, rows
<1>3. ASSUME NEW r \in Runs, Announce(r) PROVE WasStuck
  BY <1>3 DEF Announce, Save, IInv, TypeOK
<1>4. ASSUME NEW r \in Runs, Discover(r) PROVE WasStuck
  BY <1>4 DEF Discover, waha, rows
<1>5. ASSUME NEW r \in Runs, List(r) PROVE WasStuck
  BY <1>5 DEF List, waha, rows
<1>6. ASSUME NEW r \in Runs, NEW c \in Chats, Pick(r, c) PROVE WasStuck
  BY <1>6 DEF Pick, waha, rows
<1>7. ASSUME NEW r \in Runs, Fetch(r) PROVE WasStuck
  BY <1>7 DEF Fetch, waha, rows
<1>8. ASSUME NEW r \in Runs, ParseFails(r) PROVE WasStuck
  BY <1>8 DEF ParseFails, waha, rows
<1>9. ASSUME NEW r \in Runs, Skip(r) PROVE WasStuck
  BY <1>9 DEF Skip, waha, rows
<1>10. ASSUME NEW r \in Runs, Insert(r) PROVE WasStuck
  BY <1>10 DEF Insert, waha, rows
<1>11. ASSUME NEW r \in Runs, TurnPage(r) PROVE WasStuck
  BY <1>11 DEF TurnPage, waha, rows
<1>12. ASSUME NEW r \in Runs, LeaveChat(r) PROVE WasStuck
  BY <1>12 DEF LeaveChat, waha, rows
<1>13. ASSUME NEW r \in Runs, Finish(r) PROVE WasStuck
  BY <1>13 DEF Finish, Save, IInv, TypeOK
<1>14. ASSUME NEW r \in Runs, DiscoverFails(r) PROVE WasStuck
  BY <1>14 DEF DiscoverFails, waha, rows
<1>15. ASSUME NEW r \in Runs, FetchFails(r) PROVE WasStuck
  BY <1>15 DEF FetchFails, waha, rows
<1>16. ASSUME NEW r \in Runs, Raise(r) PROVE WasStuck
  BY <1>16 DEF Raise, Save, IInv, TypeOK
<1>17. ASSUME NEW r \in Runs, Escape(r) PROVE WasStuck
  BY <1>17 DEF Escape, waha, rows
<1>18. ASSUME NEW r \in Runs, Kill(r) PROVE WasStuck
  BY <1>18 DEF Kill, waha, rows
<1>19. ASSUME NEW c \in Chats, Arrive(c) PROVE WasStuck
  BY <1>19 DEF Arrive, waha, rows
<1>20. ASSUME NEW m \in Message, Live(m) PROVE WasStuck
  BY <1>20 DEF Live, waha, rows
<1>21. ASSUME RecoverRead PROVE WasStuck
  BY <1>21 DEF RecoverRead, waha, rows
<1>22. ASSUME Recover PROVE WasStuck
  BY <1>22 DEF Recover, IInv, FreshIsStuck, Stuck
<1>23. ASSUME RecoveryConflict PROVE WasStuck
  BY <1>23 DEF RecoveryConflict, waha, rows
<1>24. CASE UNCHANGED vars
  BY <1>24 DEF vars, waha, rows
<1>25. QED
  BY <1>1, <1>2, <1>3, <1>4, <1>5, <1>6, <1>7, <1>8, <1>9, <1>10, <1>11, <1>12, <1>13, <1>14,
     <1>15, <1>16, <1>17, <1>18, <1>19, <1>20, <1>21, <1>22, <1>23, <1>24
     DEF Next, Work, Fault

\* However the request interleaves with runs, it fails none that is at work.
THEOREM RecoverySpares == Spec => RecoverySparesTheLiving
<1>1. IInv /\ [Next]_vars =>
        [(recovery # "none" /\ recovery' = "none" /\ cp' # cp)
            => cp.status = "running" /\ (cp.by \in Celery => ~Working(cp.by))]_vars
  BY RecoveryFailsTheStuck
<1>2. QED
  BY <1>1, Invariance, PTL DEF Spec, RecoverySparesTheLiving

\* A run gives up a chat, without a fault, at an empty page or after its last page.
LEMMA LeavesHow ==
  ASSUME IInv, [Next]_vars, NEW r \in Runs,
         run[r].chat # NoChat, run'[r].chat = NoChat, run'[r].pc = "next", faults' = faults
  PROVE  \/ Fetch(r) /\ Top(run[r].chat, run[r].number) < 1
         \/ LeaveChat(r)
<1> DEFINE Left == \/ Fetch(r) /\ Top(run[r].chat, run[r].number) < 1
                   \/ LeaveChat(r)
<1>1. ASSUME Dispatch(r) PROVE Left
  BY <1>1 DEF Dispatch, Become, Call, Over, IInv, Reading, TypeOK, RunState
<1>2. ASSUME Begin(r) PROVE Left
  BY <1>2 DEF Begin, Become, IInv, Reading, TypeOK, RunState
<1>3. ASSUME Announce(r) PROVE Left
  BY <1>3 DEF Announce, Save, Become, IInv, Reading, TypeOK, RunState
<1>4. ASSUME Discover(r) PROVE Left
  BY <1>4 DEF Discover, Become, IInv, Reading, TypeOK, RunState
<1>5. ASSUME List(r) PROVE Left
  BY <1>5 DEF List, Become, IInv, Reading, TypeOK, RunState
<1>6. ASSUME NEW c \in Chats, Pick(r, c) PROVE Left
  BY <1>6 DEF Pick, Become, IInv, Reading, TypeOK, RunState
<1>7. ASSUME Fetch(r) PROVE Left
  <2>1. CASE Top(run[r].chat, run[r].number) < 1
    BY <1>7, <2>1
  <2>2. CASE ~(Top(run[r].chat, run[r].number) < 1)
    <3>1. run'[r].pc = "page"
      BY <1>7, <2>2, RunTyped DEF Fetch, Become, IInv, TypeOK, RunState
    <3>2. QED
      BY <3>1
  <2>3. QED
    BY <2>1, <2>2
<1>8. ASSUME ParseFails(r) PROVE Left
  BY <1>8 DEF ParseFails, OnPage, Passed, Become, IInv, Reading, TypeOK, RunState
<1>9. ASSUME Skip(r) PROVE Left
  BY <1>9 DEF Skip, OnPage, Passed, Become, IInv, Reading, TypeOK, RunState
<1>10. ASSUME Insert(r) PROVE Left
  BY <1>10 DEF Insert, OnPage, Passed, ThisOne, Become, IInv, Reading, TypeOK, RunState
<1>11. ASSUME TurnPage(r) PROVE Left
  BY <1>11 DEF TurnPage, PageDone, Become, IInv, Reading, TypeOK, RunState
<1>12. ASSUME LeaveChat(r) PROVE Left
  BY <1>12
<1>13. ASSUME Finish(r) PROVE Left
  BY <1>13 DEF Finish, Save, Outcome, Become, Call, Ended, IInv, Reading, TypeOK, RunState
<1>14. ASSUME DiscoverFails(r) PROVE Left
  BY <1>14 DEF DiscoverFails, Become, IInv, Reading, TypeOK, RunState
<1>15. ASSUME FetchFails(r) PROVE Left
  BY <1>15 DEF FetchFails, NextChat, Become, IInv, Reading, TypeOK, RunState
<1>16. ASSUME Raise(r) PROVE Left
  BY <1>16 DEF Raise, Become, Call, Ended, Retry, IInv, TypeOK
<1>17. ASSUME Escape(r) PROVE Left
  BY <1>17 DEF Escape, Become, Call, Ended, Retry, IInv, TypeOK
<1>18. ASSUME Kill(r) PROVE Left
  BY <1>18 DEF Kill, Become, Call, Ended, Over, IInv, Reading, TypeOK, RunState
<1>19. run'[r] # run[r]
  OBVIOUS
<1>20. QED
  BY OneActs, <1>1, <1>2, <1>3, <1>4, <1>5, <1>6, <1>7, <1>8, <1>9, <1>10, <1>11, <1>12,
     <1>13, <1>14, <1>15, <1>16, <1>17, <1>18, <1>19
     DEF Work, Fault, IInv

\* What is in the window is stored when a run leaves.
LEMMA WindowRead ==
  ASSUME IInv, [Next]_vars, NEW r \in Runs,
         run[r].chat # NoChat, run'[r].chat = NoChat, run'[r].pc = "next", faults' = faults,
         NEW i \in 1..run[r].began, InWindow(r, i)
  PROVE  Covered(r, i)
<1> DEFINE c == run[r].chat
           p == run[r].number
<1>1. /\ run[r] \in RunState
      /\ Reading(r)
      /\ TypeOK
      /\ run[r].pc \in {"fetch", "page"}
  BY RunTyped DEF IInv, Reading
<1>2. c \in Chats /\ p \in Nat /\ p + 1 \in Nat /\ run[r].began \in Nat /\ run[r].bottom \in Nat /\ run[r].place \in Nat
  BY <1>1 DEF Reading, RunState
<1>3. i \in Nat /\ 1 <= i /\ i <= run[r].began /\ run[r].began <= Len(history[c]) /\ Len(history[c]) \in Nat
  BY <1>1, <1>2 DEF Reading, TypeOK
<1>4. CASE Fetch(r) /\ Top(c, p) < 1
  <2>1. Top(c, p) \in Int /\ Top(c, 0) = Len(history[c]) /\ run[r].pc = "fetch"
    BY <1>1, <1>2, <1>4, TopIsInt DEF Fetch
  <2>2. p # 0
    <3>1. Top(c, 0) >= 1
      BY <1>2, <1>3, <2>1
    <3>2. CASE p = 0
      <4>1. Top(c, p) = Top(c, 0)
        BY <3>2
      <4>2. QED
        BY <1>4, <2>1, <3>1, <4>1
    <3>3. QED
      BY <3>2
  <2>3. run[r].bottom <= i
    BY <1>1, <1>2, <1>3, <1>4, <2>1, <2>2 DEF Reading
  <2>4. QED
    BY <1>1, <1>3, <2>1, <2>2, <2>3 DEF Reading
<1>5. CASE LeaveChat(r)
  <2>1. /\ run[r].pc = "page"
        /\ run[r].place < run[r].bottom
        /\ LastPage(r)
    BY <1>5 DEF LeaveChat, PageDone
  <2>2. CASE run[r].bottom <= i
    BY <1>1, <1>2, <1>3, <2>1, <2>2 DEF Reading
  <2>3. CASE i < run[r].bottom
    <3>1. ~run[r].short
      BY <1>1, <1>2, <1>3, <2>1, <2>3 DEF Reading
    <3>2. ~CaughtUp(r)
      <4>1. run[r].bottom <= run[r].place + 1 /\ run[r].place <= Len(history[c])
        BY <1>1, <2>1 DEF Reading
      <4>2. run[r].bottom \in 1..Len(history[c]) \/ run[r].bottom = Len(history[c]) + 1
        BY <1>2, <1>3, <2>1, <2>3, <4>1
      <4>3. run[r].bottom <= Len(history[c])
        <5>1. run[r].bottom <= Top(c, p + 1) + 1
          BY <1>1, <2>1, <3>1 DEF Reading
        <5>2. Top(c, p) \in Int /\ Top(c, p) <= Len(history[c]) /\ Top(c, p + 1) = Top(c, p) - Limit
          BY <1>1, <1>2, TopIsInt
        <5>3. Limit \in Nat \ {0}
          BY ReconcileAssumption
        <5>4. QED
          BY <1>2, <1>3, <5>1, <5>2, <5>3
      <4>4. history[c][i] <= history[c][run[r].bottom]
        BY <1>2, <1>3, <2>3, <4>2, <4>3 DEF IInv, HistoryOrdered
      <4>5. history[c][i] \in Nat /\ history[c][run[r].bottom] \in Nat /\ run[r].mark \in Nat
        <5>1. run[r].mark \in Nat /\ history[c] \in Seq(Nat)
          BY <1>1, <1>2 DEF TypeOK, RunState
        <5>2. i \in 1..Len(history[c]) /\ run[r].bottom \in 1..Len(history[c])
          BY <1>2, <1>3, <4>2, <4>3
        <5>3. QED
          BY <5>1, <5>2
      <4>6. QED
        BY <4>4, <4>5 DEF CaughtUp, InWindow
    <3>3. p + 1 # MaxPages
      <4>1. CASE p + 1 = MaxPages
        <5>1. run[r].bottom <= Top(c, MaxPages) + 1
          BY <1>1, <2>1, <3>1, <4>1 DEF Reading
        <5>2. MaxPages * Limit \in Nat
          BY ReconcileAssumption, SMT
        <5>3. Len(history[c]) - i >= MaxPages * Limit
          BY <1>2, <1>3, <2>3, <5>1, <5>2 DEF Top
        <5>4. QED
          BY <1>3, <5>2, <5>3 DEF InWindow
      <4>2. QED
        BY <4>1
    <3>4. QED
      BY <2>1, <3>1, <3>2, <3>3 DEF LastPage
  <2>4. QED
    BY <1>2, <1>3, <2>2, <2>3
<1>6. QED
  BY <1>4, <1>5, LeavesHow

\* A run leaves no message of its window unstored.
THEOREM ReadsWindows == Spec => ReadsItsWindow
<1>1. IInv /\ [Next]_vars =>
        [\A r \in Runs :
            (run[r].chat # NoChat /\ run'[r].chat = NoChat /\ run'[r].pc = "next" /\ faults' = faults)
            => \A i \in 1..run[r].began :
                   InWindow(r, i) => <<run[r].chat, i>> \in stored \cup Broken]_vars
  BY WindowRead DEF Covered
<1>2. QED
  BY <1>1, Invariance, PTL DEF Spec, ReadsItsWindow
=============================================================================
