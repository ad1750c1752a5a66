---------------------------- MODULE IngestProofs ----------------------------
(***************************************************************************)
(* Theorems about Ingest for any number of messages, deliveries, threads   *)
(* and reconciling processes, and for threads that end anywhere.           *)
(***************************************************************************)
EXTENDS Ingest, TLAPS

-----------------------------------------------------------------------------
(* The inductive invariant                                                 *)

\* Where a thread stands says what it works on.
ThreadsPlaced ==
    /\ \A w \in Writers : at[w].pc # "idle" => at[w].on \in Events
    /\ \A w \in Writers : at[w].pc \in {"store", "engine", "mark"} => at[w].on \in Messages \ Broken
    /\ \A j \in Jobs : at[j].pc \in {"idle", "store"}
    /\ \A h \in Hooks : at[h].pc = "mark" => Stored(at[h].on)
    /\ \A h \in Hooks : at[h].pc = "engine" => at[h].on \in Inbound

ParsedOnly == \A m \in Messages : Stored(m) => m \notin Broken

\* The thread that inserted a message is the only one that takes it to the
\* engine, and it has not been there.
EngineOnce ==
    /\ \A m \in Messages : engaged[m] <= 1 /\ (engaged[m] > 0 => source[m] = "webhook")
    /\ \A h \in Hooks : at[h].pc = "engine" => source[at[h].on] = "webhook" /\ engaged[at[h].on] = 0
    /\ \A g, h \in Hooks : at[g].pc = "engine" /\ at[h].pc = "engine" /\ at[g].on = at[h].on => g = h

\* A time that an open transaction has read was committed, and the chat has
\* had one since.
ActivityKnown ==
    /\ \A c \in Chats : last[c] = 0 => \A m \in Messages : Stored(m) => ChatOf[m] # c
    /\ \A c \in Chats : last[c] # 0 => \E m \in Messages : Stored(m) /\ ChatOf[m] = c /\ last[c] = At[m]
    /\ \A w \in Writers : at[w].pc = "store" /\ at[w].saw > 0 => last[ChatOf[at[w].on]] # 0

Resolutions ==
    /\ ResolutionIsRight
    /\ \A e \in Notices : event[e] \in {"none", "pending", "unsupported"}

IInv ==
    /\ TypeOK
    /\ ThreadsPlaced
    /\ ParsedOnly
    /\ EngineOnce
    /\ ActivityKnown
    /\ Resolutions

-----------------------------------------------------------------------------
(* Steps                                                                   *)

\* Rows and threads keep their types.
LEMMA TypeStep ==
  ASSUME TypeOK, ThreadsPlaced, [Next]_vars
  PROVE  TypeOK'
<1>1. ASSUME NEW h \in Hooks, Refuse(h) PROVE TypeOK'
  BY <1>1, IngestAssumption
     DEF Refuse, Resolve, Go, Idle, db, TypeOK, ThreadsPlaced, Position, Status, Events, Writers
<1>2. ASSUME NEW h \in Hooks, Fail(h) PROVE TypeOK'
  BY <1>2, IngestAssumption
     DEF Fail, Resolve, Go, Idle, db, TypeOK, ThreadsPlaced, Position, Status, Events, Writers
<1>3. ASSUME NEW h \in Hooks, OpenLive(h) PROVE TypeOK'
  BY <1>3, IngestAssumption
     DEF OpenLive, Read, Go, db, TypeOK, ThreadsPlaced, Position, Status, Events, Writers
<1>4. ASSUME NEW h \in Hooks, CommitLive(h) PROVE TypeOK'
  BY <1>4, IngestAssumption
     DEF CommitLive, Insert, Bumped, Step, Go, Storing, db, TypeOK, ThreadsPlaced, Position,
         Status, Events, Writers
<1>5. ASSUME NEW h \in Hooks, DuplicateLive(h) PROVE TypeOK'
  BY <1>5, IngestAssumption
     DEF DuplicateLive, Step, Go, Storing, db, TypeOK, ThreadsPlaced, Position, Status, Events,
         Writers
<1>6. ASSUME NEW h \in Hooks, Engage(h) PROVE TypeOK'
  BY <1>6, IngestAssumption
     DEF Engage, Step, Go, db, TypeOK, ThreadsPlaced, Position, Status, Events, Writers
<1>7. ASSUME NEW h \in Hooks, Mark(h) PROVE TypeOK'
  BY <1>7, IngestAssumption
     DEF Mark, Resolve, Go, Idle, db, TypeOK, ThreadsPlaced, Position, Status, Events, Writers
<1>8. ASSUME NEW h \in Hooks, NEW e \in Events, Deliver(h, e) PROVE TypeOK'
  BY <1>8, IngestAssumption
     DEF Deliver, Go, Busy, Resolved, db, TypeOK, ThreadsPlaced, Position, Status, Events,
         Writers
<1>9. ASSUME NEW j \in Jobs, CommitBackfill(j) PROVE TypeOK'
  BY <1>9, IngestAssumption
     DEF CommitBackfill, Insert, Bumped, Go, Idle, Storing, db, TypeOK, ThreadsPlaced,
         Position, Status, Events, Writers
<1>10. ASSUME NEW j \in Jobs, DuplicateBackfill(j) PROVE TypeOK'
  BY <1>10, IngestAssumption
     DEF DuplicateBackfill, Go, Idle, Storing, db, TypeOK, ThreadsPlaced, Position, Status,
         Events, Writers
<1>11. ASSUME NEW j \in Jobs, NEW m \in Messages, OpenBackfill(j, m) PROVE TypeOK'
  BY <1>11, IngestAssumption
     DEF OpenBackfill, Read, Go, Busy, db, TypeOK, ThreadsPlaced, Position, Status, Events,
         Writers
<1>12. ASSUME NEW w \in Writers, Die(w) PROVE TypeOK'
  BY <1>12, IngestAssumption
     DEF Die, Go, Idle, Busy, db, TypeOK, ThreadsPlaced, Position, Status, Events, Writers
<1>13. CASE UNCHANGED vars
  BY <1>13, IngestAssumption
     DEF vars, db, TypeOK, ThreadsPlaced, Position, Status, Events, Writers
<1>14. QED
  BY <1>1, <1>2, <1>3, <1>4, <1>5, <1>6, <1>7, <1>8, <1>9, <1>10, <1>11, <1>12, <1>13
     DEF Next, Attempt

\* Threads stay where they may be.
LEMMA PlacedStep ==
  ASSUME TypeOK, ThreadsPlaced, EngineOnce, [Next]_vars
  PROVE  ThreadsPlaced'
<1>1. ASSUME NEW h \in Hooks, Refuse(h) PROVE ThreadsPlaced'
  BY <1>1, IngestAssumption
     DEF Refuse, Resolve, Go, Idle, db, TypeOK, ThreadsPlaced, EngineOnce, Position, Events,
         Writers, Stored
<1>2. ASSUME NEW h \in Hooks, Fail(h) PROVE ThreadsPlaced'
  BY <1>2, IngestAssumption
     DEF Fail, Resolve, Go, Idle, db, TypeOK, ThreadsPlaced, EngineOnce, Position, Events,
         Writers, Stored
<1>3. ASSUME NEW h \in Hooks, OpenLive(h) PROVE ThreadsPlaced'
  BY <1>3, IngestAssumption
     DEF OpenLive, Read, Go, db, TypeOK, ThreadsPlaced, EngineOnce, Position, Events, Writers,
         Stored
<1>4. ASSUME NEW h \in Hooks, CommitLive(h) PROVE ThreadsPlaced'
  BY <1>4, IngestAssumption
     DEF CommitLive, Insert, Bumped, Step, Go, Storing, db, TypeOK, ThreadsPlaced, EngineOnce,
         Position, Events, Writers, Stored
<1>5. ASSUME NEW h \in Hooks, DuplicateLive(h) PROVE ThreadsPlaced'
  BY <1>5, IngestAssumption
     DEF DuplicateLive, Step, Go, Storing, db, TypeOK, ThreadsPlaced, EngineOnce, Position,
         Events, Writers, Stored
<1>6. ASSUME NEW h \in Hooks, Engage(h) PROVE ThreadsPlaced'
  BY <1>6, IngestAssumption
     DEF Engage, Step, Go, db, TypeOK, ThreadsPlaced, EngineOnce, Position, Events, Writers,
         Stored
<1>7. ASSUME NEW h \in Hooks, Mark(h) PROVE ThreadsPlaced'
  BY <1>7, IngestAssumption
     DEF Mark, Resolve, Go, Idle, db, TypeOK, ThreadsPlaced, EngineOnce, Position, Events,
         Writers, Stored
<1>8. ASSUME NEW h \in Hooks, NEW e \in Events, Deliver(h, e) PROVE ThreadsPlaced'
  BY <1>8, IngestAssumption
     DEF Deliver, Go, Busy, Resolved, db, TypeOK, ThreadsPlaced, EngineOnce, Position, Events,
         Writers, Stored
<1>9. ASSUME NEW j \in Jobs, CommitBackfill(j) PROVE ThreadsPlaced'
  BY <1>9, IngestAssumption
     DEF CommitBackfill, Insert, Bumped, Go, Idle, Storing, db, TypeOK, ThreadsPlaced,
         EngineOnce, Position, Events, Writers, Stored
<1>10. ASSUME NEW j \in Jobs, DuplicateBackfill(j) PROVE ThreadsPlaced'
  BY <1>10, IngestAssumption
     DEF DuplicateBackfill, Go, Idle, Storing, db, TypeOK, ThreadsPlaced, EngineOnce, Position,
         Events, Writers, Stored
<1>11. ASSUME NEW j \in Jobs, NEW m \in Messages, OpenBackfill(j, m) PROVE ThreadsPlaced'
  BY <1>11, IngestAssumption
     DEF OpenBackfill, Read, Go, Busy, db, TypeOK, ThreadsPlaced, EngineOnce, Position, Events,
         Writers, Stored
<1>12. ASSUME NEW w \in Writers, Die(w) PROVE ThreadsPlaced'
  BY <1>12, IngestAssumption
     DEF Die, Go, Idle, Busy, db, TypeOK, ThreadsPlaced, EngineOnce, Position, Events, Writers,
         Stored
<1>13. CASE UNCHANGED vars
  BY <1>13, IngestAssumption
     DEF vars, db, TypeOK, ThreadsPlaced, EngineOnce, Position, Events, Writers, Stored
<1>14. QED
  BY <1>1, <1>2, <1>3, <1>4, <1>5, <1>6, <1>7, <1>8, <1>9, <1>10, <1>11, <1>12, <1>13
     DEF Next, Attempt

\* What cannot be parsed is not stored.
LEMMA ParsedStep ==
  ASSUME TypeOK, ThreadsPlaced, ParsedOnly, [Next]_vars
  PROVE  ParsedOnly'
<1>1. ASSUME NEW h \in Hooks, Refuse(h) PROVE ParsedOnly'
  BY <1>1, IngestAssumption
     DEF Refuse, Resolve, Go, Idle, db, TypeOK, ThreadsPlaced, ParsedOnly, Writers, Stored
<1>2. ASSUME NEW h \in Hooks, Fail(h) PROVE ParsedOnly'
  BY <1>2, IngestAssumption
     DEF Fail, Resolve, Go, Idle, db, TypeOK, ThreadsPlaced, ParsedOnly, Writers, Stored
<1>3. ASSUME NEW h \in Hooks, OpenLive(h) PROVE ParsedOnly'
  BY <1>3, IngestAssumption
     DEF OpenLive, Read, Go, db, TypeOK, ThreadsPlaced, ParsedOnly, Writers, Stored
<1>4. ASSUME NEW h \in Hooks, CommitLive(h) PROVE ParsedOnly'
  BY <1>4, IngestAssumption
     DEF CommitLive, Insert, Bumped, Step, Go, Storing, db, TypeOK, ThreadsPlaced, ParsedOnly,
         Writers, Stored
<1>5. ASSUME NEW h \in Hooks, DuplicateLive(h) PROVE ParsedOnly'
  BY <1>5, IngestAssumption
     DEF DuplicateLive, Step, Go, Storing, db, TypeOK, ThreadsPlaced, ParsedOnly, Writers,
         Stored
<1>6. ASSUME NEW h \in Hooks, Engage(h) PROVE ParsedOnly'
  BY <1>6, IngestAssumption
     DEF Engage, Step, Go, db, TypeOK, ThreadsPlaced, ParsedOnly, Writers, Stored
<1>7. ASSUME NEW h \in Hooks, Mark(h) PROVE ParsedOnly'
  BY <1>7, IngestAssumption
     DEF Mark, Resolve, Go, Idle, db, TypeOK, ThreadsPlaced, ParsedOnly, Writers, Stored
<1>8. ASSUME NEW h \in Hooks, NEW e \in Events, Deliver(h, e) PROVE ParsedOnly'
  BY <1>8, IngestAssumption
     DEF Deliver, Go, Busy, Resolved, db, TypeOK, ThreadsPlaced, ParsedOnly, Writers, Stored
<1>9. ASSUME NEW j \in Jobs, CommitBackfill(j) PROVE ParsedOnly'
  BY <1>9, IngestAssumption
     DEF CommitBackfill, Insert, Bumped, Go, Idle, Storing, db, TypeOK, ThreadsPlaced,
         ParsedOnly, Writers, Stored
<1>10. ASSUME NEW j \in Jobs, DuplicateBackfill(j) PROVE ParsedOnly'
  BY <1>10, IngestAssumption
     DEF DuplicateBackfill, Go, Idle, Storing, db, TypeOK, ThreadsPlaced, ParsedOnly, Writers,
         Stored
<1>11. ASSUME NEW j \in Jobs, NEW m \in Messages, OpenBackfill(j, m) PROVE ParsedOnly'
  BY <1>11, IngestAssumption
     DEF OpenBackfill, Read, Go, Busy, db, TypeOK, ThreadsPlaced, ParsedOnly, Writers, Stored
<1>12. ASSUME NEW w \in Writers, Die(w) PROVE ParsedOnly'
  BY <1>12, IngestAssumption
     DEF Die, Go, Idle, Busy, db, TypeOK, ThreadsPlaced, ParsedOnly, Writers, Stored
<1>13. CASE UNCHANGED vars
  BY <1>13, IngestAssumption DEF vars, db, TypeOK, ThreadsPlaced, ParsedOnly, Writers, Stored
<1>14. QED
  BY <1>1, <1>2, <1>3, <1>4, <1>5, <1>6, <1>7, <1>8, <1>9, <1>10, <1>11, <1>12, <1>13
     DEF Next, Attempt

\* A message goes to the engine from its insert only.
LEMMA EngineStep ==
  ASSUME TypeOK, ThreadsPlaced, EngineOnce, [Next]_vars
  PROVE  EngineOnce'
<1>1. ASSUME NEW h \in Hooks, Refuse(h) PROVE EngineOnce'
  BY <1>1, IngestAssumption
     DEF Refuse, Resolve, Go, Idle, db, TypeOK, ThreadsPlaced, EngineOnce, Writers, Stored
<1>2. ASSUME NEW h \in Hooks, Fail(h) PROVE EngineOnce'
  BY <1>2, IngestAssumption
     DEF Fail, Resolve, Go, Idle, db, TypeOK, ThreadsPlaced, EngineOnce, Writers, Stored
<1>3. ASSUME NEW h \in Hooks, OpenLive(h) PROVE EngineOnce'
  BY <1>3, IngestAssumption
     DEF OpenLive, Read, Go, db, TypeOK, ThreadsPlaced, EngineOnce, Writers, Stored
<1>4. ASSUME NEW h \in Hooks, CommitLive(h) PROVE EngineOnce'
  BY <1>4, IngestAssumption
     DEF CommitLive, Insert, Bumped, Step, Go, Storing, db, TypeOK, ThreadsPlaced, EngineOnce,
         Writers, Stored
<1>5. ASSUME NEW h \in Hooks, DuplicateLive(h) PROVE EngineOnce'
  BY <1>5, IngestAssumption
     DEF DuplicateLive, Step, Go, Storing, db, TypeOK, ThreadsPlaced, EngineOnce, Writers,
         Stored
<1>6. ASSUME NEW h \in Hooks, Engage(h) PROVE EngineOnce'
  BY <1>6, IngestAssumption
     DEF Engage, Step, Go, db, TypeOK, ThreadsPlaced, EngineOnce, Writers, Stored
<1>7. ASSUME NEW h \in Hooks, Mark(h) PROVE EngineOnce'
  BY <1>7, IngestAssumption
     DEF Mark, Resolve, Go, Idle, db, TypeOK, ThreadsPlaced, EngineOnce, Writers, Stored
<1>8. ASSUME NEW h \in Hooks, NEW e \in Events, Deliver(h, e) PROVE EngineOnce'
  BY <1>8, IngestAssumption
     DEF Deliver, Go, Busy, Resolved, db, TypeOK, ThreadsPlaced, EngineOnce, Writers, Stored
<1>9. ASSUME NEW j \in Jobs, CommitBackfill(j) PROVE EngineOnce'
  BY <1>9, IngestAssumption
     DEF CommitBackfill, Insert, Bumped, Go, Idle, Storing, db, TypeOK, ThreadsPlaced,
         EngineOnce, Writers, Stored
<1>10. ASSUME NEW j \in Jobs, DuplicateBackfill(j) PROVE EngineOnce'
  BY <1>10, IngestAssumption
     DEF DuplicateBackfill, Go, Idle, Storing, db, TypeOK, ThreadsPlaced, EngineOnce, Writers,
         Stored
<1>11. ASSUME NEW j \in Jobs, NEW m \in Messages, OpenBackfill(j, m) PROVE EngineOnce'
  BY <1>11, IngestAssumption
     DEF OpenBackfill, Read, Go, Busy, db, TypeOK, ThreadsPlaced, EngineOnce, Writers, Stored
<1>12. ASSUME NEW w \in Writers, Die(w) PROVE EngineOnce'
  BY <1>12, IngestAssumption
     DEF Die, Go, Idle, Busy, db, TypeOK, ThreadsPlaced, EngineOnce, Writers, Stored
<1>13. CASE UNCHANGED vars
  BY <1>13, IngestAssumption DEF vars, db, TypeOK, ThreadsPlaced, EngineOnce, Writers, Stored
<1>14. QED
  BY <1>1, <1>2, <1>3, <1>4, <1>5, <1>6, <1>7, <1>8, <1>9, <1>10, <1>11, <1>12, <1>13
     DEF Next, Attempt

\* An insert leaves its chat a time that a stored message has.
LEMMA InsertActivity ==
  ASSUME TypeOK, ThreadsPlaced, ActivityKnown,
         NEW w \in Writers, NEW m \in Messages, Storing(w), at[w].on = m, Insert(w, m),
         \A v \in Writers : at'[v].pc = "store" => at'[v] = at[v]
  PROVE  ActivityKnown'
<1>1. ChatOf[m] \in Chats /\ At[m] \in Nat \ {0} /\ at[w].saw \in Nat
  BY IngestAssumption DEF TypeOK, Position, ThreadsPlaced, Storing
<1>2. /\ Stored(m)'
      /\ \A n \in Messages : Stored(n) => Stored(n)'
  BY <1>1 DEF Insert, Stored, TypeOK
<1>3. \A n \in Messages : Stored(n)' => n = m \/ Stored(n)
  BY <1>1 DEF Insert, Stored, TypeOK
<1>4. CASE At[m] > at[w].saw
  <2>1. last' = [last EXCEPT ![ChatOf[m]] = At[m]]
    BY <1>4 DEF Insert, Bumped
  <2>2. \A c \in Chats : last'[c] = IF c = ChatOf[m] THEN At[m] ELSE last[c]
    BY <2>1 DEF TypeOK
  <2>3. \A v \in Writers : at'[v].pc = "store" => at'[v] = at[v] /\ ChatOf[at[v].on] \in Chats
    BY IngestAssumption DEF ThreadsPlaced
  <2>4. (\A v \in Writers : at[v].pc = "store" /\ at[v].saw > 0 => last[ChatOf[at[v].on]] # 0)'
    BY <1>1, <2>2, <2>3 DEF ActivityKnown
  <2>5. \A c \in Chats : last'[c] = 0 => \A n \in Messages : Stored(n)' => ChatOf[n] # c
    BY <1>1, <1>3, <2>2 DEF ActivityKnown
  <2>6. ASSUME NEW c \in Chats, last'[c] # 0
        PROVE  \E n \in Messages : Stored(n)' /\ ChatOf[n] = c /\ last'[c] = At[n]
    <3>1. CASE c = ChatOf[m]
      BY <1>1, <1>2, <2>2, <3>1
    <3>2. CASE c # ChatOf[m]
      <4>1. PICK n \in Messages : Stored(n) /\ ChatOf[n] = c /\ last[c] = At[n]
        BY <2>2, <2>6, <3>2 DEF ActivityKnown
      <4>2. QED
        BY <1>2, <2>2, <3>2, <4>1
    <3>3. QED
      BY <3>1, <3>2
  <2>7. QED
    BY <2>4, <2>5, <2>6 DEF ActivityKnown
<1>5. CASE ~(At[m] > at[w].saw)
  <2>1. last' = last
    BY <1>5 DEF Insert, Bumped
  <2>2. last[ChatOf[m]] # 0
    BY <1>1, <1>5 DEF ActivityKnown, Storing
  <2>3. QED
    BY <1>1, <1>2, <1>3, <2>1, <2>2, IngestAssumption DEF ActivityKnown
<1>6. QED
  BY <1>4, <1>5

\* The activity time stays that of a stored message.
LEMMA ActivityStep ==
  ASSUME TypeOK, ThreadsPlaced, ActivityKnown, [Next]_vars
  PROVE  ActivityKnown'
<1>1. ASSUME NEW h \in Hooks, Refuse(h) PROVE ActivityKnown'
  BY <1>1, IngestAssumption
     DEF Refuse, Resolve, Go, Idle, db, TypeOK, ThreadsPlaced, ActivityKnown, Position,
         Writers, Stored
<1>2. ASSUME NEW h \in Hooks, Fail(h) PROVE ActivityKnown'
  BY <1>2, IngestAssumption
     DEF Fail, Resolve, Go, Idle, db, TypeOK, ThreadsPlaced, ActivityKnown, Position, Writers,
         Stored
<1>3. ASSUME NEW h \in Hooks, OpenLive(h) PROVE ActivityKnown'
  BY <1>3, IngestAssumption
     DEF OpenLive, Read, Go, db, TypeOK, ThreadsPlaced, ActivityKnown, Position, Writers, Stored
<1>4. ASSUME NEW h \in Hooks, CommitLive(h) PROVE ActivityKnown'
  <2>1. \A v \in Writers : at'[v].pc = "store" => at'[v] = at[v]
    BY <1>4 DEF CommitLive, Step, Go, TypeOK
  <2>2. h \in Writers /\ Storing(h) /\ at[h].on \in Messages /\ Insert(h, at[h].on)
    BY <1>4 DEF CommitLive, Storing, ThreadsPlaced, Writers
  <2>3. QED
    BY <2>1, <2>2, InsertActivity
<1>5. ASSUME NEW h \in Hooks, DuplicateLive(h) PROVE ActivityKnown'
  BY <1>5, IngestAssumption
     DEF DuplicateLive, Step, Go, Storing, db, TypeOK, ThreadsPlaced, ActivityKnown, Position,
         Writers, Stored
<1>6. ASSUME NEW h \in Hooks, Engage(h) PROVE ActivityKnown'
  BY <1>6, IngestAssumption
     DEF Engage, Step, Go, db, TypeOK, ThreadsPlaced, ActivityKnown, Position, Writers, Stored
<1>7. ASSUME NEW h \in Hooks, Mark(h) PROVE ActivityKnown'
  BY <1>7, IngestAssumption
     DEF Mark, Resolve, Go, Idle, db, TypeOK, ThreadsPlaced, ActivityKnown, Position, Writers,
         Stored
<1>8. ASSUME NEW h \in Hooks, NEW e \in Events, Deliver(h, e) PROVE ActivityKnown'
  BY <1>8, IngestAssumption
     DEF Deliver, Go, Busy, Resolved, db, TypeOK, ThreadsPlaced, ActivityKnown, Position,
         Writers, Stored
<1>9. ASSUME NEW j \in Jobs, CommitBackfill(j) PROVE ActivityKnown'
  <2>1. \A v \in Writers : at'[v].pc = "store" => at'[v] = at[v]
    BY <1>9 DEF CommitBackfill, Go, Idle, TypeOK
  <2>2. j \in Writers /\ Storing(j) /\ at[j].on \in Messages /\ Insert(j, at[j].on)
    BY <1>9 DEF CommitBackfill, Storing, ThreadsPlaced, Writers
  <2>3. QED
    BY <2>1, <2>2, InsertActivity
<1>10. ASSUME NEW j \in Jobs, DuplicateBackfill(j) PROVE ActivityKnown'
  BY <1>10, IngestAssumption
     DEF DuplicateBackfill, Go, Idle, Storing, db, TypeOK, ThreadsPlaced, ActivityKnown,
         Position, Writers, Stored
<1>11. ASSUME NEW j \in Jobs, NEW m \in Messages, OpenBackfill(j, m) PROVE ActivityKnown'
  BY <1>11, IngestAssumption
     DEF OpenBackfill, Read, Go, Busy, db, TypeOK, ThreadsPlaced, ActivityKnown, Position,
         Writers, Stored
<1>12. ASSUME NEW w \in Writers, Die(w) PROVE ActivityKnown'
  BY <1>12, IngestAssumption
     DEF Die, Go, Idle, Busy, db, TypeOK, ThreadsPlaced, ActivityKnown, Position, Writers,
         Stored
<1>13. CASE UNCHANGED vars
  BY <1>13, IngestAssumption
     DEF vars, db, TypeOK, ThreadsPlaced, ActivityKnown, Position, Writers, Stored
<1>14. QED
  BY <1>1, <1>2, <1>3, <1>4, <1>5, <1>6, <1>7, <1>8, <1>9, <1>10, <1>11, <1>12, <1>13
     DEF Next, Attempt

\* Events are resolved by what happened.
LEMMA ResolutionStep ==
  ASSUME TypeOK, ThreadsPlaced, ParsedOnly, Resolutions, [Next]_vars
  PROVE  Resolutions'
<1>1. ASSUME NEW h \in Hooks, Refuse(h) PROVE Resolutions'
  BY <1>1, IngestAssumption
     DEF Refuse, Resolve, Go, Idle, db, TypeOK, ThreadsPlaced, ParsedOnly, Resolutions,
         ResolutionIsRight, Events, Writers, Stored
<1>2. ASSUME NEW h \in Hooks, Fail(h) PROVE Resolutions'
  BY <1>2, IngestAssumption
     DEF Fail, Resolve, Go, Idle, db, TypeOK, ThreadsPlaced, ParsedOnly, Resolutions,
         ResolutionIsRight, Events, Writers, Stored
<1>3. ASSUME NEW h \in Hooks, OpenLive(h) PROVE Resolutions'
  BY <1>3, IngestAssumption
     DEF OpenLive, Read, Go, db, TypeOK, ThreadsPlaced, ParsedOnly, Resolutions,
         ResolutionIsRight, Events, Writers, Stored
<1>4. ASSUME NEW h \in Hooks, CommitLive(h) PROVE Resolutions'
  BY <1>4, IngestAssumption
     DEF CommitLive, Insert, Bumped, Step, Go, Storing, db, TypeOK, ThreadsPlaced, ParsedOnly,
         Resolutions, ResolutionIsRight, Events, Writers, Stored
<1>5. ASSUME NEW h \in Hooks, DuplicateLive(h) PROVE Resolutions'
  BY <1>5, IngestAssumption
     DEF DuplicateLive, Step, Go, Storing, db, TypeOK, ThreadsPlaced, ParsedOnly, Resolutions,
         ResolutionIsRight, Events, Writers, Stored
<1>6. ASSUME NEW h \in Hooks, Engage(h) PROVE Resolutions'
  BY <1>6, IngestAssumption
     DEF Engage, Step, Go, db, TypeOK, ThreadsPlaced, ParsedOnly, Resolutions,
         ResolutionIsRight, Events, Writers, Stored
<1>7. ASSUME NEW h \in Hooks, Mark(h) PROVE Resolutions'
  BY <1>7, IngestAssumption
     DEF Mark, Resolve, Go, Idle, db, TypeOK, ThreadsPlaced, ParsedOnly, Resolutions,
         ResolutionIsRight, Events, Writers, Stored
<1>8. ASSUME NEW h \in Hooks, NEW e \in Events, Deliver(h, e) PROVE Resolutions'
  BY <1>8, IngestAssumption
     DEF Deliver, Go, Busy, Resolved, db, TypeOK, ThreadsPlaced, ParsedOnly, Resolutions,
         ResolutionIsRight, Events, Writers, Stored
<1>9. ASSUME NEW j \in Jobs, CommitBackfill(j) PROVE Resolutions'
  BY <1>9, IngestAssumption
     DEF CommitBackfill, Insert, Bumped, Go, Idle, Storing, db, TypeOK, ThreadsPlaced,
         ParsedOnly, Resolutions, ResolutionIsRight, Events, Writers, Stored
<1>10. ASSUME NEW j \in Jobs, DuplicateBackfill(j) PROVE Resolutions'
  BY <1>10, IngestAssumption
     DEF DuplicateBackfill, Go, Idle, Storing, db, TypeOK, ThreadsPlaced, ParsedOnly,
         Resolutions, ResolutionIsRight, Events, Writers, Stored
<1>11. ASSUME NEW j \in Jobs, NEW m \in Messages, OpenBackfill(j, m) PROVE Resolutions'
  BY <1>11, IngestAssumption
     DEF OpenBackfill, Read, Go, Busy, db, TypeOK, ThreadsPlaced, ParsedOnly, Resolutions,
         ResolutionIsRight, Events, Writers, Stored
<1>12. ASSUME NEW w \in Writers, Die(w) PROVE Resolutions'
  BY <1>12, IngestAssumption
     DEF Die, Go, Idle, Busy, db, TypeOK, ThreadsPlaced, ParsedOnly, Resolutions,
         ResolutionIsRight, Events, Writers, Stored
<1>13. CASE UNCHANGED vars
  BY <1>13, IngestAssumption
     DEF vars, db, TypeOK, ThreadsPlaced, ParsedOnly, Resolutions, ResolutionIsRight, Events,
         Writers, Stored
<1>14. QED
  BY <1>1, <1>2, <1>3, <1>4, <1>5, <1>6, <1>7, <1>8, <1>9, <1>10, <1>11, <1>12, <1>13
     DEF Next, Attempt

LEMMA InitInv == Init => IInv
<1>1. Init => TypeOK
  BY IngestAssumption DEF Init, TypeOK, Position, Status, Idle, Events, Writers
<1>2. Init => ThreadsPlaced /\ ParsedOnly /\ EngineOnce
  BY IngestAssumption DEF Init, ThreadsPlaced, ParsedOnly, EngineOnce, Idle, Stored, Writers
<1>3. Init => ActivityKnown /\ Resolutions
  BY IngestAssumption
     DEF Init, ActivityKnown, Resolutions, ResolutionIsRight, Idle, Stored, Events, Writers
<1>4. QED
  BY <1>1, <1>2, <1>3 DEF IInv

LEMMA StepInv == IInv /\ [Next]_vars => IInv'
  BY TypeStep, PlacedStep, ParsedStep, EngineStep, ActivityStep, ResolutionStep DEF IInv

-----------------------------------------------------------------------------
(* Theorems                                                                *)

\* The inductive invariant holds throughout.
THEOREM Invariance == Spec => []IInv
  BY InitInv, StepInv, PTL DEF Spec

\* Rows and threads keep their types.
THEOREM TypeCorrect == Spec => []TypeOK
<1>1. IInv => TypeOK
  BY DEF IInv
<1>2. QED
  BY <1>1, Invariance, PTL

\* The engine answers a message at most once.
THEOREM AnsweredOnce == Spec => []EngagedOnce
<1>1. IInv => EngagedOnce
  BY DEF IInv, EngineOnce, EngagedOnce
<1>2. QED
  BY <1>1, Invariance, PTL

\* The engine never answers what reconciliation stored.
THEOREM HistoryStaysSilent == Spec => []HistoryIsSilent
<1>1. IInv => HistoryIsSilent
  BY DEF IInv, EngineOnce, HistoryIsSilent
<1>2. QED
  BY <1>1, Invariance, PTL

\* An event's resolution says what became of its message.
THEOREM ResolvedRightly == Spec => []ResolutionIsRight
<1>1. IInv => ResolutionIsRight
  BY DEF IInv, Resolutions
<1>2. QED
  BY <1>1, Invariance, PTL

\* The activity time of a chat is that of a stored message.
THEOREM ActivityHasMessage == Spec => []ActivityIsStored
<1>1. IInv => ActivityIsStored
  BY DEF IInv, ActivityKnown, ActivityIsStored
<1>2. QED
  BY <1>1, Invariance, PTL

\* A resolution is never changed, whoever else processes the event.
LEMMA ResolutionKept ==
  ASSUME TypeOK, ThreadsPlaced, ParsedOnly, Resolutions, [Next]_vars,
         NEW r \in Events, Resolved(r)
  PROVE  event'[r] = event[r]
<1>1. ASSUME NEW h \in Hooks, Refuse(h) PROVE event'[r] = event[r]
  BY <1>1, IngestAssumption
     DEF Refuse, Resolve, Go, Idle, db, TypeOK, ThreadsPlaced, ParsedOnly, Resolutions,
         ResolutionIsRight, Events, Writers, Stored, Resolved
<1>2. ASSUME NEW h \in Hooks, Fail(h) PROVE event'[r] = event[r]
  BY <1>2, IngestAssumption
     DEF Fail, Resolve, Go, Idle, db, TypeOK, ThreadsPlaced, ParsedOnly, Resolutions,
         ResolutionIsRight, Events, Writers, Stored, Resolved
<1>3. ASSUME NEW h \in Hooks, OpenLive(h) PROVE event'[r] = event[r]
  BY <1>3, IngestAssumption
     DEF OpenLive, Read, Go, db, TypeOK, ThreadsPlaced, ParsedOnly, Resolutions,
         ResolutionIsRight, Events, Writers, Stored, Resolved
<1>4. ASSUME NEW h \in Hooks, CommitLive(h) PROVE event'[r] = event[r]
  BY <1>4, IngestAssumption
     DEF CommitLive, Insert, Bumped, Step, Go, Storing, db, TypeOK, ThreadsPlaced, ParsedOnly,
         Resolutions, ResolutionIsRight, Events, Writers, Stored, Resolved
<1>5. ASSUME NEW h \in Hooks, DuplicateLive(h) PROVE event'[r] = event[r]
  BY <1>5, IngestAssumption
     DEF DuplicateLive, Step, Go, Storing, db, TypeOK, ThreadsPlaced, ParsedOnly, Resolutions,
         ResolutionIsRight, Events, Writers, Stored, Resolved
<1>6. ASSUME NEW h \in Hooks, Engage(h) PROVE event'[r] = event[r]
  BY <1>6, IngestAssumption
     DEF Engage, Step, Go, db, TypeOK, ThreadsPlaced, ParsedOnly, Resolutions,
         ResolutionIsRight, Events, Writers, Stored, Resolved
<1>7. ASSUME NEW h \in Hooks, Mark(h) PROVE event'[r] = event[r]
  BY <1>7, IngestAssumption
     DEF Mark, Resolve, Go, Idle, db, TypeOK, ThreadsPlaced, ParsedOnly, Resolutions,
         ResolutionIsRight, Events, Writers, Stored, Resolved
<1>8. ASSUME NEW h \in Hooks, NEW e \in Events, Deliver(h, e) PROVE event'[r] = event[r]
  BY <1>8, IngestAssumption
     DEF Deliver, Go, Busy, Resolved, db, TypeOK, ThreadsPlaced, ParsedOnly, Resolutions,
         ResolutionIsRight, Events, Writers, Stored
<1>9. ASSUME NEW j \in Jobs, CommitBackfill(j) PROVE event'[r] = event[r]
  BY <1>9, IngestAssumption
     DEF CommitBackfill, Insert, Bumped, Go, Idle, Storing, db, TypeOK, ThreadsPlaced,
         ParsedOnly, Resolutions, ResolutionIsRight, Events, Writers, Stored, Resolved
<1>10. ASSUME NEW j \in Jobs, DuplicateBackfill(j) PROVE event'[r] = event[r]
  BY <1>10, IngestAssumption
     DEF DuplicateBackfill, Go, Idle, Storing, db, TypeOK, ThreadsPlaced, ParsedOnly,
         Resolutions, ResolutionIsRight, Events, Writers, Stored, Resolved
<1>11. ASSUME NEW j \in Jobs, NEW m \in Messages, OpenBackfill(j, m) PROVE event'[r] = event[r]
  BY <1>11, IngestAssumption
     DEF OpenBackfill, Read, Go, Busy, db, TypeOK, ThreadsPlaced, ParsedOnly, Resolutions,
         ResolutionIsRight, Events, Writers, Stored, Resolved
<1>12. ASSUME NEW w \in Writers, Die(w) PROVE event'[r] = event[r]
  BY <1>12, IngestAssumption
     DEF Die, Go, Idle, Busy, db, TypeOK, ThreadsPlaced, ParsedOnly, Resolutions,
         ResolutionIsRight, Events, Writers, Stored, Resolved
<1>13. CASE UNCHANGED vars
  BY <1>13, IngestAssumption
     DEF vars, db, TypeOK, ThreadsPlaced, ParsedOnly, Resolutions, ResolutionIsRight, Events,
         Writers, Stored, Resolved
<1>14. QED
  BY <1>1, <1>2, <1>3, <1>4, <1>5, <1>6, <1>7, <1>8, <1>9, <1>10, <1>11, <1>12, <1>13
     DEF Next, Attempt

\* Deliveries that overlap or follow one another agree on how an event ends.
THEOREM ResolutionsStay == Spec => ResolvedStays
<1>1. IInv /\ [Next]_vars => [\A e \in Events : Resolved(e) => event'[e] = event[e]]_vars
  BY ResolutionKept DEF IInv
<1>2. QED
  BY <1>1, Invariance, PTL DEF Spec, ResolvedStays

-----------------------------------------------------------------------------
(* Ingest implements Inbox                                                 *)

Answered == {m \in Messages : engaged[m] > 0}
Verdicts == [e \in Events |-> IF Resolved(e) THEN event[e] ELSE "open"]

\* What Inbox speaks of is left alone.
Unmoved == UNCHANGED <<source, last, Answered, Verdicts>>

LEMMA PromiseDefs ==
  /\ Promise!Init <=> /\ source = [m \in Messages |-> "none"] /\ last = [c \in Chats |-> 0]
                      /\ Answered = {} /\ Verdicts = [e \in Events |-> "open"]
  /\ Unmoved <=> UNCHANGED Promise!inboxVars
BY DEF Promise!Init, Promise!inboxVars, Answered, Verdicts, Unmoved, Events

\* Rows that do not change are what they were to Inbox, too.
LEMMA NothingMoved == source' = source /\ last' = last /\ engaged' = engaged /\ event' = event => Unmoved
BY DEF Unmoved, Answered, Verdicts, Resolved

\* A thread that resolves its event concludes it, or repeats what another said.
LEMMA Concludes ==
  ASSUME TypeOK, ParsedOnly, Resolutions, NEW h \in Hooks, at[h].on \in Events,
         NEW v \in {"processed", "failed", "unsupported"}, event' = [event EXCEPT ![at[h].on] = v],
         UNCHANGED <<source, last, engaged>>,
         CASE v = "processed" -> at[h].on \in Messages \ Broken /\ Stored(at[h].on)
           [] v = "failed" -> at[h].on \in Broken
           [] v = "unsupported" -> at[h].on \in Notices
  PROVE  Promise!Next \/ Unmoved
<1> DEFINE e == at[h].on
<1>1. Answered' = Answered
  BY DEF Answered
<1>2. CASE Resolved(e)
  <2>1. event[e] = v
    BY <1>2, IngestAssumption DEF Resolved, ParsedOnly, Resolutions, ResolutionIsRight, Events
  <2>2. event' = event
    BY <2>1 DEF TypeOK
  <2>3. QED
    BY <2>2, NothingMoved
<1>3. CASE ~Resolved(e)
  <2>1. Verdicts[e] = "open"
    BY <1>3 DEF Verdicts
  <2>2. Verdicts' = [Verdicts EXCEPT ![e] = v]
    BY DEF Verdicts, Resolved, TypeOK
  <2>3. Promise!Conclude(e, v)
    BY <1>1, <2>1, <2>2, IngestAssumption DEF Promise!Conclude, Answered, Verdicts, Stored, Events
  <2>4. QED
    BY <2>3 DEF Promise!Next, Events
<1>4. QED
  BY <1>2, <1>3

\* An insert keeps the message and gives its chat a time.
LEMMA Keeps ==
  ASSUME TypeOK, ThreadsPlaced, ActivityKnown, NEW w \in Writers, Storing(w),
         ~Stored(at[w].on), Insert(w, at[w].on), UNCHANGED <<event, engaged>>
  PROVE  Promise!Next
<1> DEFINE m == at[w].on
           path == IF w \in Hooks THEN "webhook" ELSE "history"
<1>1. m \in Messages \ Broken /\ ChatOf[m] \in Chats /\ At[m] \in Nat \ {0}
  BY IngestAssumption DEF ThreadsPlaced, Storing
<1>2. last' \in {last, [last EXCEPT ![ChatOf[m]] = At[m]]}
  BY DEF Insert, Bumped
<1>3. last'[ChatOf[m]] # 0
  <2>1. at[w].saw \in Nat
    BY DEF TypeOK, Position
  <2>2. CASE At[m] > at[w].saw
    BY <1>1, <2>2 DEF Insert, Bumped, TypeOK
  <2>3. CASE ~(At[m] > at[w].saw)
    BY <1>1, <2>1, <2>3 DEF Insert, Bumped, TypeOK, ActivityKnown, Storing
  <2>4. QED
    BY <2>2, <2>3
<1>4. Answered' = Answered /\ Verdicts' = Verdicts
  BY DEF Answered, Verdicts, Resolved
<1>5. Promise!Keep(m, path)
  BY <1>1, <1>2, <1>3, <1>4 DEF Promise!Keep, Insert, Stored, Answered, Verdicts, Events
<1>6. QED
  BY <1>1, <1>5 DEF Promise!Next

\* Every step is a step of Inbox or leaves what it speaks of alone.
LEMMA PromiseStep ==
  ASSUME IInv, [Next]_vars
  PROVE  Promise!Next \/ Unmoved
<1> USE DEF IInv
<1>1. ASSUME NEW h \in Hooks, Refuse(h) PROVE Promise!Next \/ Unmoved
  BY <1>1, Concludes, IngestAssumption DEF Refuse, Resolve, Events
<1>2. ASSUME NEW h \in Hooks, Fail(h) PROVE Promise!Next \/ Unmoved
  BY <1>2, Concludes, IngestAssumption DEF Fail, Resolve, Events
<1>3. ASSUME NEW h \in Hooks, OpenLive(h) PROVE Promise!Next \/ Unmoved
  BY <1>3, NothingMoved DEF OpenLive, Read, db
<1>4. ASSUME NEW h \in Hooks, CommitLive(h) PROVE Promise!Next \/ Unmoved
  BY <1>4, Keeps DEF CommitLive, Writers
<1>5. ASSUME NEW h \in Hooks, DuplicateLive(h) PROVE Promise!Next \/ Unmoved
  BY <1>5, NothingMoved DEF DuplicateLive, db
<1>6. ASSUME NEW h \in Hooks, Engage(h) PROVE Promise!Next \/ Unmoved
  <2>0. PICK m \in Messages : m = at[h].on
    BY <1>6 DEF Engage, ThreadsPlaced, Writers
  <2>1. m \in Inbound /\ source[m] = "webhook" /\ engaged[m] = 0
    BY <1>6, <2>0 DEF Engage, ThreadsPlaced, EngineOnce
  <2>2. Answered' = Answered \cup {m} /\ m \notin Answered
    BY <1>6, <2>0, <2>1 DEF Engage, Answered, TypeOK
  <2>3. Verdicts' = Verdicts
    BY <1>6 DEF Engage, db, Verdicts, Resolved
  <2>4. Promise!Answer(m)
    <3>1. source' = source /\ last' = last
      BY <1>6 DEF Engage, db
    <3>2. QED
      BY <2>1, <2>2, <2>3, <3>1 DEF Promise!Answer, Answered, Verdicts
  <2>5. QED
    BY <2>4 DEF Promise!Next
<1>7. ASSUME NEW h \in Hooks, Mark(h) PROVE Promise!Next \/ Unmoved
  <2>1. at[h].on \in Messages \ Broken /\ Stored(at[h].on)
    BY <1>7 DEF Mark, ThreadsPlaced, Writers
  <2>2. QED
    BY <1>7, <2>1, Concludes DEF Mark, Resolve, Events
<1>8. ASSUME NEW h \in Hooks, NEW e \in Events, Deliver(h, e) PROVE Promise!Next \/ Unmoved
  <2>1. Verdicts' = Verdicts /\ Answered' = Answered
    BY <1>8 DEF Deliver, Verdicts, Answered, Resolved, TypeOK
  <2>2. QED
    BY <1>8, <2>1 DEF Deliver, Unmoved
<1>9. ASSUME NEW j \in Jobs, CommitBackfill(j) PROVE Promise!Next \/ Unmoved
  BY <1>9, Keeps DEF CommitBackfill, Writers
<1>10. ASSUME NEW j \in Jobs, DuplicateBackfill(j) PROVE Promise!Next \/ Unmoved
  BY <1>10, NothingMoved DEF DuplicateBackfill, db
<1>11. ASSUME NEW j \in Jobs, NEW m \in Messages, OpenBackfill(j, m) PROVE Promise!Next \/ Unmoved
  BY <1>11, NothingMoved DEF OpenBackfill, Read, db
<1>12. ASSUME NEW w \in Writers, Die(w) PROVE Promise!Next \/ Unmoved
  BY <1>12, NothingMoved DEF Die, db
<1>13. CASE UNCHANGED vars
  BY <1>13, NothingMoved DEF vars, db
<1>14. QED
  BY <1>1, <1>2, <1>3, <1>4, <1>5, <1>6, <1>7, <1>8, <1>9, <1>10, <1>11, <1>12, <1>13
     DEF Next, Attempt

\* Ingestion keeps the promises of Inbox, for any deliveries, threads, deaths
\* and overlapping transactions.
THEOREM Implementation == Spec => InboxSpec
<1>1. Init => Promise!Init
  BY PromiseDefs, IngestAssumption DEF Init, Answered, Verdicts, Resolved, Events
<1>2. IInv /\ [Next]_vars => [Promise!Next]_Promise!inboxVars
  BY PromiseStep, PromiseDefs
<1>3. QED
  BY Invariance, <1>1, <1>2, PTL DEF Spec, InboxSpec, Promise!Spec
=============================================================================
