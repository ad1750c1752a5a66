------------------------------ MODULE BffProofs ------------------------------
(***************************************************************************)
(* Theorems about Bff for any number of requests, keys and actions, with   *)
(* calls that arrive at any time after the BFF gave them up.               *)
(***************************************************************************)
EXTENDS Bff, TLAPS

-----------------------------------------------------------------------------
(* The inductive invariant                                                 *)

\* What a request has done at each position.
RequestsPlaced ==
    \A r \in Requests :
        /\ At(r, "new") => req[r] = NewRequest /\ late[r] = {}
        /\ At(r, "register") => req[r].for \in Keys /\ req[r].by = "nobody" /\ late[r] = {}
        /\ At(r, "send") => "record" \notin late[r] /\ "waha" \notin late[r]
        /\ At(r, "record") => req[r].by # "blind" /\ req[r].out # "none" /\ "record" \notin late[r]
        /\ At(r, "send") \/ At(r, "record") =>
              /\ req[r].for # NoTarget
              /\ req[r].for \in Keys <=> req[r].by # "nobody"
        /\ At(r, "new") \/ At(r, "register") \/ At(r, "send") => req[r].out = "none" /\ r \notin taken
        /\ ~At(r, "over") => req[r].ans = "none" /\ log[r] = "none"
        /\ req[r].by # "again"

\* A call that may still arrive was made once and has left no trace yet.
CallsUnderWay ==
    \A r \in Requests :
        /\ "register" \in late[r] => req[r].for \in Keys
        /\ "waha" \in late[r] => r \notin taken /\ req[r].out \in {"none", "silence"}
                                  /\ (req[r].for \in Keys => req[r].by # "nobody")
        /\ "record" \in late[r] => /\ At(r, "over") /\ req[r].out # "none" /\ log[r] = "none"
                                   /\ req[r].for # NoTarget /\ req[r].by # "blind"
                                   /\ req[r].for \in Keys <=> req[r].by # "nobody"

\* Outcome, audit row and answer of a request tell the same.
Outcomes ==
    \A r \in Requests :
        /\ req[r].out = "success" => r \in taken
        /\ req[r].out = "http_error" => r \notin taken
        /\ r \in taken /\ req[r].for \in Keys => req[r].by # "nobody"
        /\ log[r] # "none" => req[r].out # "none" /\ log[r] = ResultOf(req[r].out)
        /\ req[r].ans = "failed" => req[r].out = "http_error"
        /\ req[r].ans = "done" /\ req[r].out # "none" => req[r].out = "success"

\* A settled operation is what the request of its audit row made it.
Ledger ==
    \A k \in Keys : ops[k].st \in {"sent", "failed", "unknown"} =>
        /\ ops[k].audit \in Requests
        /\ req[ops[k].audit].for = k
        /\ log[ops[k].audit] # "none"
        /\ ops[k].st = StatusOf(req[ops[k].audit].out)

\* An operation has one creator, it is pending until its creator's outcome is
\* recorded, and retried only after WAHA left one of its requests unanswered.
Creation ==
    /\ \A r \in Requests : req[r].for \in Keys /\ req[r].by \in {"creator", "retrier"} => Row(r).st # "none"
    /\ \A r \in Requests : req[r].for \in Keys /\ req[r].by = "creator" /\ log[r] = "none" => Row(r).st = "pending"
    /\ \A r, s \in Requests :
          req[r].for \in Keys /\ req[r].for = req[s].for /\ req[r].by = "creator" =>
              /\ req[s].by = "creator" => r = s
              /\ req[s].by = "retrier" => log[r] # "none"
    /\ \A r \in Requests : req[r].for \in Keys /\ req[r].by = "retrier" =>
          \E t \in Requests : req[t].for = req[r].for /\ req[t].out = "silence"

IInv ==
    /\ TypeOK
    /\ RequestsPlaced
    /\ CallsUnderWay
    /\ Outcomes
    /\ Ledger
    /\ Creation
    /\ AnswerIsTrue
    /\ AuditSurvives
    /\ LockHasHolder

-----------------------------------------------------------------------------
(* Steps                                                                   *)

\* A request moves to another state of its type.
LEMMA Moved ==
  ASSUME TypeOK, NEW r \in Requests, NEW q \in ReqState, Move(r, q)
  PROVE  req' \in [Requests -> ReqState]
BY DEF TypeOK, Move

\* So it does when its call to WAHA has come to an end.
LEMMA HeardType ==
  ASSUME TypeOK, NEW r \in Requests, NEW out \in Outcome, Heard(r, out)
  PROVE  req' \in [Requests -> ReqState]
<1>1. req[r] \in ReqState
  BY DEF TypeOK
<1>2. [req[r] EXCEPT !.pc = "over", !.out = out, !.ans = AnswerOf(out)] \in ReqState
  BY <1>1 DEF ReqState, Answer, AnswerOf
<1>3. [req[r] EXCEPT !.pc = "record", !.out = out] \in ReqState
  BY <1>1 DEF ReqState
<1>4. QED
  BY <1>2, <1>3, Moved DEF Heard

\* What registering does to the request and to the operation of its key.
LEMMA RegisterFields ==
  ASSUME TypeOK, RequestsPlaced, NEW r \in Requests, Register(r)
  PROVE  /\ At(r, "register") /\ req[r].for \in Keys
         /\ \A s \in Requests : s # r => req'[s] = req[s]
         /\ \A k \in Keys : k # req[r].for => ops'[k] = ops[k]
         /\ req'[r] \in ReqState /\ req'[r].for = req[r].for /\ req'[r].out = req[r].out
         /\ ops'[req[r].for] \in Op
         /\ \/ /\ Row(r).st = "none" /\ ops'[req[r].for].st = "pending"
               /\ req'[r].pc = "send" /\ req'[r].by = "creator" /\ req'[r].ans = "none"
            \/ /\ Row(r).st = "unknown" /\ ops'[req[r].for] = Row(r)
               /\ req'[r].pc = "send" /\ req'[r].by = "retrier" /\ req'[r].ans = "none"
            \/ /\ Row(r).st = "sent" /\ ops'[req[r].for] = Row(r)
               /\ req'[r].pc = "over" /\ req'[r].by = "nobody" /\ req'[r].ans = "done"
            \/ /\ Row(r).st # "none" /\ ops'[req[r].for] = Row(r)
               /\ req'[r].pc = "over" /\ req'[r].by = "nobody" /\ req'[r].ans \in {"pending", "conflict"}
         /\ UNCHANGED <<log, locks, late, taken>>
         /\ ops' \in [Keys -> Op] /\ req' \in [Requests -> ReqState]
<1> DEFINE k == req[r].for
<1>1. /\ req[r].pc = "register" /\ k \in Keys /\ req[r].by = "nobody" /\ req[r].ans = "none"
      /\ req[r] \in ReqState /\ ops[k] \in Op
  BY DEF Register, RequestsPlaced, TypeOK, At
<1>2. UNCHANGED <<log, locks, late, taken>>
  BY DEF Register
<1>3. CASE Row(r).st = "none" /\ Send(r, "creator")
  <2>1. ops' = [ops EXCEPT ![k] = Pending]
    BY <1>3 DEF Register, Registered, Row
  <2>2. Pending \in Op /\ Pending.st = "pending"
    BY DEF Pending, NoOp, Op
  <2>3. req' = [req EXCEPT ![r] = [req[r] EXCEPT !.pc = "send", !.by = "creator"]]
    BY <1>3 DEF Send, Move
  <2>4. [req[r] EXCEPT !.pc = "send", !.by = "creator"] \in ReqState
    BY <1>1 DEF ReqState, Standing
  <2>5. QED
    BY <1>1, <1>2, <1>3, <2>1, <2>2, <2>3, <2>4 DEF TypeOK, At, Row, ReqState
<1>4. CASE Row(r).st # "none"
  <2>1. ops' = ops
    BY <1>4 DEF Register, Registered, Row
  <2>2. CASE Replies(Row(r)) /\ End(r, IF Row(r).st = "sent" THEN "done" ELSE "pending")
    <3> DEFINE a == IF Row(r).st = "sent" THEN "done" ELSE "pending"
    <3>1. req' = [req EXCEPT ![r] = [req[r] EXCEPT !.pc = "over", !.ans = a]]
      BY <2>2 DEF End, Move
    <3>2. [req[r] EXCEPT !.pc = "over", !.ans = a] \in ReqState
      BY <1>1 DEF ReqState, Answer
    <3>3. QED
      BY <1>1, <1>2, <1>4, <2>1, <3>1, <3>2 DEF TypeOK, At, Row, ReqState
  <2>3. CASE Retries(Row(r)) /\ Send(r, StandingOn(Row(r)))
    <3>0. StandingOn(Row(r)) = "retrier"
      BY <2>3 DEF Retries, Retryable, StandingOn, Unconfirmed
    <3>1. req' = [req EXCEPT ![r] = [req[r] EXCEPT !.pc = "send", !.by = "retrier"]]
      BY <2>3, <3>0 DEF Send, Move
    <3>2. [req[r] EXCEPT !.pc = "send", !.by = "retrier"] \in ReqState
      BY <1>1 DEF ReqState, Standing
    <3>3. Row(r).st = "unknown"
      BY <2>3 DEF Retries, Replies, Retryable
    <3>4. QED
      BY <1>1, <1>2, <2>1, <3>1, <3>2, <3>3 DEF TypeOK, At, Row, ReqState
  <2>4. CASE End(r, "conflict")
    <3>1. req' = [req EXCEPT ![r] = [req[r] EXCEPT !.pc = "over", !.ans = "conflict"]]
      BY <2>4 DEF End, Move
    <3>2. [req[r] EXCEPT !.pc = "over", !.ans = "conflict"] \in ReqState
      BY <1>1 DEF ReqState, Answer
    <3>3. QED
      BY <1>1, <1>2, <1>4, <2>1, <3>1, <3>2 DEF TypeOK, At, Row, ReqState
  <2>5. QED
    BY <1>4, <2>2, <2>3, <2>4 DEF Register
<1>5. QED
  BY <1>3, <1>4 DEF Register, Replies, Retries, Retryable

\* What a restart does to each request.
LEMMA RestartFields ==
  ASSUME TypeOK, Restart
  PROVE  /\ \A r \in Requests : InFlight(r) =>
               /\ req'[r] \in ReqState
               /\ req'[r].pc = "over" /\ req'[r].for = req[r].for /\ req'[r].by = req[r].by
               /\ req'[r].out = req[r].out /\ req'[r].ans = req[r].ans
               /\ req[r].pc = "register" => late'[r] = late[r] \cup {"register"}
               /\ req[r].pc = "send" => late'[r] = late[r] \cup {"waha"}
               /\ req[r].pc = "record" => late'[r] = late[r] \cup {"record"}
         /\ \A r \in Requests : ~InFlight(r) => req'[r] = req[r] /\ late'[r] = late[r]
         /\ locks' = {} /\ UNCHANGED <<django, taken>>
         /\ req' \in [Requests -> ReqState] /\ late' \in [Requests -> SUBSET Calls]
<1>1. ASSUME NEW r \in Requests, InFlight(r)
      PROVE  /\ req'[r] = [req[r] EXCEPT !.pc = "over"] /\ req[r] \in ReqState
             /\ late'[r] = late[r] \cup {Call[req[r].pc]}
  BY <1>1 DEF Restart, TypeOK
<1>2. ASSUME NEW r \in Requests, ~InFlight(r)
      PROVE  req'[r] = req[r] /\ late'[r] = late[r] /\ req[r] \in ReqState
  BY <1>2 DEF Restart, TypeOK
<1>3. ASSUME NEW r \in Requests, InFlight(r)
      PROVE  /\ req'[r] \in ReqState
             /\ req'[r].pc = "over" /\ req'[r].for = req[r].for /\ req'[r].by = req[r].by
             /\ req'[r].out = req[r].out /\ req'[r].ans = req[r].ans
  BY <1>1, <1>3 DEF ReqState
<1>4. ASSUME NEW r \in Requests, InFlight(r)
      PROVE  /\ req[r].pc = "register" => late'[r] = late[r] \cup {"register"}
             /\ req[r].pc = "send" => late'[r] = late[r] \cup {"waha"}
             /\ req[r].pc = "record" => late'[r] = late[r] \cup {"record"}
             /\ late'[r] \subseteq Calls
  <2>1. Call["register"] = "register" /\ Call["send"] = "waha" /\ Call["record"] = "record"
    BY DEF Call
  <2>2. late[r] \subseteq Calls
    BY DEF TypeOK
  <2>3. late'[r] = late[r] \cup {Call[req[r].pc]}
    BY <1>1, <1>4
  <2>4. CASE req[r].pc = "register"
    <3>1. late'[r] = late[r] \cup {"register"}
      BY <2>1, <2>3, <2>4
    <3>2. QED
      BY <2>2, <2>4, <3>1 DEF Calls
  <2>5. CASE req[r].pc = "send"
    <3>1. late'[r] = late[r] \cup {"waha"}
      BY <2>1, <2>3, <2>5
    <3>2. QED
      BY <2>2, <2>5, <3>1 DEF Calls
  <2>6. CASE req[r].pc = "record"
    <3>1. late'[r] = late[r] \cup {"record"}
      BY <2>1, <2>3, <2>6
    <3>2. QED
      BY <2>2, <2>6, <3>1 DEF Calls
  <2>7. QED
    BY <1>4, <2>4, <2>5, <2>6 DEF InFlight
<1>5. locks' = {} /\ UNCHANGED <<django, taken>>
  BY DEF Restart
<1>6. req' \in [Requests -> ReqState]
  <2>1. \A r \in Requests : (IF InFlight(r) THEN [req[r] EXCEPT !.pc = "over"] ELSE req[r]) \in ReqState
    BY <1>1, <1>2, <1>3
  <2>2. QED
    BY <2>1 DEF Restart
<1>7. late' \in [Requests -> SUBSET Calls]
  <2>1. \A r \in Requests : (IF InFlight(r) THEN late[r] \cup {Call[req[r].pc]} ELSE late[r]) \in SUBSET Calls
    BY <1>1, <1>4 DEF TypeOK
  <2>2. QED
    BY <2>1 DEF Restart
<1>8. QED
  BY <1>1, <1>2, <1>3, <1>4, <1>5, <1>6, <1>7

\* Rows, requests and locks keep their types.
LEMMA TypeStep ==
  ASSUME TypeOK, RequestsPlaced, CallsUnderWay, [Next]_vars
  PROVE  TypeOK'
<1>1. ASSUME NEW r \in Requests, Arrive(r) PROVE TypeOK'
  <2>1. req' \in [Requests -> ReqState]
    <3>1. PICK k \in Keys : Move(r, [NewRequest EXCEPT !.pc = "register", !.for = k])
      BY <1>1 DEF Arrive
    <3>2. [NewRequest EXCEPT !.pc = "register", !.for = k] \in ReqState
      BY BffAssumption DEF TypeOK, NewRequest, ReqState, Standing, Outcome, Answer
    <3>3. QED
      BY <3>1, <3>2, Moved
  <2>2. ops' \in [Keys -> Op] /\ log' \in [Requests -> {"none", "success", "failure"}]
    BY <1>1 DEF Arrive, Move, django, NewRequest, TypeOK, Op, At, RequestsPlaced
  <2>3. locks' \subseteq Locked /\ late' \in [Requests -> SUBSET Calls] /\ taken' \subseteq Requests
    BY <1>1 DEF Arrive, Move, django, NewRequest, TypeOK, Calls
  <2>4. QED
    BY <2>1, <2>2, <2>3 DEF TypeOK
<1>2. ASSUME NEW r \in Requests, BeginAction(r) PROVE TypeOK'
  <2>1. req' \in [Requests -> ReqState]
    <3>1. PICK a \in Actions : Move(r, [NewRequest EXCEPT !.pc = "send", !.for = a])
      BY <1>2 DEF BeginAction
    <3>2. [NewRequest EXCEPT !.pc = "send", !.for = a] \in ReqState
      BY BffAssumption DEF TypeOK, NewRequest, ReqState, Standing, Outcome, Answer
    <3>3. QED
      BY <3>1, <3>2, Moved
  <2>2. ops' \in [Keys -> Op] /\ log' \in [Requests -> {"none", "success", "failure"}]
    BY <1>2 DEF BeginAction, Acquire, Move, django, NewRequest, TypeOK, Op, At, RequestsPlaced
  <2>3. locks' \subseteq Locked /\ late' \in [Requests -> SUBSET Calls] /\ taken' \subseteq Requests
    BY <1>2 DEF BeginAction, Acquire, Move, django, NewRequest, TypeOK, Calls
  <2>4. QED
    BY <2>1, <2>2, <2>3 DEF TypeOK
<1>3. ASSUME NEW r \in Requests, RefuseAction(r) PROVE TypeOK'
  <2>1. req' \in [Requests -> ReqState]
    <3>1. PICK a \in locks : Move(r, [NewRequest EXCEPT !.pc = "over", !.for = a, !.ans = "conflict"])
      BY <1>3 DEF RefuseAction
    <3>2. [NewRequest EXCEPT !.pc = "over", !.for = a, !.ans = "conflict"] \in ReqState
      BY BffAssumption DEF TypeOK, NewRequest, ReqState, Standing, Outcome, Answer
    <3>3. QED
      BY <3>1, <3>2, Moved
  <2>2. ops' \in [Keys -> Op] /\ log' \in [Requests -> {"none", "success", "failure"}]
    BY <1>3 DEF RefuseAction, Move, django, NewRequest, TypeOK, Op, At, RequestsPlaced
  <2>3. locks' \subseteq Locked /\ late' \in [Requests -> SUBSET Calls] /\ taken' \subseteq Requests
    BY <1>3 DEF RefuseAction, Move, django, NewRequest, TypeOK, Calls
  <2>4. QED
    BY <2>1, <2>2, <2>3 DEF TypeOK
<1>4. ASSUME NEW r \in Requests, Register(r) PROVE TypeOK'
  BY <1>4, RegisterFields DEF TypeOK
<1>5. ASSUME NEW r \in Requests, RegisterUnanswered(r) PROVE TypeOK'
  <2>1. req' \in [Requests -> ReqState]
    <3>1. [req[r] EXCEPT !.pc = "send", !.by = "blind"] \in ReqState
      BY DEF TypeOK, ReqState, Standing, Outcome, Answer, AnswerOf
    <3>2. QED
      BY <1>5, <3>1, Moved DEF RegisterUnanswered, Send
  <2>2. ops' \in [Keys -> Op] /\ log' \in [Requests -> {"none", "success", "failure"}]
    BY <1>5 DEF RegisterUnanswered, Send, Move, MayArrive, django, TypeOK, Op, At, RequestsPlaced
  <2>3. locks' \subseteq Locked /\ late' \in [Requests -> SUBSET Calls] /\ taken' \subseteq Requests
    BY <1>5 DEF RegisterUnanswered, Send, Move, MayArrive, django, TypeOK, Calls
  <2>4. QED
    BY <2>1, <2>2, <2>3 DEF TypeOK
<1>6. ASSUME NEW r \in Requests, WahaAccepts(r) PROVE TypeOK'
  <2>1. req' \in [Requests -> ReqState]
    BY <1>6, HeardType DEF WahaAccepts, Outcome
  <2>2. ops' \in [Keys -> Op] /\ log' \in [Requests -> {"none", "success", "failure"}]
    BY <1>6 DEF WahaAccepts, Heard, AnswerOf, Move, django, TypeOK, Op, At, RequestsPlaced
  <2>3. locks' \subseteq Locked /\ late' \in [Requests -> SUBSET Calls] /\ taken' \subseteq Requests
    BY <1>6 DEF WahaAccepts, Heard, AnswerOf, Move, django, TypeOK, Calls
  <2>4. QED
    BY <2>1, <2>2, <2>3 DEF TypeOK
<1>7. ASSUME NEW r \in Requests, WahaRefuses(r) PROVE TypeOK'
  <2>1. req' \in [Requests -> ReqState]
    BY <1>7, HeardType DEF WahaRefuses, Outcome
  <2>2. ops' \in [Keys -> Op] /\ log' \in [Requests -> {"none", "success", "failure"}]
    BY <1>7 DEF WahaRefuses, Heard, AnswerOf, Move, django, TypeOK, Op, At, RequestsPlaced
  <2>3. locks' \subseteq Locked /\ late' \in [Requests -> SUBSET Calls] /\ taken' \subseteq Requests
    BY <1>7 DEF WahaRefuses, Heard, AnswerOf, Move, django, TypeOK, Calls
  <2>4. QED
    BY <2>1, <2>2, <2>3 DEF TypeOK
<1>8. ASSUME NEW r \in Requests, WahaUnanswered(r) PROVE TypeOK'
  <2>1. req' \in [Requests -> ReqState]
    BY <1>8, HeardType DEF WahaUnanswered, Outcome
  <2>2. ops' \in [Keys -> Op] /\ log' \in [Requests -> {"none", "success", "failure"}]
    BY <1>8
       DEF WahaUnanswered, Heard, AnswerOf, Move, MayArrive, django, TypeOK, Op, At,
           RequestsPlaced
  <2>3. locks' \subseteq Locked /\ late' \in [Requests -> SUBSET Calls] /\ taken' \subseteq Requests
    BY <1>8 DEF WahaUnanswered, Heard, AnswerOf, Move, MayArrive, django, TypeOK, Calls
  <2>4. QED
    BY <2>1, <2>2, <2>3 DEF TypeOK
<1>9. ASSUME NEW r \in Requests, Record(r) PROVE TypeOK'
  <2>1. req' \in [Requests -> ReqState]
    <3>1. [req[r] EXCEPT !.pc = "over", !.ans = AnswerOf(req[r].out)] \in ReqState
      BY DEF TypeOK, ReqState, Standing, Outcome, Answer, AnswerOf
    <3>2. QED
      BY <1>9, <3>1, Moved DEF Record, Finish, End
  <2>2. ops' \in [Keys -> Op] /\ log' \in [Requests -> {"none", "success", "failure"}]
    BY <1>9
       DEF Record, Write, Finish, End, Move, AnswerOf, StatusOf, ResultOf, TypeOK, Op, At,
           RequestsPlaced
  <2>3. locks' \subseteq Locked /\ late' \in [Requests -> SUBSET Calls] /\ taken' \subseteq Requests
    BY <1>9 DEF Record, Write, Finish, End, Move, AnswerOf, StatusOf, ResultOf, TypeOK, Calls
  <2>4. QED
    BY <2>1, <2>2, <2>3 DEF TypeOK
<1>10. ASSUME NEW r \in Requests, RecordUnanswered(r) PROVE TypeOK'
  <2>1. req' \in [Requests -> ReqState]
    <3>1. [req[r] EXCEPT !.pc = "over", !.ans = AnswerOf(req[r].out)] \in ReqState
      BY DEF TypeOK, ReqState, Standing, Outcome, Answer, AnswerOf
    <3>2. QED
      BY <1>10, <3>1, Moved DEF RecordUnanswered, Finish, End
  <2>2. ops' \in [Keys -> Op] /\ log' \in [Requests -> {"none", "success", "failure"}]
    BY <1>10
       DEF RecordUnanswered, Finish, End, Move, AnswerOf, MayArrive, django, TypeOK, Op, At,
           RequestsPlaced
  <2>3. locks' \subseteq Locked /\ late' \in [Requests -> SUBSET Calls] /\ taken' \subseteq Requests
    BY <1>10 DEF RecordUnanswered, Finish, End, Move, AnswerOf, MayArrive, django, TypeOK, Calls
  <2>4. QED
    BY <2>1, <2>2, <2>3 DEF TypeOK
<1>11. ASSUME NEW r \in Requests, LateRegister(r) PROVE TypeOK'
  BY <1>11, BffAssumption
     DEF LateRegister, Arrives, Registered, Pending, NoOp, TypeOK, ReqState, Standing,
         Outcome, Answer, Op, Calls, At, InFlight, RequestsPlaced, CallsUnderWay
<1>12. ASSUME NEW r \in Requests, LateWaha(r) PROVE TypeOK'
  BY <1>12, BffAssumption
     DEF LateWaha, Arrives, django, TypeOK, ReqState, Standing, Outcome, Answer, Op, Calls,
         At, InFlight, RequestsPlaced, CallsUnderWay
<1>13. ASSUME NEW r \in Requests, LateRecord(r) PROVE TypeOK'
  BY <1>13, BffAssumption
     DEF LateRecord, Arrives, Write, StatusOf, ResultOf, TypeOK, ReqState, Standing, Outcome,
         Answer, Op, Calls, At, InFlight, RequestsPlaced, CallsUnderWay
<1>14. ASSUME NEW k \in Keys, Age(k) PROVE TypeOK'
  <2>1. req' \in [Requests -> ReqState]
    BY <1>14 DEF Age, TypeOK
  <2>2. ops' \in [Keys -> Op] /\ log' \in [Requests -> {"none", "success", "failure"}]
    BY <1>14 DEF Age, TypeOK, Op, At, RequestsPlaced
  <2>3. locks' \subseteq Locked /\ late' \in [Requests -> SUBSET Calls] /\ taken' \subseteq Requests
    BY <1>14 DEF Age, TypeOK, Calls
  <2>4. QED
    BY <2>1, <2>2, <2>3 DEF TypeOK
<1>15. ASSUME Restart PROVE TypeOK'
  BY <1>15, RestartFields DEF TypeOK, django
<1>16. CASE UNCHANGED vars
  BY <1>16, BffAssumption
     DEF vars, django, TypeOK, ReqState, Standing, Outcome, Answer, Op, Calls, At, InFlight,
         RequestsPlaced, CallsUnderWay
<1>17. QED
  BY <1>1, <1>2, <1>3, <1>4, <1>5, <1>6, <1>7, <1>8, <1>9, <1>10, <1>11, <1>12, <1>13, <1>14,
     <1>15, <1>16
     DEF Next, Advance

\* Requests stay where they may be.
LEMMA PlacedStep ==
  ASSUME TypeOK, RequestsPlaced, CallsUnderWay, [Next]_vars
  PROVE  RequestsPlaced'
<1>1. ASSUME NEW r \in Requests, Arrive(r) PROVE RequestsPlaced'
  BY <1>1, BffAssumption
     DEF Arrive, Move, django, NewRequest, TypeOK, ReqState, Standing, Outcome, Answer, Op,
         Calls, At, InFlight, RequestsPlaced, CallsUnderWay
<1>2. ASSUME NEW r \in Requests, BeginAction(r) PROVE RequestsPlaced'
  BY <1>2, BffAssumption
     DEF BeginAction, Acquire, Move, django, NewRequest, TypeOK, ReqState, Standing, Outcome,
         Answer, Op, Calls, At, InFlight, RequestsPlaced, CallsUnderWay
<1>3. ASSUME NEW r \in Requests, RefuseAction(r) PROVE RequestsPlaced'
  BY <1>3, BffAssumption
     DEF RefuseAction, Move, django, NewRequest, TypeOK, ReqState, Standing, Outcome, Answer,
         Op, Calls, At, InFlight, RequestsPlaced, CallsUnderWay
<1>4. ASSUME NEW r \in Requests, Register(r) PROVE RequestsPlaced'
  BY <1>4, RegisterFields, BffAssumption
     DEF Row, TypeOK, ReqState, Standing, Outcome, Answer, Op, Calls, At, InFlight,
         NewRequest, RequestsPlaced, CallsUnderWay
<1>5. ASSUME NEW r \in Requests, RegisterUnanswered(r) PROVE RequestsPlaced'
  BY <1>5, BffAssumption
     DEF RegisterUnanswered, Send, Move, MayArrive, django, TypeOK, ReqState, Standing,
         Outcome, Answer, Op, Calls, At, InFlight, NewRequest, RequestsPlaced, CallsUnderWay
<1>6. ASSUME NEW r \in Requests, WahaAccepts(r) PROVE RequestsPlaced'
  BY <1>6, BffAssumption
     DEF WahaAccepts, Heard, AnswerOf, Move, django, TypeOK, ReqState, Standing, Outcome,
         Answer, Op, Calls, At, InFlight, NewRequest, RequestsPlaced, CallsUnderWay
<1>7. ASSUME NEW r \in Requests, WahaRefuses(r) PROVE RequestsPlaced'
  BY <1>7, BffAssumption
     DEF WahaRefuses, Heard, AnswerOf, Move, django, TypeOK, ReqState, Standing, Outcome,
         Answer, Op, Calls, At, InFlight, NewRequest, RequestsPlaced, CallsUnderWay
<1>8. ASSUME NEW r \in Requests, WahaUnanswered(r) PROVE RequestsPlaced'
  BY <1>8, BffAssumption
     DEF WahaUnanswered, Heard, AnswerOf, Move, MayArrive, django, TypeOK, ReqState,
         Standing, Outcome, Answer, Op, Calls, At, InFlight, NewRequest, RequestsPlaced,
         CallsUnderWay
<1>9. ASSUME NEW r \in Requests, Record(r) PROVE RequestsPlaced'
  BY <1>9, BffAssumption
     DEF Record, Write, Finish, End, Move, AnswerOf, StatusOf, ResultOf, TypeOK, ReqState,
         Standing, Outcome, Answer, Op, Calls, At, InFlight, NewRequest, RequestsPlaced,
         CallsUnderWay
<1>10. ASSUME NEW r \in Requests, RecordUnanswered(r) PROVE RequestsPlaced'
  BY <1>10, BffAssumption
     DEF RecordUnanswered, Finish, End, Move, AnswerOf, MayArrive, django, TypeOK, ReqState,
         Standing, Outcome, Answer, Op, Calls, At, InFlight, NewRequest, RequestsPlaced,
         CallsUnderWay
<1>11. ASSUME NEW r \in Requests, LateRegister(r) PROVE RequestsPlaced'
  BY <1>11, BffAssumption
     DEF LateRegister, Arrives, Registered, Pending, NoOp, TypeOK, ReqState, Standing,
         Outcome, Answer, Op, Calls, At, InFlight, NewRequest, RequestsPlaced, CallsUnderWay
<1>12. ASSUME NEW r \in Requests, LateWaha(r) PROVE RequestsPlaced'
  BY <1>12, BffAssumption
     DEF LateWaha, Arrives, django, TypeOK, ReqState, Standing, Outcome, Answer, Op, Calls,
         At, InFlight, NewRequest, RequestsPlaced, CallsUnderWay
<1>13. ASSUME NEW r \in Requests, LateRecord(r) PROVE RequestsPlaced'
  BY <1>13, BffAssumption
     DEF LateRecord, Arrives, Write, StatusOf, ResultOf, TypeOK, ReqState, Standing, Outcome,
         Answer, Op, Calls, At, InFlight, NewRequest, RequestsPlaced, CallsUnderWay
<1>14. ASSUME NEW k \in Keys, Age(k) PROVE RequestsPlaced'
  BY <1>14, BffAssumption
     DEF Age, TypeOK, ReqState, Standing, Outcome, Answer, Op, Calls, At, InFlight,
         NewRequest, RequestsPlaced, CallsUnderWay
<1>15. ASSUME Restart PROVE RequestsPlaced'
  BY <1>15, RestartFields, BffAssumption
     DEF django, TypeOK, ReqState, Standing, Outcome, Answer, Op, Calls, At, InFlight,
         NewRequest, RequestsPlaced, CallsUnderWay
<1>16. CASE UNCHANGED vars
  BY <1>16, BffAssumption
     DEF vars, django, TypeOK, ReqState, Standing, Outcome, Answer, Op, Calls, At, InFlight,
         NewRequest, RequestsPlaced, CallsUnderWay
<1>17. QED
  BY <1>1, <1>2, <1>3, <1>4, <1>5, <1>6, <1>7, <1>8, <1>9, <1>10, <1>11, <1>12, <1>13, <1>14,
     <1>15, <1>16
     DEF Next, Advance

\* A call given up is the last trace of its request.
LEMMA CallsStep ==
  ASSUME TypeOK, RequestsPlaced, CallsUnderWay, [Next]_vars
  PROVE  CallsUnderWay'
<1>1. ASSUME NEW r \in Requests, Arrive(r) PROVE CallsUnderWay'
  BY <1>1, BffAssumption
     DEF Arrive, Move, django, NewRequest, TypeOK, ReqState, Standing, Outcome, Answer, Op,
         Calls, At, InFlight, RequestsPlaced, CallsUnderWay
<1>2. ASSUME NEW r \in Requests, BeginAction(r) PROVE CallsUnderWay'
  BY <1>2, BffAssumption
     DEF BeginAction, Acquire, Move, django, NewRequest, TypeOK, ReqState, Standing, Outcome,
         Answer, Op, Calls, At, InFlight, RequestsPlaced, CallsUnderWay
<1>3. ASSUME NEW r \in Requests, RefuseAction(r) PROVE CallsUnderWay'
  BY <1>3, BffAssumption
     DEF RefuseAction, Move, django, NewRequest, TypeOK, ReqState, Standing, Outcome, Answer,
         Op, Calls, At, InFlight, RequestsPlaced, CallsUnderWay
<1>4. ASSUME NEW r \in Requests, Register(r) PROVE CallsUnderWay'
  BY <1>4, RegisterFields, BffAssumption
     DEF Row, TypeOK, ReqState, Standing, Outcome, Answer, Op, Calls, At, InFlight,
         NewRequest, RequestsPlaced, CallsUnderWay
<1>5. ASSUME NEW r \in Requests, RegisterUnanswered(r) PROVE CallsUnderWay'
  BY <1>5, BffAssumption
     DEF RegisterUnanswered, Send, Move, MayArrive, django, TypeOK, ReqState, Standing,
         Outcome, Answer, Op, Calls, At, InFlight, NewRequest, RequestsPlaced, CallsUnderWay
<1>6. ASSUME NEW r \in Requests, WahaAccepts(r) PROVE CallsUnderWay'
  BY <1>6, BffAssumption
     DEF WahaAccepts, Heard, AnswerOf, Move, django, TypeOK, ReqState, Standing, Outcome,
         Answer, Op, Calls, At, InFlight, NewRequest, RequestsPlaced, CallsUnderWay
<1>7. ASSUME NEW r \in Requests, WahaRefuses(r) PROVE CallsUnderWay'
  BY <1>7, BffAssumption
     DEF WahaRefuses, Heard, AnswerOf, Move, django, TypeOK, ReqState, Standing, Outcome,
         Answer, Op, Calls, At, InFlight, NewRequest, RequestsPlaced, CallsUnderWay
<1>8. ASSUME NEW r \in Requests, WahaUnanswered(r) PROVE CallsUnderWay'
  BY <1>8, BffAssumption
     DEF WahaUnanswered, Heard, AnswerOf, Move, MayArrive, django, TypeOK, ReqState,
         Standing, Outcome, Answer, Op, Calls, At, InFlight, NewRequest, RequestsPlaced,
         CallsUnderWay
<1>9. ASSUME NEW r \in Requests, Record(r) PROVE CallsUnderWay'
  BY <1>9, BffAssumption
     DEF Record, Write, Finish, End, Move, AnswerOf, StatusOf, ResultOf, TypeOK, ReqState,
         Standing, Outcome, Answer, Op, Calls, At, InFlight, NewRequest, RequestsPlaced,
         CallsUnderWay
<1>10. ASSUME NEW r \in Requests, RecordUnanswered(r) PROVE CallsUnderWay'
  BY <1>10, BffAssumption
     DEF RecordUnanswered, Finish, End, Move, AnswerOf, MayArrive, django, TypeOK, ReqState,
         Standing, Outcome, Answer, Op, Calls, At, InFlight, NewRequest, RequestsPlaced,
         CallsUnderWay
<1>11. ASSUME NEW r \in Requests, LateRegister(r) PROVE CallsUnderWay'
  BY <1>11, BffAssumption
     DEF LateRegister, Arrives, Registered, Pending, NoOp, TypeOK, ReqState, Standing,
         Outcome, Answer, Op, Calls, At, InFlight, NewRequest, RequestsPlaced, CallsUnderWay
<1>12. ASSUME NEW r \in Requests, LateWaha(r) PROVE CallsUnderWay'
  BY <1>12, BffAssumption
     DEF LateWaha, Arrives, django, TypeOK, ReqState, Standing, Outcome, Answer, Op, Calls,
         At, InFlight, NewRequest, RequestsPlaced, CallsUnderWay
<1>13. ASSUME NEW r \in Requests, LateRecord(r) PROVE CallsUnderWay'
  BY <1>13, BffAssumption
     DEF LateRecord, Arrives, Write, StatusOf, ResultOf, TypeOK, ReqState, Standing, Outcome,
         Answer, Op, Calls, At, InFlight, NewRequest, RequestsPlaced, CallsUnderWay
<1>14. ASSUME NEW k \in Keys, Age(k) PROVE CallsUnderWay'
  BY <1>14, BffAssumption
     DEF Age, TypeOK, ReqState, Standing, Outcome, Answer, Op, Calls, At, InFlight,
         NewRequest, RequestsPlaced, CallsUnderWay
<1>15. ASSUME Restart PROVE CallsUnderWay'
  BY <1>15, RestartFields, BffAssumption
     DEF django, TypeOK, ReqState, Standing, Outcome, Answer, Op, Calls, At, InFlight,
         NewRequest, RequestsPlaced, CallsUnderWay
<1>16. CASE UNCHANGED vars
  BY <1>16, BffAssumption
     DEF vars, django, TypeOK, ReqState, Standing, Outcome, Answer, Op, Calls, At, InFlight,
         NewRequest, RequestsPlaced, CallsUnderWay
<1>17. QED
  BY <1>1, <1>2, <1>3, <1>4, <1>5, <1>6, <1>7, <1>8, <1>9, <1>10, <1>11, <1>12, <1>13, <1>14,
     <1>15, <1>16
     DEF Next, Advance

\* Outcomes, audit rows and answers stay in agreement.
LEMMA OutcomesStep ==
  ASSUME TypeOK, RequestsPlaced, CallsUnderWay, Outcomes, [Next]_vars
  PROVE  Outcomes'
<1>1. ASSUME NEW r \in Requests, Arrive(r) PROVE Outcomes'
  BY <1>1, BffAssumption
     DEF Arrive, Move, django, NewRequest, TypeOK, ReqState, Standing, Outcome, Answer, Op,
         Calls, At, InFlight, ResultOf, RequestsPlaced, CallsUnderWay, Outcomes
<1>2. ASSUME NEW r \in Requests, BeginAction(r) PROVE Outcomes'
  BY <1>2, BffAssumption
     DEF BeginAction, Acquire, Move, django, NewRequest, TypeOK, ReqState, Standing, Outcome,
         Answer, Op, Calls, At, InFlight, ResultOf, RequestsPlaced, CallsUnderWay, Outcomes
<1>3. ASSUME NEW r \in Requests, RefuseAction(r) PROVE Outcomes'
  BY <1>3, BffAssumption
     DEF RefuseAction, Move, django, NewRequest, TypeOK, ReqState, Standing, Outcome, Answer,
         Op, Calls, At, InFlight, ResultOf, RequestsPlaced, CallsUnderWay, Outcomes
<1>4. ASSUME NEW r \in Requests, Register(r) PROVE Outcomes'
  BY <1>4, RegisterFields, BffAssumption
     DEF Row, TypeOK, ReqState, Standing, Outcome, Answer, Op, Calls, At, InFlight,
         NewRequest, ResultOf, RequestsPlaced, CallsUnderWay, Outcomes
<1>5. ASSUME NEW r \in Requests, RegisterUnanswered(r) PROVE Outcomes'
  BY <1>5, BffAssumption
     DEF RegisterUnanswered, Send, Move, MayArrive, django, TypeOK, ReqState, Standing,
         Outcome, Answer, Op, Calls, At, InFlight, NewRequest, ResultOf, RequestsPlaced,
         CallsUnderWay, Outcomes
<1>6. ASSUME NEW r \in Requests, WahaAccepts(r) PROVE Outcomes'
  BY <1>6, BffAssumption
     DEF WahaAccepts, Heard, AnswerOf, Move, django, TypeOK, ReqState, Standing, Outcome,
         Answer, Op, Calls, At, InFlight, NewRequest, ResultOf, RequestsPlaced,
         CallsUnderWay, Outcomes
<1>7. ASSUME NEW r \in Requests, WahaRefuses(r) PROVE Outcomes'
  BY <1>7, BffAssumption
     DEF WahaRefuses, Heard, AnswerOf, Move, django, TypeOK, ReqState, Standing, Outcome,
         Answer, Op, Calls, At, InFlight, NewRequest, ResultOf, RequestsPlaced,
         CallsUnderWay, Outcomes
<1>8. ASSUME NEW r \in Requests, WahaUnanswered(r) PROVE Outcomes'
  BY <1>8, BffAssumption
     DEF WahaUnanswered, Heard, AnswerOf, Move, MayArrive, django, TypeOK, ReqState,
         Standing, Outcome, Answer, Op, Calls, At, InFlight, NewRequest, ResultOf,
         RequestsPlaced, CallsUnderWay, Outcomes
<1>9. ASSUME NEW r \in Requests, Record(r) PROVE Outcomes'
  BY <1>9, BffAssumption
     DEF Record, Write, Finish, End, Move, AnswerOf, StatusOf, ResultOf, TypeOK, ReqState,
         Standing, Outcome, Answer, Op, Calls, At, InFlight, NewRequest, RequestsPlaced,
         CallsUnderWay, Outcomes
<1>10. ASSUME NEW r \in Requests, RecordUnanswered(r) PROVE Outcomes'
  BY <1>10, BffAssumption
     DEF RecordUnanswered, Finish, End, Move, AnswerOf, MayArrive, django, TypeOK, ReqState,
         Standing, Outcome, Answer, Op, Calls, At, InFlight, NewRequest, ResultOf,
         RequestsPlaced, CallsUnderWay, Outcomes
<1>11. ASSUME NEW r \in Requests, LateRegister(r) PROVE Outcomes'
  BY <1>11, BffAssumption
     DEF LateRegister, Arrives, Registered, Pending, NoOp, TypeOK, ReqState, Standing,
         Outcome, Answer, Op, Calls, At, InFlight, NewRequest, ResultOf, RequestsPlaced,
         CallsUnderWay, Outcomes
<1>12. ASSUME NEW r \in Requests, LateWaha(r) PROVE Outcomes'
  BY <1>12, BffAssumption
     DEF LateWaha, Arrives, django, TypeOK, ReqState, Standing, Outcome, Answer, Op, Calls,
         At, InFlight, NewRequest, ResultOf, RequestsPlaced, CallsUnderWay, Outcomes
<1>13. ASSUME NEW r \in Requests, LateRecord(r) PROVE Outcomes'
  BY <1>13, BffAssumption
     DEF LateRecord, Arrives, Write, StatusOf, ResultOf, TypeOK, ReqState, Standing, Outcome,
         Answer, Op, Calls, At, InFlight, NewRequest, RequestsPlaced, CallsUnderWay,
         Outcomes
<1>14. ASSUME NEW k \in Keys, Age(k) PROVE Outcomes'
  BY <1>14, BffAssumption
     DEF Age, TypeOK, ReqState, Standing, Outcome, Answer, Op, Calls, At, InFlight,
         NewRequest, ResultOf, RequestsPlaced, CallsUnderWay, Outcomes
<1>15. ASSUME Restart PROVE Outcomes'
  BY <1>15, RestartFields, BffAssumption
     DEF django, TypeOK, ReqState, Standing, Outcome, Answer, Op, Calls, At, InFlight,
         NewRequest, ResultOf, RequestsPlaced, CallsUnderWay, Outcomes
<1>16. CASE UNCHANGED vars
  BY <1>16, BffAssumption
     DEF vars, django, TypeOK, ReqState, Standing, Outcome, Answer, Op, Calls, At, InFlight,
         NewRequest, ResultOf, RequestsPlaced, CallsUnderWay, Outcomes
<1>17. QED
  BY <1>1, <1>2, <1>3, <1>4, <1>5, <1>6, <1>7, <1>8, <1>9, <1>10, <1>11, <1>12, <1>13, <1>14,
     <1>15, <1>16
     DEF Next, Advance

\* A settled operation stays what its audit row says.
LEMMA LedgerStep ==
  ASSUME TypeOK, RequestsPlaced, CallsUnderWay, Outcomes, Ledger, [Next]_vars
  PROVE  Ledger'
<1>1. ASSUME NEW r \in Requests, Arrive(r) PROVE Ledger'
  BY <1>1, BffAssumption
     DEF Arrive, Move, django, NewRequest, TypeOK, ReqState, Standing, Outcome, Answer, Op,
         Calls, At, InFlight, StatusOf, RequestsPlaced, CallsUnderWay, Outcomes, Ledger
<1>2. ASSUME NEW r \in Requests, BeginAction(r) PROVE Ledger'
  BY <1>2, BffAssumption
     DEF BeginAction, Acquire, Move, django, NewRequest, TypeOK, ReqState, Standing, Outcome,
         Answer, Op, Calls, At, InFlight, StatusOf, RequestsPlaced, CallsUnderWay, Outcomes,
         Ledger
<1>3. ASSUME NEW r \in Requests, RefuseAction(r) PROVE Ledger'
  BY <1>3, BffAssumption
     DEF RefuseAction, Move, django, NewRequest, TypeOK, ReqState, Standing, Outcome, Answer,
         Op, Calls, At, InFlight, StatusOf, RequestsPlaced, CallsUnderWay, Outcomes, Ledger
<1>4. ASSUME NEW r \in Requests, Register(r) PROVE Ledger'
  <2>1. \A s \in Requests : s # r => req'[s] = req[s]
    BY <1>4, RegisterFields
  <2>2. /\ req'[r].for = req[r].for /\ req'[r].out = req[r].out /\ req[r].for \in Keys /\ At(r, "register")
        /\ UNCHANGED <<log, locks, late, taken>>
    BY <1>4, RegisterFields
  <2>3. \A s \in Requests : req'[s].for = req[s].for /\ req'[s].out = req[s].out
    BY <2>1, <2>2
  <2>4. \A k \in Keys : ops'[k].st \in {"sent", "failed", "unknown"} => ops'[k] = ops[k]
    BY <1>4, RegisterFields DEF Row
  <2>5. QED
    BY <2>2, <2>3, <2>4 DEF Ledger
<1>5. ASSUME NEW r \in Requests, RegisterUnanswered(r) PROVE Ledger'
  BY <1>5, BffAssumption
     DEF RegisterUnanswered, Send, Move, MayArrive, django, TypeOK, ReqState, Standing,
         Outcome, Answer, Op, Calls, At, InFlight, NewRequest, StatusOf, RequestsPlaced,
         CallsUnderWay, Outcomes, Ledger
<1>6. ASSUME NEW r \in Requests, WahaAccepts(r) PROVE Ledger'
  BY <1>6, BffAssumption
     DEF WahaAccepts, Heard, AnswerOf, Move, django, TypeOK, ReqState, Standing, Outcome,
         Answer, Op, Calls, At, InFlight, NewRequest, StatusOf, RequestsPlaced,
         CallsUnderWay, Outcomes, Ledger
<1>7. ASSUME NEW r \in Requests, WahaRefuses(r) PROVE Ledger'
  BY <1>7, BffAssumption
     DEF WahaRefuses, Heard, AnswerOf, Move, django, TypeOK, ReqState, Standing, Outcome,
         Answer, Op, Calls, At, InFlight, NewRequest, StatusOf, RequestsPlaced,
         CallsUnderWay, Outcomes, Ledger
<1>8. ASSUME NEW r \in Requests, WahaUnanswered(r) PROVE Ledger'
  BY <1>8, BffAssumption
     DEF WahaUnanswered, Heard, AnswerOf, Move, MayArrive, django, TypeOK, ReqState,
         Standing, Outcome, Answer, Op, Calls, At, InFlight, NewRequest, StatusOf,
         RequestsPlaced, CallsUnderWay, Outcomes, Ledger
<1>9. ASSUME NEW r \in Requests, Record(r) PROVE Ledger'
  BY <1>9, BffAssumption
     DEF Record, Write, Finish, End, Move, AnswerOf, StatusOf, ResultOf, TypeOK, ReqState,
         Standing, Outcome, Answer, Op, Calls, At, InFlight, NewRequest, RequestsPlaced,
         CallsUnderWay, Outcomes, Ledger
<1>10. ASSUME NEW r \in Requests, RecordUnanswered(r) PROVE Ledger'
  BY <1>10, BffAssumption
     DEF RecordUnanswered, Finish, End, Move, AnswerOf, MayArrive, django, TypeOK, ReqState,
         Standing, Outcome, Answer, Op, Calls, At, InFlight, NewRequest, StatusOf,
         RequestsPlaced, CallsUnderWay, Outcomes, Ledger
<1>11. ASSUME NEW r \in Requests, LateRegister(r) PROVE Ledger'
  BY <1>11, BffAssumption
     DEF LateRegister, Arrives, Registered, Pending, NoOp, TypeOK, ReqState, Standing,
         Outcome, Answer, Op, Calls, At, InFlight, NewRequest, StatusOf, RequestsPlaced,
         CallsUnderWay, Outcomes, Ledger
<1>12. ASSUME NEW r \in Requests, LateWaha(r) PROVE Ledger'
  BY <1>12, BffAssumption
     DEF LateWaha, Arrives, django, TypeOK, ReqState, Standing, Outcome, Answer, Op, Calls,
         At, InFlight, NewRequest, StatusOf, RequestsPlaced, CallsUnderWay, Outcomes, Ledger
<1>13. ASSUME NEW r \in Requests, LateRecord(r) PROVE Ledger'
  BY <1>13, BffAssumption
     DEF LateRecord, Arrives, Write, StatusOf, ResultOf, TypeOK, ReqState, Standing, Outcome,
         Answer, Op, Calls, At, InFlight, NewRequest, RequestsPlaced, CallsUnderWay,
         Outcomes, Ledger
<1>14. ASSUME NEW k \in Keys, Age(k) PROVE Ledger'
  BY <1>14, BffAssumption
     DEF Age, TypeOK, ReqState, Standing, Outcome, Answer, Op, Calls, At, InFlight,
         NewRequest, StatusOf, RequestsPlaced, CallsUnderWay, Outcomes, Ledger
<1>15. ASSUME Restart PROVE Ledger'
  BY <1>15, RestartFields, BffAssumption
     DEF django, TypeOK, ReqState, Standing, Outcome, Answer, Op, Calls, At, InFlight,
         NewRequest, StatusOf, RequestsPlaced, CallsUnderWay, Outcomes, Ledger
<1>16. CASE UNCHANGED vars
  BY <1>16, BffAssumption
     DEF vars, django, TypeOK, ReqState, Standing, Outcome, Answer, Op, Calls, At, InFlight,
         NewRequest, StatusOf, RequestsPlaced, CallsUnderWay, Outcomes, Ledger
<1>17. QED
  BY <1>1, <1>2, <1>3, <1>4, <1>5, <1>6, <1>7, <1>8, <1>9, <1>10, <1>11, <1>12, <1>13, <1>14,
     <1>15, <1>16
     DEF Next, Advance

\* An operation keeps its one creator.
LEMMA CreationStep ==
  ASSUME TypeOK, RequestsPlaced, CallsUnderWay, Outcomes, Ledger, Creation, [Next]_vars
  PROVE  Creation'
<1>1. ASSUME NEW r \in Requests, Arrive(r) PROVE Creation'
  BY <1>1, BffAssumption
     DEF Arrive, Move, django, NewRequest, TypeOK, ReqState, Standing, Outcome, Answer, Op,
         Calls, At, InFlight, StatusOf, Row, RequestsPlaced, CallsUnderWay, Outcomes, Ledger,
         Creation
<1>2. ASSUME NEW r \in Requests, BeginAction(r) PROVE Creation'
  BY <1>2, BffAssumption
     DEF BeginAction, Acquire, Move, django, NewRequest, TypeOK, ReqState, Standing, Outcome,
         Answer, Op, Calls, At, InFlight, StatusOf, Row, RequestsPlaced, CallsUnderWay,
         Outcomes, Ledger, Creation
<1>3. ASSUME NEW r \in Requests, RefuseAction(r) PROVE Creation'
  BY <1>3, BffAssumption
     DEF RefuseAction, Move, django, NewRequest, TypeOK, ReqState, Standing, Outcome, Answer,
         Op, Calls, At, InFlight, StatusOf, Row, RequestsPlaced, CallsUnderWay, Outcomes,
         Ledger, Creation
<1>4. ASSUME NEW r \in Requests, Register(r) PROVE Creation'
  <2>1. \A s \in Requests : s # r => req'[s] = req[s]
    BY <1>4, RegisterFields
  <2>2. /\ req'[r].for = req[r].for /\ req'[r].out = req[r].out /\ req[r].for \in Keys /\ At(r, "register")
        /\ UNCHANGED <<log, locks, late, taken>>
    BY <1>4, RegisterFields
  <2>3. \A s \in Requests : req'[s].for = req[s].for /\ req'[s].out = req[s].out
    BY <2>1, <2>2
  <2>4. \A k \in Keys : ops'[k] = ops[k] \/ (k = req[r].for /\ ops[k].st = "none" /\ ops'[k].st = "pending")
    BY <1>4, RegisterFields DEF Row
  <2>5. CASE Row(r).st = "none"
    <3>1. req'[r].by = "creator" /\ ops'[req[r].for].st = "pending"
      BY <1>4, <2>5, RegisterFields DEF Row
    <3>2. \A s \in Requests : req[s].for = req[r].for => req[s].by \notin {"creator", "retrier"}
      BY <2>2, <2>5 DEF Creation, Row
    <3>3. QED
      BY <2>1, <2>2, <2>3, <2>4, <3>1, <3>2 DEF Creation, Row
  <2>6. CASE Row(r).st # "none" /\ req'[r].by = "nobody"
    <3>1. \A k \in Keys : ops'[k] = ops[k]
      BY <1>4, <2>4, <2>6 DEF Row
    <3>2. QED
      BY <2>1, <2>2, <2>3, <2>6, <3>1 DEF Creation, Row
  <2>7. CASE Row(r).st = "unknown" /\ req'[r].by = "retrier"
    <3>1. \A k \in Keys : ops'[k] = ops[k]
      BY <1>4, <2>4, <2>7 DEF Row
    <3>2. PICK t \in Requests : req[t].for = req[r].for /\ req[t].out = "silence"
      <4> DEFINE a == ops[req[r].for].audit
      <4>1. a \in Requests /\ req[a].for = req[r].for /\ log[a] # "none" /\ StatusOf(req[a].out) = "unknown"
        BY <2>2, <2>7 DEF Ledger, Row
      <4>2. req[a].out \in Outcome /\ req[a].out # "none"
        BY <4>1 DEF Outcomes, TypeOK, ReqState
      <4>3. QED
        BY <4>1, <4>2 DEF StatusOf, Outcome
    <3>3. \A s \in Requests : req[s].for = req[r].for /\ req[s].by = "creator" => log[s] # "none"
      BY <2>2, <2>7 DEF Creation, Row
    <3>4. QED
      BY <2>1, <2>2, <2>3, <2>7, <3>1, <3>2, <3>3 DEF Creation, Row
  <2>8. QED
    BY <1>4, <2>5, <2>6, <2>7, RegisterFields
<1>5. ASSUME NEW r \in Requests, RegisterUnanswered(r) PROVE Creation'
  BY <1>5, BffAssumption
     DEF RegisterUnanswered, Send, Move, MayArrive, django, TypeOK, ReqState, Standing,
         Outcome, Answer, Op, Calls, At, InFlight, NewRequest, StatusOf, Row, RequestsPlaced,
         CallsUnderWay, Outcomes, Ledger, Creation
<1>6. ASSUME NEW r \in Requests, WahaAccepts(r) PROVE Creation'
  <2>1. req[r].out = "none" /\ UNCHANGED django
    BY <1>6 DEF RequestsPlaced, WahaAccepts
  <2>2. \A s \in Requests : /\ req'[s].for = req[s].for /\ req'[s].by = req[s].by
                            /\ req[s].out = "silence" => req'[s].out = "silence"
    BY <1>6, <2>1 DEF WahaAccepts, Heard, Move, TypeOK, ReqState
  <2>3. QED
    BY <2>1, <2>2 DEF Creation, Row, django
<1>7. ASSUME NEW r \in Requests, WahaRefuses(r) PROVE Creation'
  <2>1. req[r].out = "none" /\ UNCHANGED django
    BY <1>7 DEF RequestsPlaced, WahaRefuses
  <2>2. \A s \in Requests : /\ req'[s].for = req[s].for /\ req'[s].by = req[s].by
                            /\ req[s].out = "silence" => req'[s].out = "silence"
    BY <1>7, <2>1 DEF WahaRefuses, Heard, Move, TypeOK, ReqState
  <2>3. QED
    BY <2>1, <2>2 DEF Creation, Row, django
<1>8. ASSUME NEW r \in Requests, WahaUnanswered(r) PROVE Creation'
  <2>1. req[r].out = "none" /\ UNCHANGED django
    BY <1>8 DEF RequestsPlaced, WahaUnanswered
  <2>2. \A s \in Requests : /\ req'[s].for = req[s].for /\ req'[s].by = req[s].by
                            /\ req[s].out = "silence" => req'[s].out = "silence"
    BY <1>8, <2>1 DEF WahaUnanswered, Heard, Move, TypeOK, ReqState
  <2>3. QED
    BY <2>1, <2>2 DEF Creation, Row, django
<1>9. ASSUME NEW r \in Requests, Record(r) PROVE Creation'
  BY <1>9, BffAssumption
     DEF Record, Write, Finish, End, Move, AnswerOf, StatusOf, ResultOf, TypeOK, ReqState,
         Standing, Outcome, Answer, Op, Calls, At, InFlight, NewRequest, Row, RequestsPlaced,
         CallsUnderWay, Outcomes, Ledger, Creation
<1>10. ASSUME NEW r \in Requests, RecordUnanswered(r) PROVE Creation'
  BY <1>10, BffAssumption
     DEF RecordUnanswered, Finish, End, Move, AnswerOf, MayArrive, django, TypeOK, ReqState,
         Standing, Outcome, Answer, Op, Calls, At, InFlight, NewRequest, StatusOf, Row,
         RequestsPlaced, CallsUnderWay, Outcomes, Ledger, Creation
<1>11. ASSUME NEW r \in Requests, LateRegister(r) PROVE Creation'
  BY <1>11, BffAssumption
     DEF LateRegister, Arrives, Registered, Pending, NoOp, TypeOK, ReqState, Standing,
         Outcome, Answer, Op, Calls, At, InFlight, NewRequest, StatusOf, Row, RequestsPlaced,
         CallsUnderWay, Outcomes, Ledger, Creation
<1>12. ASSUME NEW r \in Requests, LateWaha(r) PROVE Creation'
  BY <1>12, BffAssumption
     DEF LateWaha, Arrives, django, TypeOK, ReqState, Standing, Outcome, Answer, Op, Calls,
         At, InFlight, NewRequest, StatusOf, Row, RequestsPlaced, CallsUnderWay, Outcomes,
         Ledger, Creation
<1>13. ASSUME NEW r \in Requests, LateRecord(r) PROVE Creation'
  BY <1>13, BffAssumption
     DEF LateRecord, Arrives, Write, StatusOf, ResultOf, TypeOK, ReqState, Standing, Outcome,
         Answer, Op, Calls, At, InFlight, NewRequest, Row, RequestsPlaced, CallsUnderWay,
         Outcomes, Ledger, Creation
<1>14. ASSUME NEW k \in Keys, Age(k) PROVE Creation'
  BY <1>14, BffAssumption
     DEF Age, TypeOK, ReqState, Standing, Outcome, Answer, Op, Calls, At, InFlight,
         NewRequest, StatusOf, Row, RequestsPlaced, CallsUnderWay, Outcomes, Ledger,
         Creation
<1>15. ASSUME Restart PROVE Creation'
  <2>1. UNCHANGED django /\ \A s \in Requests : /\ req'[s].for = req[s].for /\ req'[s].by = req[s].by
                                                /\ req'[s].out = req[s].out
    BY <1>15, RestartFields
  <2>2. QED
    BY <2>1 DEF Creation, Row, django
<1>16. CASE UNCHANGED vars
  BY <1>16, BffAssumption
     DEF vars, django, TypeOK, ReqState, Standing, Outcome, Answer, Op, Calls, At, InFlight,
         NewRequest, StatusOf, Row, RequestsPlaced, CallsUnderWay, Outcomes, Ledger,
         Creation
<1>17. QED
  BY <1>1, <1>2, <1>3, <1>4, <1>5, <1>6, <1>7, <1>8, <1>9, <1>10, <1>11, <1>12, <1>13, <1>14,
     <1>15, <1>16
     DEF Next, Advance

\* Answers stay true.
LEMMA AnswerStep ==
  ASSUME TypeOK, RequestsPlaced, CallsUnderWay, Outcomes, Ledger, AnswerIsTrue, [Next]_vars
  PROVE  AnswerIsTrue'
<1>1. ASSUME NEW r \in Requests, Arrive(r) PROVE AnswerIsTrue'
  BY <1>1, BffAssumption
     DEF Arrive, Move, django, NewRequest, TypeOK, ReqState, Standing, Outcome, Answer, Op,
         Calls, At, InFlight, StatusOf, RequestsPlaced, CallsUnderWay, Outcomes, Ledger,
         AnswerIsTrue
<1>2. ASSUME NEW r \in Requests, BeginAction(r) PROVE AnswerIsTrue'
  BY <1>2, BffAssumption
     DEF BeginAction, Acquire, Move, django, NewRequest, TypeOK, ReqState, Standing, Outcome,
         Answer, Op, Calls, At, InFlight, StatusOf, RequestsPlaced, CallsUnderWay, Outcomes,
         Ledger, AnswerIsTrue
<1>3. ASSUME NEW r \in Requests, RefuseAction(r) PROVE AnswerIsTrue'
  BY <1>3, BffAssumption
     DEF RefuseAction, Move, django, NewRequest, TypeOK, ReqState, Standing, Outcome, Answer,
         Op, Calls, At, InFlight, StatusOf, RequestsPlaced, CallsUnderWay, Outcomes, Ledger,
         AnswerIsTrue
<1>4. ASSUME NEW r \in Requests, Register(r) PROVE AnswerIsTrue'
  <2>1. \A s \in Requests : s # r => req'[s] = req[s]
    BY <1>4, RegisterFields
  <2>2. /\ req'[r].for = req[r].for /\ req'[r].out = req[r].out /\ req[r].for \in Keys /\ At(r, "register")
        /\ UNCHANGED <<log, locks, late, taken>>
    BY <1>4, RegisterFields
  <2>3. \A s \in Requests : req'[s].for = req[s].for /\ req'[s].out = req[s].out
    BY <2>1, <2>2
  <2>4. req'[r].ans # "failed" /\ (req'[r].ans = "done" => ops[req[r].for].st = "sent")
    BY <1>4, RegisterFields DEF Row
  <2>5. ASSUME ops[req[r].for].st = "sent"
        PROVE  \E s \in taken : req[s].for = req[r].for
    BY <2>2, <2>5 DEF Ledger, StatusOf, Outcomes
  <2>6. taken \subseteq Requests /\ req[r].out = "none"
    BY <2>2 DEF TypeOK, RequestsPlaced
  <2>7. QED
    BY <2>1, <2>2, <2>3, <2>4, <2>5, <2>6 DEF AnswerIsTrue
<1>5. ASSUME NEW r \in Requests, RegisterUnanswered(r) PROVE AnswerIsTrue'
  BY <1>5, BffAssumption
     DEF RegisterUnanswered, Send, Move, MayArrive, django, TypeOK, ReqState, Standing,
         Outcome, Answer, Op, Calls, At, InFlight, NewRequest, StatusOf, RequestsPlaced,
         CallsUnderWay, Outcomes, Ledger, AnswerIsTrue
<1>6. ASSUME NEW r \in Requests, WahaAccepts(r) PROVE AnswerIsTrue'
  BY <1>6, BffAssumption
     DEF WahaAccepts, Heard, AnswerOf, Move, django, TypeOK, ReqState, Standing, Outcome,
         Answer, Op, Calls, At, InFlight, NewRequest, StatusOf, RequestsPlaced,
         CallsUnderWay, Outcomes, Ledger, AnswerIsTrue
<1>7. ASSUME NEW r \in Requests, WahaRefuses(r) PROVE AnswerIsTrue'
  BY <1>7, BffAssumption
     DEF WahaRefuses, Heard, AnswerOf, Move, django, TypeOK, ReqState, Standing, Outcome,
         Answer, Op, Calls, At, InFlight, NewRequest, StatusOf, RequestsPlaced,
         CallsUnderWay, Outcomes, Ledger, AnswerIsTrue
<1>8. ASSUME NEW r \in Requests, WahaUnanswered(r) PROVE AnswerIsTrue'
  BY <1>8, BffAssumption
     DEF WahaUnanswered, Heard, AnswerOf, Move, MayArrive, django, TypeOK, ReqState,
         Standing, Outcome, Answer, Op, Calls, At, InFlight, NewRequest, StatusOf,
         RequestsPlaced, CallsUnderWay, Outcomes, Ledger, AnswerIsTrue
<1>9. ASSUME NEW r \in Requests, Record(r) PROVE AnswerIsTrue'
  BY <1>9, BffAssumption
     DEF Record, Write, Finish, End, Move, AnswerOf, StatusOf, ResultOf, TypeOK, ReqState,
         Standing, Outcome, Answer, Op, Calls, At, InFlight, NewRequest, RequestsPlaced,
         CallsUnderWay, Outcomes, Ledger, AnswerIsTrue
<1>10. ASSUME NEW r \in Requests, RecordUnanswered(r) PROVE AnswerIsTrue'
  BY <1>10, BffAssumption
     DEF RecordUnanswered, Finish, End, Move, AnswerOf, MayArrive, django, TypeOK, ReqState,
         Standing, Outcome, Answer, Op, Calls, At, InFlight, NewRequest, StatusOf,
         RequestsPlaced, CallsUnderWay, Outcomes, Ledger, AnswerIsTrue
<1>11. ASSUME NEW r \in Requests, LateRegister(r) PROVE AnswerIsTrue'
  BY <1>11, BffAssumption
     DEF LateRegister, Arrives, Registered, Pending, NoOp, TypeOK, ReqState, Standing,
         Outcome, Answer, Op, Calls, At, InFlight, NewRequest, StatusOf, RequestsPlaced,
         CallsUnderWay, Outcomes, Ledger, AnswerIsTrue
<1>12. ASSUME NEW r \in Requests, LateWaha(r) PROVE AnswerIsTrue'
  BY <1>12, BffAssumption
     DEF LateWaha, Arrives, django, TypeOK, ReqState, Standing, Outcome, Answer, Op, Calls,
         At, InFlight, NewRequest, StatusOf, RequestsPlaced, CallsUnderWay, Outcomes, Ledger,
         AnswerIsTrue
<1>13. ASSUME NEW r \in Requests, LateRecord(r) PROVE AnswerIsTrue'
  BY <1>13, BffAssumption
     DEF LateRecord, Arrives, Write, StatusOf, ResultOf, TypeOK, ReqState, Standing, Outcome,
         Answer, Op, Calls, At, InFlight, NewRequest, RequestsPlaced, CallsUnderWay,
         Outcomes, Ledger, AnswerIsTrue
<1>14. ASSUME NEW k \in Keys, Age(k) PROVE AnswerIsTrue'
  BY <1>14, BffAssumption
     DEF Age, TypeOK, ReqState, Standing, Outcome, Answer, Op, Calls, At, InFlight,
         NewRequest, StatusOf, RequestsPlaced, CallsUnderWay, Outcomes, Ledger, AnswerIsTrue
<1>15. ASSUME Restart PROVE AnswerIsTrue'
  BY <1>15, RestartFields, BffAssumption
     DEF django, TypeOK, ReqState, Standing, Outcome, Answer, Op, Calls, At, InFlight,
         NewRequest, StatusOf, RequestsPlaced, CallsUnderWay, Outcomes, Ledger, AnswerIsTrue
<1>16. CASE UNCHANGED vars
  BY <1>16, BffAssumption
     DEF vars, django, TypeOK, ReqState, Standing, Outcome, Answer, Op, Calls, At, InFlight,
         NewRequest, StatusOf, RequestsPlaced, CallsUnderWay, Outcomes, Ledger, AnswerIsTrue
<1>17. QED
  BY <1>1, <1>2, <1>3, <1>4, <1>5, <1>6, <1>7, <1>8, <1>9, <1>10, <1>11, <1>12, <1>13, <1>14,
     <1>15, <1>16
     DEF Next, Advance

\* Audit rows are written with the answer.
LEMMA AuditStep ==
  ASSUME TypeOK, RequestsPlaced, CallsUnderWay, AuditSurvives, [Next]_vars
  PROVE  AuditSurvives'
<1>1. ASSUME NEW r \in Requests, Arrive(r) PROVE AuditSurvives'
  BY <1>1, BffAssumption
     DEF Arrive, Move, django, NewRequest, TypeOK, ReqState, Standing, Outcome, Answer, Op,
         Calls, At, InFlight, ResultOf, RequestsPlaced, CallsUnderWay, AuditSurvives
<1>2. ASSUME NEW r \in Requests, BeginAction(r) PROVE AuditSurvives'
  BY <1>2, BffAssumption
     DEF BeginAction, Acquire, Move, django, NewRequest, TypeOK, ReqState, Standing, Outcome,
         Answer, Op, Calls, At, InFlight, ResultOf, RequestsPlaced, CallsUnderWay,
         AuditSurvives
<1>3. ASSUME NEW r \in Requests, RefuseAction(r) PROVE AuditSurvives'
  BY <1>3, BffAssumption
     DEF RefuseAction, Move, django, NewRequest, TypeOK, ReqState, Standing, Outcome, Answer,
         Op, Calls, At, InFlight, ResultOf, RequestsPlaced, CallsUnderWay, AuditSurvives
<1>4. ASSUME NEW r \in Requests, Register(r) PROVE AuditSurvives'
  BY <1>4, RegisterFields, BffAssumption
     DEF Row, TypeOK, ReqState, Standing, Outcome, Answer, Op, Calls, At, InFlight,
         NewRequest, ResultOf, RequestsPlaced, CallsUnderWay, AuditSurvives
<1>5. ASSUME NEW r \in Requests, RegisterUnanswered(r) PROVE AuditSurvives'
  BY <1>5, BffAssumption
     DEF RegisterUnanswered, Send, Move, MayArrive, django, TypeOK, ReqState, Standing,
         Outcome, Answer, Op, Calls, At, InFlight, NewRequest, ResultOf, RequestsPlaced,
         CallsUnderWay, AuditSurvives
<1>6. ASSUME NEW r \in Requests, WahaAccepts(r) PROVE AuditSurvives'
  BY <1>6, BffAssumption
     DEF WahaAccepts, Heard, AnswerOf, Move, django, TypeOK, ReqState, Standing, Outcome,
         Answer, Op, Calls, At, InFlight, NewRequest, ResultOf, RequestsPlaced,
         CallsUnderWay, AuditSurvives
<1>7. ASSUME NEW r \in Requests, WahaRefuses(r) PROVE AuditSurvives'
  BY <1>7, BffAssumption
     DEF WahaRefuses, Heard, AnswerOf, Move, django, TypeOK, ReqState, Standing, Outcome,
         Answer, Op, Calls, At, InFlight, NewRequest, ResultOf, RequestsPlaced,
         CallsUnderWay, AuditSurvives
<1>8. ASSUME NEW r \in Requests, WahaUnanswered(r) PROVE AuditSurvives'
  BY <1>8, BffAssumption
     DEF WahaUnanswered, Heard, AnswerOf, Move, MayArrive, django, TypeOK, ReqState,
         Standing, Outcome, Answer, Op, Calls, At, InFlight, NewRequest, ResultOf,
         RequestsPlaced, CallsUnderWay, AuditSurvives
<1>9. ASSUME NEW r \in Requests, Record(r) PROVE AuditSurvives'
  BY <1>9, BffAssumption
     DEF Record, Write, Finish, End, Move, AnswerOf, StatusOf, ResultOf, TypeOK, ReqState,
         Standing, Outcome, Answer, Op, Calls, At, InFlight, NewRequest, RequestsPlaced,
         CallsUnderWay, AuditSurvives
<1>10. ASSUME NEW r \in Requests, RecordUnanswered(r) PROVE AuditSurvives'
  BY <1>10, BffAssumption
     DEF RecordUnanswered, Finish, End, Move, AnswerOf, MayArrive, django, TypeOK, ReqState,
         Standing, Outcome, Answer, Op, Calls, At, InFlight, NewRequest, ResultOf,
         RequestsPlaced, CallsUnderWay, AuditSurvives
<1>11. ASSUME NEW r \in Requests, LateRegister(r) PROVE AuditSurvives'
  BY <1>11, BffAssumption
     DEF LateRegister, Arrives, Registered, Pending, NoOp, TypeOK, ReqState, Standing,
         Outcome, Answer, Op, Calls, At, InFlight, NewRequest, ResultOf, RequestsPlaced,
         CallsUnderWay, AuditSurvives
<1>12. ASSUME NEW r \in Requests, LateWaha(r) PROVE AuditSurvives'
  BY <1>12, BffAssumption
     DEF LateWaha, Arrives, django, TypeOK, ReqState, Standing, Outcome, Answer, Op, Calls,
         At, InFlight, NewRequest, ResultOf, RequestsPlaced, CallsUnderWay, AuditSurvives
<1>13. ASSUME NEW r \in Requests, LateRecord(r) PROVE AuditSurvives'
  BY <1>13, BffAssumption
     DEF LateRecord, Arrives, Write, StatusOf, ResultOf, TypeOK, ReqState, Standing, Outcome,
         Answer, Op, Calls, At, InFlight, NewRequest, RequestsPlaced, CallsUnderWay,
         AuditSurvives
<1>14. ASSUME NEW k \in Keys, Age(k) PROVE AuditSurvives'
  BY <1>14, BffAssumption
     DEF Age, TypeOK, ReqState, Standing, Outcome, Answer, Op, Calls, At, InFlight,
         NewRequest, ResultOf, RequestsPlaced, CallsUnderWay, AuditSurvives
<1>15. ASSUME Restart PROVE AuditSurvives'
  BY <1>15, RestartFields, BffAssumption
     DEF django, TypeOK, ReqState, Standing, Outcome, Answer, Op, Calls, At, InFlight,
         NewRequest, ResultOf, RequestsPlaced, CallsUnderWay, AuditSurvives
<1>16. CASE UNCHANGED vars
  BY <1>16, BffAssumption
     DEF vars, django, TypeOK, ReqState, Standing, Outcome, Answer, Op, Calls, At, InFlight,
         NewRequest, ResultOf, RequestsPlaced, CallsUnderWay, AuditSurvives
<1>17. QED
  BY <1>1, <1>2, <1>3, <1>4, <1>5, <1>6, <1>7, <1>8, <1>9, <1>10, <1>11, <1>12, <1>13, <1>14,
     <1>15, <1>16
     DEF Next, Advance

\* A lock changes hands with its request.
LEMMA LockStep ==
  ASSUME TypeOK, RequestsPlaced, LockHasHolder, [Next]_vars
  PROVE  LockHasHolder'
<1>1. ASSUME NEW r \in Requests, Arrive(r) PROVE LockHasHolder'
  BY <1>1, BffAssumption
     DEF Arrive, Move, django, NewRequest, TypeOK, ReqState, Standing, Outcome, Answer, Op,
         Calls, At, InFlight, RequestsPlaced, LockHasHolder
<1>2. ASSUME NEW r \in Requests, BeginAction(r) PROVE LockHasHolder'
  BY <1>2, BffAssumption
     DEF BeginAction, Acquire, Move, django, NewRequest, TypeOK, ReqState, Standing, Outcome,
         Answer, Op, Calls, At, InFlight, RequestsPlaced, LockHasHolder
<1>3. ASSUME NEW r \in Requests, RefuseAction(r) PROVE LockHasHolder'
  BY <1>3, BffAssumption
     DEF RefuseAction, Move, django, NewRequest, TypeOK, ReqState, Standing, Outcome, Answer,
         Op, Calls, At, InFlight, RequestsPlaced, LockHasHolder
<1>4. ASSUME NEW r \in Requests, Register(r) PROVE LockHasHolder'
  <2>1. \A s \in Requests : s # r => req'[s] = req[s]
    BY <1>4, RegisterFields
  <2>2. /\ req'[r].for = req[r].for /\ req'[r].out = req[r].out /\ req[r].for \in Keys /\ At(r, "register")
        /\ UNCHANGED <<log, locks, late, taken>>
    BY <1>4, RegisterFields
  <2>3. \A s \in Requests : req'[s].for = req[s].for /\ req'[s].out = req[s].out
    BY <2>1, <2>2
  <2>4. req[r].for \notin Locked
    BY <2>2, BffAssumption
  <2>5. \A s \in Requests : s # r => (InFlight(s)' <=> InFlight(s))
    BY <2>1 DEF InFlight
  <2>6. QED
    BY <2>2, <2>3, <2>4, <2>5 DEF LockHasHolder
<1>5. ASSUME NEW r \in Requests, RegisterUnanswered(r) PROVE LockHasHolder'
  BY <1>5, BffAssumption
     DEF RegisterUnanswered, Send, Move, MayArrive, django, TypeOK, ReqState, Standing,
         Outcome, Answer, Op, Calls, At, InFlight, NewRequest, RequestsPlaced, LockHasHolder
<1>6. ASSUME NEW r \in Requests, WahaAccepts(r) PROVE LockHasHolder'
  BY <1>6, BffAssumption
     DEF WahaAccepts, Heard, AnswerOf, Move, django, TypeOK, ReqState, Standing, Outcome,
         Answer, Op, Calls, At, InFlight, NewRequest, RequestsPlaced, LockHasHolder
<1>7. ASSUME NEW r \in Requests, WahaRefuses(r) PROVE LockHasHolder'
  BY <1>7, BffAssumption
     DEF WahaRefuses, Heard, AnswerOf, Move, django, TypeOK, ReqState, Standing, Outcome,
         Answer, Op, Calls, At, InFlight, NewRequest, RequestsPlaced, LockHasHolder
<1>8. ASSUME NEW r \in Requests, WahaUnanswered(r) PROVE LockHasHolder'
  BY <1>8, BffAssumption
     DEF WahaUnanswered, Heard, AnswerOf, Move, MayArrive, django, TypeOK, ReqState,
         Standing, Outcome, Answer, Op, Calls, At, InFlight, NewRequest, RequestsPlaced,
         LockHasHolder
<1>9. ASSUME NEW r \in Requests, Record(r) PROVE LockHasHolder'
  BY <1>9, BffAssumption
     DEF Record, Write, Finish, End, Move, AnswerOf, StatusOf, ResultOf, TypeOK, ReqState,
         Standing, Outcome, Answer, Op, Calls, At, InFlight, NewRequest, RequestsPlaced,
         LockHasHolder
<1>10. ASSUME NEW r \in Requests, RecordUnanswered(r) PROVE LockHasHolder'
  BY <1>10, BffAssumption
     DEF RecordUnanswered, Finish, End, Move, AnswerOf, MayArrive, django, TypeOK, ReqState,
         Standing, Outcome, Answer, Op, Calls, At, InFlight, NewRequest, RequestsPlaced,
         LockHasHolder
<1>11. ASSUME NEW r \in Requests, LateRegister(r) PROVE LockHasHolder'
  BY <1>11, BffAssumption
     DEF LateRegister, Arrives, Registered, Pending, NoOp, TypeOK, ReqState, Standing,
         Outcome, Answer, Op, Calls, At, InFlight, NewRequest, RequestsPlaced, LockHasHolder
<1>12. ASSUME NEW r \in Requests, LateWaha(r) PROVE LockHasHolder'
  BY <1>12, BffAssumption
     DEF LateWaha, Arrives, django, TypeOK, ReqState, Standing, Outcome, Answer, Op, Calls,
         At, InFlight, NewRequest, RequestsPlaced, LockHasHolder
<1>13. ASSUME NEW r \in Requests, LateRecord(r) PROVE LockHasHolder'
  BY <1>13, BffAssumption
     DEF LateRecord, Arrives, Write, StatusOf, ResultOf, TypeOK, ReqState, Standing, Outcome,
         Answer, Op, Calls, At, InFlight, NewRequest, RequestsPlaced, LockHasHolder
<1>14. ASSUME NEW k \in Keys, Age(k) PROVE LockHasHolder'
  BY <1>14, BffAssumption
     DEF Age, TypeOK, ReqState, Standing, Outcome, Answer, Op, Calls, At, InFlight,
         NewRequest, RequestsPlaced, LockHasHolder
<1>15. ASSUME Restart PROVE LockHasHolder'
  BY <1>15, RestartFields, BffAssumption
     DEF django, TypeOK, ReqState, Standing, Outcome, Answer, Op, Calls, At, InFlight,
         NewRequest, RequestsPlaced, LockHasHolder
<1>16. CASE UNCHANGED vars
  BY <1>16, BffAssumption
     DEF vars, django, TypeOK, ReqState, Standing, Outcome, Answer, Op, Calls, At, InFlight,
         NewRequest, RequestsPlaced, LockHasHolder
<1>17. QED
  BY <1>1, <1>2, <1>3, <1>4, <1>5, <1>6, <1>7, <1>8, <1>9, <1>10, <1>11, <1>12, <1>13, <1>14,
     <1>15, <1>16
     DEF Next, Advance

-----------------------------------------------------------------------------
(* Theorems                                                                *)

\* No operation, no request: nothing to be wrong about.
LEMMA InitInv == Init => IInv
BY BffAssumption
   DEF Init, IInv, TypeOK, RequestsPlaced, CallsUnderWay, Outcomes, Ledger, Creation,
   AnswerIsTrue, AuditSurvives, LockHasHolder, NoOp, Op, NewRequest, ReqState, Standing, Outcome,
   Answer, At, InFlight, Row

\* Every step keeps the inductive invariant.
LEMMA StepInv == IInv /\ [Next]_vars => IInv'
BY TypeStep, PlacedStep, CallsStep, OutcomesStep, LedgerStep, CreationStep, AnswerStep, AuditStep,
   LockStep DEF IInv

\* The inductive invariant holds throughout.
THEOREM Invariance == Spec => []IInv
  BY InitInv, StepInv, PTL DEF Spec

\* Rows, requests and locks keep their types.
THEOREM TypeCorrect == Spec => []TypeOK
<1>1. IInv => TypeOK
  BY DEF IInv
<1>2. QED
  BY <1>1, Invariance, PTL

\* WAHA carries out a message twice under one key only if a request had no
\* operation, or retried one left unconfirmed for the staleness threshold.
THEOREM ResendsAreJustified == Spec => []ResendIsJustified
<1>1. IInv => ResendIsJustified
  <2>1. SUFFICES ASSUME IInv, NEW r \in taken, NEW s \in taken, r # s, req[r].for = req[s].for,
                        req[r].for \in Keys
                 PROVE  \E t \in {r, s} : req[t].by \in {"blind", "retrier"}
    BY DEF ResendIsJustified
  <2>2. r \in Requests /\ s \in Requests /\ req[r].by # "nobody" /\ req[s].by # "nobody"
    BY <2>1 DEF IInv, TypeOK, Outcomes
  <2>3. req[r].by \in Standing /\ req[s].by \in Standing
    BY <2>2, <2>1 DEF IInv, TypeOK, ReqState
  <2>4. req[r].by # "again" /\ req[s].by # "again"
    BY <2>1, <2>2 DEF IInv, RequestsPlaced
  <2>5. ~(req[r].by = "creator" /\ req[s].by = "creator")
    BY <2>1, <2>2 DEF IInv, Creation
  <2>6. QED
    BY <2>2, <2>3, <2>4, <2>5 DEF Standing
<1>2. QED
  BY <1>1, Invariance, PTL

\* Operations and audit rows tell what happened.
THEOREM LedgerStaysTrue == Spec => []LedgerIsTrue
<1>1. IInv => LedgerIsTrue
  <2>1. SUFFICES ASSUME IInv PROVE LedgerIsTrue
    OBVIOUS
  <2>2. ASSUME NEW k \in Keys, ops[k].st \in {"sent", "failed", "unknown"}
        PROVE  LET a == ops[k].audit IN
               /\ a \in Requests /\ req[a].for = k /\ log[a] = ResultOf(req[a].out)
               /\ ops[k].st = "sent" => a \in taken
               /\ ops[k].st = "failed" => a \notin taken
    <3> DEFINE a == ops[k].audit
    <3>1. a \in Requests /\ req[a].for = k /\ log[a] # "none" /\ ops[k].st = StatusOf(req[a].out)
      BY <2>1, <2>2 DEF IInv, Ledger
    <3>2. /\ log[a] = ResultOf(req[a].out)
          /\ req[a].out = "success" => a \in taken
          /\ req[a].out = "http_error" => a \notin taken
      BY <2>1, <3>1 DEF IInv, Outcomes
    <3>3. QED
      BY <3>1, <3>2 DEF StatusOf
  <2>3. ASSUME NEW r \in Requests, log[r] = "success" PROVE r \in taken
    BY <2>1, <2>3 DEF IInv, Outcomes, ResultOf
  <2>4. AuditSurvives
    BY <2>1 DEF IInv
  <2>5. QED
    BY <2>2, <2>3, <2>4 DEF LedgerIsTrue
<1>2. QED
  BY <1>1, Invariance, PTL

\* The browser is told the truth.
THEOREM AnswersStayTrue == Spec => []AnswerIsTrue
<1>1. IInv => AnswerIsTrue
  BY DEF IInv
<1>2. QED
  BY <1>1, Invariance, PTL

\* An answered request has its audit row unless the call for it was lost.
THEOREM AuditsSurvive == Spec => []AuditSurvives
<1>1. IInv => AuditSurvives
  BY DEF IInv
<1>2. QED
  BY <1>1, Invariance, PTL

\* A lock is held exactly while its action is under way.
THEOREM LocksHaveHolders == Spec => []LockHasHolder
<1>1. IInv => LockHasHolder
  BY DEF IInv
<1>2. QED
  BY <1>1, Invariance, PTL

\* Only the outcome of a retry overwrites a sent operation.
LEMMA SentKept ==
  ASSUME IInv, [Next]_vars, NEW k \in Keys, ops[k].st = "sent", ops'[k].st # "sent"
  PROVE  \E r \in Requests : req[r].for = k /\ req[r].by = "retrier" /\ log[r] = "none" /\ log'[r] # "none"
<1> DEFINE Goal == \E r \in Requests : req[r].for = k /\ req[r].by = "retrier" /\ log[r] = "none" /\ log'[r] # "none"
<1>1. ops[k] \in Op /\ ops \in [Keys -> Op]
  BY DEF IInv, TypeOK
<1>2. ASSUME NEW r \in Requests, Write(r), req[r].by # "blind", log[r] = "none", req[r].out # "none",
             req[r].for \in Keys => req[r].by # "nobody"
      PROVE  Goal
  <2>1. req[r].for = k
    BY <1>1, <1>2 DEF Write
  <2>2. req[r].by # "creator"
    BY <1>2, <2>1 DEF IInv, Creation, Row
  <2>3. req[r].by = "retrier"
    BY <1>2, <2>1, <2>2 DEF IInv, TypeOK, ReqState, Standing, RequestsPlaced
  <2>4. log'[r] # "none"
    BY <1>2 DEF Write, ResultOf, IInv, TypeOK
  <2>5. QED
    BY <1>2, <2>1, <2>3, <2>4
<1>3. ASSUME NEW r \in Requests, Record(r) PROVE Goal
  BY <1>2, <1>3 DEF Record, At, IInv, RequestsPlaced
<1>4. ASSUME NEW r \in Requests, LateRecord(r) PROVE Goal
  BY <1>2, <1>4 DEF LateRecord, Arrives, IInv, CallsUnderWay
<1>5. ASSUME NEW r \in Requests, Register(r) PROVE ops'[k].st = "sent"
  BY <1>1, <1>5 DEF Register, Registered
<1>6. ASSUME NEW r \in Requests, LateRegister(r) PROVE ops'[k].st = "sent"
  BY <1>1, <1>6 DEF LateRegister, Registered
<1>7. ASSUME NEW j \in Keys, Age(j) PROVE ops'[k].st = "sent"
  BY <1>1, <1>7 DEF Age, Op
<1>8. ops' = ops => ops'[k].st = "sent"
  OBVIOUS
<1>9. QED
  BY <1>3, <1>4, <1>5, <1>6, <1>7, <1>8
     DEF Next, Advance, vars, django, Arrive, BeginAction, RefuseAction, RegisterUnanswered,
         WahaAccepts,
         WahaRefuses, WahaUnanswered, RecordUnanswered, LateWaha, Restart

\* A sent operation is never undone by its creator or by a duplicate.
THEOREM SentOperationsStay == Spec => SentStays
<1> DEFINE A == \A k \in Keys : (ops[k].st = "sent" /\ ops'[k].st # "sent") =>
      \E r \in Requests : req[r].for = k /\ req[r].by = "retrier" /\ log[r] = "none" /\ log'[r] # "none"
<1>1. IInv /\ [Next]_vars => [A]_vars
  BY SentKept
<1>2. QED
  BY <1>1, Invariance, PTL DEF Spec, SentStays
=============================================================================
