-------------------------------- MODULE Bff --------------------------------
(***************************************************************************)
(* The BFF process (bff/src) between the browsers, Django's internal       *)
(* endpoints and WAHA: sending one message under an idempotency key, and   *)
(* the session's lifecycle actions behind an in-process lock.              *)
(*                                                                         *)
(* A request is a chain of awaited calls: register the operation with      *)
(* Django, call WAHA, have Django record the outcome.  The BFF waits for   *)
(* each until its timeout and goes on whatever comes of it; a call it gave *)
(* up on may still arrive, later or never.  The process may be restarted   *)
(* at any moment and forgets its requests and its locks.                   *)
(*                                                                         *)
(* A request refused for its token, its session or its body changes        *)
(* nothing and is no step.  Reads (status), the typing indicator and the   *)
(* local log are left out; the reconciliation asked for after a send is a  *)
(* targeted run of module Reconcile.                                       *)
(***************************************************************************)

CONSTANTS Requests,  \* HTTP requests, each performed once
          Keys,      \* idempotency keys: one row per key and session
          Actions,   \* lifecycle actions, pairing code and QR of the session
          Locked,    \* those behind the in-process lock
          NoTarget, NoRequest

ASSUME BffAssumption ==
    /\ Keys \cap Actions = {} /\ Locked \subseteq Actions
    /\ NoTarget \notin Keys \cup Actions /\ NoRequest \notin Requests

VARIABLES ops,    \* OutboundOperation rows
          log,    \* AuditLog: the result recorded for a request
          locks,  \* inFlight
          req,    \* requests: position and local variables
          late,   \* calls the BFF no longer waits for and that may yet arrive
          taken   \* the requests whose call WAHA carried out

django == <<ops, log>>
vars == <<django, locks, req, late, taken>>

-----------------------------------------------------------------------------
(* Rows and requests                                                       *)

Op == [st : {"none", "pending", "sent", "failed", "unknown"}, stale : BOOLEAN,
       audit : Requests \cup {NoRequest}]
NoOp == [st |-> "none", stale |-> FALSE, audit |-> NoRequest]
Pending == [NoOp EXCEPT !.st = "pending"]

\* How a message came to be sent: its request created the operation, retries
\* one that had gone unconfirmed for the staleness threshold, goes on again
\* with any other, or has none because it got no answer from Django.
Standing == {"nobody", "creator", "retrier", "again", "blind"}
Outcome == {"none", "success", "http_error", "silence"}
Answer == {"none", "done", "pending", "unknown", "failed", "conflict"}
ReqState == [pc : {"new", "register", "send", "record", "over"}, for : Keys \cup Actions \cup {NoTarget},
             by : Standing, out : Outcome, ans : Answer]
NewRequest == [pc |-> "new", for |-> NoTarget, by |-> "nobody", out |-> "none", ans |-> "none"]

Call == [register |-> "register", send |-> "waha", record |-> "record"]
Calls == {"register", "waha", "record"}

At(r, pc) == req[r].pc = pc
InFlight(r) == req[r].pc \in {"register", "send", "record"}
Row(r) == ops[req[r].for]
Move(r, state) == req' = [req EXCEPT ![r] = state]
End(r, ans) == Move(r, [req[r] EXCEPT !.pc = "over", !.ans = ans])
MayArrive(r, call) == late' = [late EXCEPT ![r] = @ \cup {call}]
Arrives(r, call) == call \in late[r] /\ late' = [late EXCEPT ![r] = @ \ {call}]

\* What becomes of an outcome: status of the operation, result of the audit
\* row, answer to the browser.
\* Mutant: a call without an answer counts as failed.
StatusOfConfirmed(out) == IF out = "success" THEN "sent" ELSE "failed"
StatusOf(out) == CASE out = "success" -> "sent" [] out = "http_error" -> "failed" [] OTHER -> "unknown"
ResultOf(out) == IF out = "success" THEN "success" ELSE "failure"
\* Mutant: everything but a success is a failure.
AnswerOfBinary(out) == IF out = "success" THEN "done" ELSE "failed"
AnswerOf(out) == CASE out = "success" -> "done" [] out = "http_error" -> "failed" [] OTHER -> "unknown"

Init ==
    /\ ops = [k \in Keys |-> NoOp]
    /\ log = [r \in Requests |-> "none"]
    /\ locks = {}
    /\ req = [r \in Requests |-> NewRequest]
    /\ late = [r \in Requests |-> {}]
    /\ taken = {}

-----------------------------------------------------------------------------
(* Registering the operation                                               *)

Arrive(r) ==
    /\ At(r, "new")
    /\ \E k \in Keys : Move(r, [NewRequest EXCEPT !.pc = "register", !.for = k])
    /\ UNCHANGED <<django, locks, late, taken>>

\* get_or_create under the unique (session, idempotency_key)
\* Mutant: update_or_create.
RegisteredAnew(k) == [ops EXCEPT ![k] = Pending]
Registered(k) == IF ops[k].st = "none" THEN [ops EXCEPT ![k] = Pending] ELSE ops

\* _serialize's `retryable`
Retryable(op) == op.st \in {"pending", "unknown"} /\ op.stale

\* Answered as it stands, without another call to WAHA.
Replies(op) == op.st \in {"pending", "sent"}
\* Mutant: `retryable` is not looked at.
RetriesAtOnce(op) == ~Replies(op) /\ op.st # "failed"
Retries(op) == ~Replies(op) /\ op.st # "failed" /\ Retryable(op)

\* What a request that goes on with an operation finds: nobody knows what
\* became of the message, and has not known for the staleness threshold.
Unconfirmed(op) == op.st \in {"pending", "unknown"} /\ op.stale
StandingOn(op) == IF Unconfirmed(op) THEN "retrier" ELSE "again"

Send(r, by) == Move(r, [req[r] EXCEPT !.pc = "send", !.by = by])

Register(r) ==
    /\ At(r, "register")
    /\ ops' = Registered(req[r].for)
    /\ \/ Row(r).st = "none" /\ Send(r, "creator")
       \/ Replies(Row(r)) /\ End(r, IF Row(r).st = "sent" THEN "done" ELSE "pending")
       \/ Retries(Row(r)) /\ Send(r, StandingOn(Row(r)))
       \/ Row(r).st # "none" /\ ~Replies(Row(r)) /\ ~Retries(Row(r)) /\ End(r, "conflict")
    /\ UNCHANGED <<log, locks, late, taken>>

\* No answer from Django: the message is sent all the same.
RegisterUnanswered(r) ==
    /\ At(r, "register")
    /\ Send(r, "blind")
    /\ MayArrive(r, "register")
    /\ UNCHANGED <<django, locks, taken>>

LateRegister(r) ==
    /\ Arrives(r, "register")
    /\ ops' = Registered(req[r].for)
    /\ UNCHANGED <<log, locks, req, taken>>

\* updated_at falls behind OUTBOUND_OPERATION_STALE_SECONDS (nobody asks how
\* old a sent or failed operation is).
Age(k) ==
    /\ ops[k].st \in {"pending", "unknown"} /\ ~ops[k].stale
    /\ ops' = [ops EXCEPT ![k].stale = TRUE]
    /\ UNCHANGED <<log, locks, req, late, taken>>

-----------------------------------------------------------------------------
(* Lifecycle actions                                                       *)

\* Mutant: every action takes a lock.
AcquireAny(a) == a \notin locks /\ locks' = locks \cup {a}
\* acquireOperationLock
Acquire(a) == a \notin locks /\ locks' = locks \cup ({a} \cap Locked)

BeginAction(r) ==
    /\ At(r, "new")
    /\ \E a \in Actions : Acquire(a) /\ Move(r, [NewRequest EXCEPT !.pc = "send", !.for = a])
    /\ UNCHANGED <<django, late, taken>>

RefuseAction(r) ==
    /\ At(r, "new")
    /\ \E a \in locks : Move(r, [NewRequest EXCEPT !.pc = "over", !.for = a, !.ans = "conflict"])
    /\ UNCHANGED <<django, locks, late, taken>>

-----------------------------------------------------------------------------
(* Calling WAHA                                                            *)

\* The call has come to an end; without an operation nothing is left to record.
Heard(r, out) ==
    Move(r, IF req[r].by = "blind"
            THEN [req[r] EXCEPT !.pc = "over", !.out = out, !.ans = AnswerOf(out)]
            ELSE [req[r] EXCEPT !.pc = "record", !.out = out])

WahaAccepts(r) ==
    /\ At(r, "send")
    /\ Heard(r, "success")
    /\ taken' = taken \cup {r}
    /\ UNCHANGED <<django, locks, late>>

WahaRefuses(r) ==
    /\ At(r, "send")
    /\ Heard(r, "http_error")
    /\ UNCHANGED <<django, locks, late, taken>>

\* timeout, network_error
WahaUnanswered(r) ==
    /\ At(r, "send")
    /\ Heard(r, "silence")
    /\ MayArrive(r, "waha")
    /\ UNCHANGED <<django, locks, taken>>

LateWaha(r) ==
    /\ Arrives(r, "waha")
    /\ taken' = taken \cup {r}
    /\ UNCHANGED <<django, locks, req>>

-----------------------------------------------------------------------------
(* Recording the outcome                                                   *)

\* The operation and its audit row in one transaction; an action has only the
\* audit row.
Write(r) ==
    /\ ops' = IF req[r].for \in Keys
              THEN [ops EXCEPT ![req[r].for] = [st |-> StatusOf(req[r].out), stale |-> FALSE, audit |-> r]]
              ELSE ops
    /\ log' = [log EXCEPT ![r] = ResultOf(req[r].out)]

\* Mutant: the lock is kept when WAHA did not answer.
FinishConfirmed(r) ==
    /\ End(r, AnswerOf(req[r].out))
    /\ locks' = IF req[r].out = "silence" THEN locks ELSE locks \ {req[r].for}

\* The answer to the browser and releaseOperationLock.
Finish(r) ==
    /\ End(r, AnswerOf(req[r].out))
    /\ locks' = locks \ {req[r].for}

Record(r) ==
    /\ At(r, "record")
    /\ Write(r)
    /\ Finish(r)
    /\ UNCHANGED <<late, taken>>

\* Mutant: the BFF waits for Django as long as it takes.
RecordAwaited(r) == FALSE

RecordUnanswered(r) ==
    /\ At(r, "record")
    /\ Finish(r)
    /\ MayArrive(r, "record")
    /\ UNCHANGED <<django, taken>>

LateRecord(r) ==
    /\ Arrives(r, "record")
    /\ Write(r)
    /\ UNCHANGED <<locks, req, taken>>

-----------------------------------------------------------------------------
(* The process                                                             *)

\* The BFF is restarted: the set of locks is gone, no request is answered, and
\* the calls under way may arrive or not.
Restart ==
    /\ \E r \in Requests : InFlight(r)
    /\ req' = [r \in Requests |-> IF InFlight(r) THEN [req[r] EXCEPT !.pc = "over"] ELSE req[r]]
    /\ late' = [r \in Requests |-> IF InFlight(r) THEN late[r] \cup {Call[req[r].pc]} ELSE late[r]]
    /\ locks' = {}
    /\ UNCHANGED <<django, taken>>

\* What a request does once it has been taken up.
Advance(r) ==
    \/ Register(r) \/ RegisterUnanswered(r)
    \/ WahaAccepts(r) \/ WahaRefuses(r) \/ WahaUnanswered(r)
    \/ Record(r) \/ RecordUnanswered(r)

Next ==
    \/ \E r \in Requests : \/ Arrive(r) \/ BeginAction(r) \/ RefuseAction(r)
                           \/ Advance(r)
                           \/ LateRegister(r) \/ LateWaha(r) \/ LateRecord(r)
    \/ \E k \in Keys : Age(k)
    \/ Restart

Spec == Init /\ [][Next]_vars

\* Nothing makes Django or WAHA answer, but every awaited call ends at its timeout.
TimeOut(r) == RegisterUnanswered(r) \/ WahaUnanswered(r) \/ RecordUnanswered(r)
FairSpec == Spec /\ \A r \in Requests : WF_vars(TimeOut(r))

-----------------------------------------------------------------------------
(* Properties                                                              *)

TypeOK ==
    /\ ops \in [Keys -> Op]
    /\ log \in [Requests -> {"none", "success", "failure"}]
    /\ locks \subseteq Locked
    /\ req \in [Requests -> ReqState]
    /\ late \in [Requests -> SUBSET Calls]
    /\ taken \subseteq Requests

\* A message goes out twice under one key only where the protocol accepts it:
\* of any two requests that WAHA carried out, one had no operation to go by,
\* or retried one that was pending or unknown and had been for the threshold.
\* Neither a duplicate nor a late call makes a second message of an operation
\* that is in flight, or of one that is settled.  (The code retries `unknown`
\* only; a BFF that retried `pending` as PHASE-6-FINAL section 9 says would
\* satisfy this too.)
ResendIsJustified ==
    \A r, s \in taken : (r # s /\ req[r].for = req[s].for /\ req[r].for \in Keys)
        => \E t \in {r, s} : req[t].by \in {"blind", "retrier"}

\* Every answered request that reached WAHA leaves its audit row, unless it
\* had no operation or the call that records it did not arrive.
AuditSurvives ==
    \A r \in Requests :
        (req[r].ans \in {"done", "failed", "unknown"} /\ req[r].out # "none" /\ req[r].by # "blind"
            /\ "record" \notin late[r])
        => log[r] = ResultOf(req[r].out)

\* What Django has on record is what happened: an operation is settled by one
\* of its requests, whose audit row stands beside it, `sent` and `success`
\* only for a call WAHA carried out, `failed` only for one it refused; and
\* what WAHA did for an answered request is missing from it only if the
\* request had no operation or the call that records it did not arrive.
LedgerIsTrue ==
    /\ \A k \in Keys : ops[k].st \in {"sent", "failed", "unknown"} =>
          LET a == ops[k].audit IN
          /\ a \in Requests /\ req[a].for = k /\ log[a] = ResultOf(req[a].out)
          /\ ops[k].st = "sent" => a \in taken
          /\ ops[k].st = "failed" => a \notin taken
    /\ \A r \in Requests : log[r] = "success" => r \in taken
    /\ AuditSurvives

\* Nobody is told that a message was sent, or an action done, that WAHA did
\* not carry out, nor that it failed when WAHA may have done it.
AnswerIsTrue ==
    \A r \in Requests :
        /\ req[r].ans = "done" => \/ r \in taken
                                  \/ req[r].out = "none" /\ \E s \in taken : req[s].for = req[r].for
        /\ req[r].ans = "failed" => r \notin taken

\* The lock of an action is held exactly while one request is at it, and no
\* two are: it is given back on every way out and forgotten with the process.
LockHasHolder ==
    /\ \A a \in Locked : a \in locks <=> \E r \in Requests : InFlight(r) /\ req[r].for = a
    /\ \A r, s \in Requests :
          (InFlight(r) /\ InFlight(s) /\ req[r].for = req[s].for /\ req[r].for \in Locked) => r = s

\* A sent operation is overwritten only by a request that retried it when it
\* was unknown: neither its creator's late answer nor a duplicate undoes it.
SentStays ==
    [][\A k \in Keys : (ops[k].st = "sent" /\ ops'[k].st # "sent") =>
          \E r \in Requests : req[r].for = k /\ req[r].by = "retrier" /\ log[r] = "none" /\ log'[r] # "none"]_vars

\* Every request ends, whatever Django and WAHA do.
Answered == \A r \in Requests : InFlight(r) ~> At(r, "over")

\* A duplicate of a pending operation that is older than the threshold is
\* sent again: docs/generated/PHASE-6-FINAL-IMPLEMENTATION-CONTRACT.md:310.
StalePendingIsRetried ==
    [][\A r \in Requests : (At(r, "register") /\ ~At(r, "register")' /\ late' = late
                              /\ Row(r).st = "pending" /\ Row(r).stale)
          => req'[r].pc = "send"]_vars
=============================================================================
