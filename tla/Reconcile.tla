----------------------------- MODULE Reconcile -----------------------------
(***************************************************************************)
(* Reconciliation of one WAHA session (backend/apps/sync): runs that page  *)
(* through WAHA's history, newest first, store what is missing and share   *)
(* one SyncCheckpoint row.                                                 *)
(*                                                                         *)
(* A run is a Celery task (the periodic one, or the targeted one after a   *)
(* send) or a call in a request thread or a shell.  Runs overlap.  Each    *)
(* statement and each call to WAHA is a step; a page's messages are stored *)
(* one by one.  A run's process may be killed at any step, and an          *)
(* exception may leave it; Celery tries a task that raised again.          *)
(*                                                                         *)
(* WAHA's history of a chat is the sequence of its messages' timestamps,   *)
(* oldest first; a message is named by its chat and its place there.  It   *)
(* only grows.  Webhooks (module Ingest) store messages too.  The text of  *)
(* errors, the time of the last run and the counters that decide nothing   *)
(* are left out.                                                           *)
(***************************************************************************)
EXTENDS Integers, Sequences

CONSTANTS Chats, NoChat,
          Broken,      \* messages parse_message refuses, as <<chat, place>>
          Runs, NoRun, \* slots of runs
          Full,        \* the slots that reconcile all chats; the others target one
          Celery,      \* the slots that are Celery tasks
          Limit,       \* messages a page holds
          MaxPages,    \* pages a run reads of one chat
          MaxAttempts, \* runs of one targeted call
          MaxRetries,  \* further tries of a Celery task that raised
          MaxMessages, \* bound on the messages of a chat
          MaxFaults    \* bound on kills, exceptions and WAHA's refusals

ASSUME ReconcileAssumption ==
    /\ NoChat \notin Chats /\ NoRun \notin Runs
    /\ Full \subseteq Runs /\ Celery \subseteq Runs
    /\ {Limit, MaxPages, MaxAttempts} \subseteq Nat \ {0}
    /\ {MaxRetries, MaxMessages, MaxFaults} \subseteq Nat

VARIABLES history,  \* WAHA's messages of every chat: their timestamps
          now,      \* the latest of them
          stored,   \* Message rows
          known,    \* Chat rows
          cp,       \* SyncCheckpoint: status, checkpoint_value; by (history): who last wrote `running`
          run,      \* every slot's run: its position and local variables
          recovery, \* what a recovery request has read: nothing, the row as it is, or as it was
          faults

waha == <<history, now>>
rows == <<stored, known>>
vars == <<waha, rows, cp, run, recovery, faults>>

-----------------------------------------------------------------------------
(* Messages and pages                                                      *)

Message == Chats \X (1..MaxMessages)
Exists(m) == m \in Message /\ m[2] <= Len(history[m[1]])

\* Page number p of a chat (offset p * Limit): the places from Top, the
\* newest, down to Bottom.
Top(c, p) == Len(history[c]) - p * Limit
Bottom(c, p) == IF Top(c, p) > Limit THEN Top(c, p) - Limit + 1 ELSE 1

-----------------------------------------------------------------------------
(* Runs                                                                    *)

Positions == {"idle", "begin", "announce", "discover", "list", "next", "fetch", "page", "killed", "escaped"}

\* target: chat_ids.  mark: checkpoint.checkpoint_value as the run read it,
\* which it stops at and writes back.  todo, chat, number: chats to read, the
\* one being read, its page.  place, bottom, short: the message to store next,
\* the page's oldest, whether it had fewer than Limit.  inserted, latest,
\* error: the result.  began (history): the chat's length at its first page.
RunState == [pc : Positions, target : Chats \cup {NoChat}, retries : Nat, attempt : Nat,
             mark : Nat, todo : SUBSET Chats, chat : Chats \cup {NoChat}, number : Nat,
             place : Nat, bottom : Nat, short : BOOLEAN,
             inserted : BOOLEAN, latest : Nat, error : BOOLEAN, began : Nat]

\* A call of reconcile_session that has read nothing yet.
Call(target, retries, attempt) ==
    [pc |-> "begin", target |-> target, retries |-> retries, attempt |-> attempt,
     mark |-> 0, todo |-> {}, chat |-> NoChat, number |-> 0,
     place |-> 0, bottom |-> 0, short |-> FALSE,
     inserted |-> FALSE, latest |-> 0, error |-> FALSE, began |-> 0]
Ended(pc) == [Call(NoChat, 0, 0) EXCEPT !.pc = pc]

Over(r) == run[r].pc \in {"idle", "killed", "escaped"}
\* Between the write of `running` and the end.
Working(r) == run[r].pc \in {"discover", "list", "next", "fetch", "page"}
IsFinal(r) == r \in Celery => run[r].retries = MaxRetries

Become(r, state) == run' = [run EXCEPT ![r] = state]
\* The next chat, the present one being done with.
NextChat(r) == [run[r] EXCEPT !.pc = "next", !.chat = NoChat, !.number = 0, !.place = 0,
                              !.bottom = 0, !.short = FALSE, !.began = 0]

\* checkpoint.save: updated_at changes even if nothing else does.
Save(row) == /\ cp' = row
             /\ recovery' = IF recovery = "fresh" THEN "stale" ELSE recovery

Init ==
    /\ history = [c \in Chats |-> <<>>] /\ now = 1
    /\ stored = {} /\ known = {}
    /\ cp = [status |-> "idle", mark |-> 0, by |-> NoRun]
    /\ run = [r \in Runs |-> Ended("idle")]
    /\ recovery = "none" /\ faults = 0

-----------------------------------------------------------------------------
(* The world around                                                        *)

\* A message is sent or received on WhatsApp, in a second that may not be over.
Arrive(c) ==
    /\ Len(history[c]) < MaxMessages
    /\ now' \in {now, now + 1}
    /\ history' = [history EXCEPT ![c] = Append(@, now')]
    /\ UNCHANGED <<rows, cp, run, recovery, faults>>

\* Its webhook is delivered and processed.
Live(m) ==
    /\ Exists(m) /\ m \notin stored \cup Broken
    /\ stored' = stored \cup {m}
    /\ known' = known \cup {m[1]}
    /\ UNCHANGED <<waha, cp, run, recovery, faults>>

\* Beat, the command, or the request after a send.
Dispatch(r) ==
    /\ Over(r)
    /\ \E c \in IF r \in Full THEN {NoChat} ELSE Chats : Become(r, Call(c, 0, 1))
    /\ UNCHANGED <<waha, rows, cp, recovery, faults>>

-----------------------------------------------------------------------------
(* reconcile_session                                                       *)

Begin(r) ==
    /\ run[r].pc = "begin"
    /\ Become(r, [run[r] EXCEPT !.pc = "announce", !.mark = cp.mark])
    /\ UNCHANGED <<waha, rows, cp, recovery, faults>>

Announce(r) ==
    /\ run[r].pc = "announce"
    /\ Save([cp EXCEPT !.status = "running", !.by = r])
    /\ Become(r, [run[r] EXCEPT !.pc = IF run[r].target = NoChat THEN "discover" ELSE "list"])
    /\ UNCHANGED <<waha, rows, faults>>

\* Mutant: the chats that WAHA lists get no row.
DiscoverNothing(r) ==
    /\ run[r].pc = "discover"
    /\ Become(r, [run[r] EXCEPT !.pc = "list"])
    /\ UNCHANGED <<waha, rows, cp, recovery, faults>>

\* _discover_chats: WAHA lists the chats that have messages.
Discover(r) ==
    /\ run[r].pc = "discover"
    /\ known' = known \cup {c \in Chats : history[c] # <<>>}
    /\ Become(r, [run[r] EXCEPT !.pc = "list"])
    /\ UNCHANGED <<waha, stored, cp, recovery, faults>>

\* WahaClientError is reported and no more.
DiscoverFails(r) ==
    /\ run[r].pc = "discover" /\ faults < MaxFaults
    /\ faults' = faults + 1
    /\ Become(r, [run[r] EXCEPT !.pc = "list"])
    /\ UNCHANGED <<waha, rows, cp, recovery>>

List(r) ==
    /\ run[r].pc = "list"
    /\ Become(r, [run[r] EXCEPT !.pc = "next",
                                !.todo = IF run[r].target = NoChat THEN known ELSE {run[r].target} \cap known])
    /\ UNCHANGED <<waha, rows, cp, recovery, faults>>

Pick(r, c) ==
    /\ run[r].pc = "next" /\ c \in run[r].todo
    /\ Become(r, [run[r] EXCEPT !.pc = "fetch", !.todo = @ \ {c}, !.chat = c])
    /\ UNCHANGED <<waha, rows, cp, recovery, faults>>

\* fetch_chat_messages; an empty page ends the chat.
Fetch(r) ==
    LET c == run[r].chat  p == run[r].number IN
    /\ run[r].pc = "fetch"
    /\ Become(r, IF Top(c, p) < 1 THEN NextChat(r)
                 ELSE [run[r] EXCEPT !.pc = "page", !.place = Top(c, p), !.bottom = Bottom(c, p),
                                     !.short = Top(c, p) < Limit,
                                     !.began = IF p = 0 THEN Len(history[c]) ELSE @])
    /\ UNCHANGED <<waha, rows, cp, recovery, faults>>

\* WahaClientError: the chat is given up and the run has an error.
FetchFails(r) ==
    /\ run[r].pc = "fetch" /\ faults < MaxFaults
    /\ faults' = faults + 1
    /\ Become(r, [NextChat(r) EXCEPT !.error = TRUE])
    /\ UNCHANGED <<waha, rows, cp, recovery>>

\* The next message of the page.
ThisOne(r) == <<run[r].chat, run[r].place>>
OnPage(r) == run[r].pc = "page" /\ run[r].place >= run[r].bottom
Passed(r) == [run[r] EXCEPT !.place = @ - 1]

ParseFails(r) ==
    /\ OnPage(r) /\ ThisOne(r) \in Broken
    /\ Become(r, [Passed(r) EXCEPT !.error = TRUE])
    /\ UNCHANGED <<waha, rows, cp, recovery, faults>>

Skip(r) ==
    /\ OnPage(r) /\ ThisOne(r) \in stored
    /\ Become(r, Passed(r))
    /\ UNCHANGED <<waha, rows, cp, recovery, faults>>

Insert(r) ==
    LET t == history[run[r].chat][run[r].place] IN
    /\ OnPage(r) /\ ThisOne(r) \notin stored \cup Broken
    /\ stored' = stored \cup {ThisOne(r)}
    /\ Become(r, [Passed(r) EXCEPT !.inserted = TRUE, !.latest = IF t > @ THEN t ELSE @])
    /\ UNCHANGED <<waha, known, cp, recovery, faults>>

\* The page is stored; are older ones wanted?
PageDone(r) == run[r].pc = "page" /\ run[r].place < run[r].bottom
CaughtUp(r) == run[r].mark # 0 /\ history[run[r].chat][run[r].bottom] <= run[r].mark
\* Mutant: a page too few.
LastPageEarly(r) == run[r].short \/ CaughtUp(r) \/ run[r].number + 2 >= MaxPages
LastPage(r) == run[r].short \/ CaughtUp(r) \/ run[r].number + 1 = MaxPages

TurnPage(r) ==
    /\ PageDone(r) /\ ~LastPage(r)
    /\ Become(r, [run[r] EXCEPT !.pc = "fetch", !.number = @ + 1])
    /\ UNCHANGED <<waha, rows, cp, recovery, faults>>

LeaveChat(r) ==
    /\ PageDone(r) /\ LastPage(r)
    /\ Become(r, NextChat(r))
    /\ UNCHANGED <<waha, rows, cp, recovery, faults>>

\* Mutant: a run with errors says nothing.
OutcomeIfOk(r) ==
    [cp EXCEPT !.status = IF run[r].error THEN cp.status ELSE "ok",
               !.mark = IF run[r].error \/ run[r].latest = 0 THEN run[r].mark ELSE run[r].latest]

\* The terminal write.  The row's watermark becomes the latest timestamp the
\* run inserted, or what it was when the run began.
Outcome(r) ==
    [cp EXCEPT !.status = IF run[r].error THEN "error" ELSE "ok",
               !.mark = IF run[r].error \/ run[r].latest = 0 THEN run[r].mark ELSE run[r].latest]

\* run_targeted_reconciliation_with_retry calls again if nothing was inserted.
Finish(r) ==
    LET s == run[r] IN
    /\ s.pc = "next" /\ s.todo = {}
    /\ Save(Outcome(r))
    /\ Become(r, IF s.target # NoChat /\ ~s.inserted /\ s.attempt < MaxAttempts
                 THEN Call(s.target, s.retries, s.attempt + 1) ELSE Ended("idle"))
    /\ UNCHANGED <<waha, rows, faults>>

-----------------------------------------------------------------------------
(* Failures                                                                *)

\* autoretry_for, while tries remain
Retry(r) == Call(run[r].target, run[r].retries + 1, 1)

\* An exception within the try block: a last try records it.  (If that write
\* raises too, the run ends as if killed.)
Raise(r) ==
    /\ run[r].pc \in {"list", "next", "fetch", "page"}
    /\ run[r].pc = "next" => run[r].todo # {}
    /\ faults < MaxFaults /\ faults' = faults + 1
    /\ IF IsFinal(r)
       THEN Save([cp EXCEPT !.status = "error"]) /\ Become(r, Ended("idle"))
       ELSE Become(r, Retry(r)) /\ UNCHANGED <<cp, recovery>>
    /\ UNCHANGED <<waha, rows>>

\* An exception before the try block or after it.
Escape(r) ==
    /\ run[r].pc \in {"begin", "announce", "discover", "next"}
    /\ run[r].pc = "next" => run[r].todo = {}
    /\ faults < MaxFaults /\ faults' = faults + 1
    /\ Become(r, IF IsFinal(r) THEN Ended("escaped") ELSE Retry(r))
    /\ UNCHANGED <<waha, rows, cp, recovery>>

Kill(r) ==
    /\ ~Over(r)
    /\ faults < MaxFaults /\ faults' = faults + 1
    /\ Become(r, Ended("killed"))
    /\ UNCHANGED <<waha, rows, cp, recovery>>

-----------------------------------------------------------------------------
(* The recovery endpoint                                                   *)

\* _is_possibly_stuck: the row has not been written for longer than Celery
\* lets a task run.
Stuck == cp.status = "running" /\ (cp.by \in Celery => ~Working(cp.by))

RecoverRead ==
    /\ recovery = "none" /\ Stuck
    /\ recovery' = "fresh"
    /\ UNCHANGED <<waha, rows, cp, run, faults>>

\* Mutant: a plain save of what was read.
RecoverBlindly ==
    /\ recovery # "none"
    /\ cp' = [cp EXCEPT !.status = "error"]
    /\ recovery' = "none"
    /\ UNCHANGED <<waha, rows, run, faults>>

\* Mutant: the word that the status page uses, not one of STATUS_CHOICES.
RecoverAsFailed ==
    /\ recovery = "fresh"
    /\ cp' = [cp EXCEPT !.status = "failed"]
    /\ recovery' = "none"
    /\ UNCHANGED <<waha, rows, run, faults>>

\* The update requires the status and updated_at that were read.
Recover ==
    /\ recovery = "fresh"
    /\ cp' = [cp EXCEPT !.status = "error"]
    /\ recovery' = "none"
    /\ UNCHANGED <<waha, rows, run, faults>>

RecoveryConflict ==
    /\ recovery = "stale"
    /\ recovery' = "none"
    /\ UNCHANGED <<waha, rows, cp, run, faults>>

-----------------------------------------------------------------------------
Work(r) ==
    \/ Begin(r) \/ Announce(r) \/ Discover(r) \/ List(r) \/ \E c \in Chats : Pick(r, c)
    \/ Fetch(r) \/ ParseFails(r) \/ Skip(r) \/ Insert(r) \/ TurnPage(r) \/ LeaveChat(r) \/ Finish(r)
Fault(r) == DiscoverFails(r) \/ FetchFails(r) \/ Raise(r) \/ Escape(r) \/ Kill(r)

Next ==
    \/ \E c \in Chats : Arrive(c)
    \/ \E m \in Message : Live(m)
    \/ \E r \in Runs : Dispatch(r) \/ Work(r) \/ Fault(r)
    \/ RecoverRead \/ Recover \/ RecoveryConflict

Spec == Init /\ [][Next]_vars

\* Beat starts full runs again and again, and a worker that has one goes on.
FairSpec == Spec /\ \A r \in Full : WF_vars(Dispatch(r)) /\ WF_vars(Work(r))

-----------------------------------------------------------------------------
(* Properties                                                              *)

TypeOK ==
    /\ history \in [Chats -> Seq(Nat)] /\ now \in Nat
    /\ stored \subseteq Message /\ known \subseteq Chats
    /\ cp \in [status : {"idle", "running", "ok", "error"}, mark : Nat, by : Runs \cup {NoRun}]
    /\ run \in [Runs -> RunState]
    /\ recovery \in {"none", "fresh", "stale"}
    /\ faults \in Nat

\* A checkpoint that says `running` was last claimed by a run that is under way, waits to be
\* tried again, was killed, or whose last exception nothing recorded.  A run
\* that returned or failed within its try block never leaves it behind, nor
\* does one run's end hide another's.
RunningHasOwner == cp.status = "running" => cp.by \in Runs /\ run[cp.by].pc # "idle"

\* The watermark is the timestamp of a stored message.
MarkIsStored == cp.mark # 0 => \E m \in stored : Exists(m) /\ history[m[1]][m[2]] = cp.mark

\* A recovery fails no Celery run that is at work, however its request and the
\* run interleave.
RecoverySparesTheLiving ==
    [][(recovery # "none" /\ recovery' = "none" /\ cp' # cp)
        => cp.status = "running" /\ (cp.by \in Celery => ~Working(cp.by))]_vars

\* A run leaves a chat it could read only when it has stored every message
\* that was there when it came, is later than the watermark and is still
\* among the newest MaxPages * Limit: messages that arrive between two pages
\* push older ones back but not past it.
InWindow(r, i) == /\ history[run[r].chat][i] > run[r].mark
                  /\ Len(history[run[r].chat]) - i < MaxPages * Limit
ReadsItsWindow ==
    [][\A r \in Runs :
        (run[r].chat # NoChat /\ run'[r].chat = NoChat /\ run'[r].pc = "next" /\ faults' = faults)
        => \A i \in 1..run[r].began :
               InWindow(r, i) => <<run[r].chat, i>> \in stored \cup Broken]_vars

\* The newest messages of a chat are stored in the end, webhooks or not, as
\* long as they stay among the newest.
Recent(m) == Exists(m) /\ Len(history[m[1]]) - m[2] < Limit
RecentIsStored == \A m \in Message \ Broken : Recent(m) ~> (m \in stored \/ ~Recent(m))

\* A checkpoint does not stay `running`: the next periodic run ends it.
Settles == (cp.status = "running") ~> (cp.status # "running")
=============================================================================
