\* Requests under one idempotency key and lifecycle actions, with calls that come late and restarts.
SPECIFICATION FairSpec
CONSTANTS
  r1 = r1  r2 = r2  r3 = r3  r4 = r4
  key = key  start = start  qr = qr
  NoTarget = NoTarget  NoRequest = NoRequest
  Requests = {r1, r2, r3}
  Keys = {key}
  Actions = {start, qr}
  Locked = {start}
INVARIANTS
  TypeOK
  ResendIsJustified
  LedgerIsTrue
  AnswerIsTrue
  LockHasHolder
PROPERTIES
  SentStays
  Answered
CHECK_DEADLOCK FALSE
