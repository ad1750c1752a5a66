\* A duplicate of an operation that a restarted BFF left pending.
SPECIFICATION Spec
CONSTANTS
  r1 = r1  r2 = r2  r3 = r3  r4 = r4
  key = key  start = start  qr = qr
  NoTarget = NoTarget  NoRequest = NoRequest
  Requests = {r1, r2}
  Keys = {key}
  Actions = {start}
  Locked = {start}
PROPERTY StalePendingIsRetried
CHECK_DEADLOCK FALSE
