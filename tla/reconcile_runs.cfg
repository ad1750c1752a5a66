\* A periodic and a targeted run of one session, webhooks, faults and recovery.
SPECIFICATION FairSpec
CONSTANTS
  ann = ann  bob = bob  beat = beat  post = post
  NoChat = NoChat  NoRun = NoRun
  Chats = {ann}
  Broken <- MCBroken
  Runs = {beat, post}
  Full = {beat}
  Celery = {beat}
  Limit = 1
  MaxPages = 2
  MaxAttempts = 2
  MaxRetries = 1
  MaxMessages = 2
  MaxFaults = 1
INVARIANTS
  TypeOK
PROPERTIES
  Settles
  RecentIsStored
  RecoverySparesTheLiving
  ReadsItsWindow
