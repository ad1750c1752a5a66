\* One campaign, two recipients: dispatch under redelivery, a kill, and a
\* manual resolution.
SPECIFICATION Spec
CONSTANTS
  c1 = c1  c2 = c2  r1 = r1  r2 = r2  ann = ann  bob = bob  w1 = w1  w2 = w2
  None = None
  Campaigns = {c1}
  Recipients = {r1, r2}
  CampaignOf <- OneCampaignOf
  Users = {ann, bob}
  CreatorOf <- OneCreatorOf
  Superusers = {}
  Workers = {w1, w2}
  Requests = {q1}
  Budget = 2
  MaxRedeliveries = 1
  MaxCrashes = 1
SYMMETRY WorkersAndRecipients
INVARIANTS
  TypeOK
  AtMostOneSend
  FinishedIsSettled
  LedgerAgrees
  NoLostFinalization
  NoLostWork
CHECK_DEADLOCK FALSE
