\* Two campaigns of two creators, two request threads, a budget that one campaign
\* uses up, nobody killed: the workflow implements BlastContract, and approved
\* campaigns are eventually closed.
SPECIFICATION FairSpec
CONSTANTS
  c1 = c1  c2 = c2  r1 = r1  r2 = r2  ann = ann  bob = bob  w1 = w1  w2 = w2
  None = None
  Campaigns = {c1, c2}
  Recipients = {r1, r2}
  CampaignOf <- TwoCampaignOf
  Users = {ann, bob}
  CreatorOf <- TwoCreatorOf
  Superusers = {bob}
  Workers = {w1}
  Requests = {q1, q2}
  Budget = 1
  MaxRedeliveries = 0
  MaxCrashes = 0
PROPERTIES
  ContractSpec
  ApprovedFinishes
CHECK_DEADLOCK FALSE
