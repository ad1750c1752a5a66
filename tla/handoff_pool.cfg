\* Several web processes: what survives stale reads and blind writes.
SPECIFICATION FairSpec
CONSTANTS
  m1 = m1  m2 = m2  m3 = m3  q1 = q1  q2 = q2  q3 = q3
  north = north  south = south  opM = opM  opN = opN  opS = opS  root = root
  NoOffice = NoOffice  Nobody = Nobody  NoSession = NoSession
  Offices = {north, south}
  Users = {opN, root}
  Home <- MCHome
  Operators = {opN}
  Admins = {}
  Globals = {root}
  Messages = {m1, m2, m3}
  Requests = {q1}
  OneWorker = FALSE
INVARIANTS
  TypeOK
  SessionFollowsChat
  OneLiveSession
PROPERTIES
  NavigationIsPrivate
  HandoffEnds
CHECK_DEADLOCK FALSE
