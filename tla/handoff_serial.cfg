\* The shipped image: one gunicorn worker, so requests take turns; the expiry
\* task, deaths and deleted menus still come between.
SPECIFICATION Spec
CONSTANTS
  m1 = m1  m2 = m2  m3 = m3  q1 = q1  q2 = q2  q3 = q3
  north = north  south = south  opM = opM  opN = opN  opS = opS  root = root
  NoOffice = NoOffice  Nobody = Nobody  NoSession = NoSession
  Offices = {north, south}
  Users = {opN, opS, root}
  Home <- MCHome
  Operators = {opN}
  Admins = {opS}
  Globals = {root}
  Messages = {m1, m2, m3}
  Requests = {q1, q2, q3}
  OneWorker = TRUE
SYMMETRY Interchangeable
INVARIANTS
  OwnerBelongs
PROPERTIES
  ConversationSpec
CHECK_DEADLOCK FALSE
