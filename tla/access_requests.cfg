\* Two administration requests that may overlap or be killed, with logins and expiring tokens.
SPECIFICATION MCSpec
CONSTANTS
  root = root  ann = ann  ben = ben
  east = east  west = west  r1 = r1  r2 = r2  adm = adm  snd = snd  q1 = q1  q2 = q2
  Everywhere = Everywhere  NoOffice = NoOffice  NoRole = NoRole  Unused = Unused  Deleted = Deleted
  Root = root
  Users = {root, ann, ben}
  Offices = {east, west}
  Roles = {r1, r2}
  Scopes = {adm, snd}
  AdminScope = adm
  Shapes <- MCShapes
  Bodies <- MCBodies
  Requests = {q1, q2}
  Lifetime = 2
CONSTRAINT Bound
SYMMETRY MCSymmetry
INVARIANTS
  TypeOK
  ScopesFollowRole
  AuthorityIsBounded
PROPERTIES
  DeactivationHolds
  KeepsToOffice
