\* A citizen's messages while two requests edit the menus and Offices open and close.
SPECIFICATION MCSpec
CONSTANTS
  m1 = m1  m2 = m2  m3 = m3  m4 = m4  i1 = i1  i2 = i2  i3 = i3
  o1 = o1  o2 = o2  w1 = w1  w2 = w2  wm = wm  wl = wl  q1 = q1  q2 = q2
  Unused = Unused  Deleted = Deleted  NoMenu = NoMenu  NoSession = NoSession
  Everywhere = Everywhere  NoRow = NoRow  Turn = Turn
  Menus = {m1, m2, m3, m4}
  Items = {i1, i2, i3}
  Triggers = {1, 2}
  Configs = {1, 2}
  Offices = {o1, o2}
  Words = {w1, w2, wm, wl}
  Requests = {q1, q2}
  MaxMessages = 3
  MaxRows = 3
  PageSize = 1
  Rank <- MCRank
  Number <- MCNumber
  Pk <- MCPk
  Name <- MCName
  Setups <- MCSetups
  NewMenus <- MCNewMenus
  NewItems <- MCNewItems
  NewTriggers <- MCNewTriggers
  MenuBodies <- MCMenuBodies
  ItemBodies <- MCItemBodies
  TriggerBodies <- MCTriggerBodies
  ConfigBodies <- MCConfigBodies
SYMMETRY MCSymmetry
INVARIANTS
  TypeOK
  MenuItemsLead
  
  PagesHold
PROPERTIES
  TapFindsItsItem
CHECK_DEADLOCK FALSE
