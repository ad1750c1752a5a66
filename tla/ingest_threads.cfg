\* Two webhook threads and a reconciliation job on the same messages.
SPECIFICATION Spec
CONSTANTS
  m1 = m1  m2 = m2  m3 = m3  m4 = m4  n1 = n1  h1 = h1  h2 = h2  j1 = j1
  ann = ann  bob = bob
  NoEvent = NoEvent
  Messages = {m1, m2, m3, m4}
  Notices = {n1}
  Hooks = {h1, h2}
  Jobs = {j1}
  Chats = {ann, bob}
  ChatOf <- MCChatOf
  At <- MCAt
  Inbound = {m1, m3, m4}
  Broken = {m3}
SYMMETRY Interchangeable
INVARIANTS
  TypeOK
  EngagedOnce
PROPERTIES
  InboxSpec
