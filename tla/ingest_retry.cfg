\* A thread dies between storing a message and answering it.
SPECIFICATION Spec
CONSTANTS
  m1 = m1  m2 = m2  m3 = m3  m4 = m4  n1 = n1  h1 = h1  h2 = h2  j1 = j1
  ann = ann  bob = bob
  NoEvent = NoEvent
  Messages = {m1, m2, m3, m4}
  Notices = {n1}
  Hooks = {h1}
  Jobs = {j1}
  Chats = {ann, bob}
  ChatOf <- MCChatOf
  At <- MCAt
  Inbound = {m1, m3, m4}
  Broken = {m3}
INVARIANT
  ProcessedIsEngaged
