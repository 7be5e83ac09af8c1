CONSTANTS
  m1 = m1
  m2 = m2
  m3 = m3
  chatA = chatA
  chatB = chatB
  alice = alice
  None = None
  Messages = {m1, m2, m3}
  Scopes = {chatA, chatB}
  Keys = {alice}
  Scope <- TwoChats
  Key <- OneKey
  Interrupting = {m1, m2, m3}
  NewSessions = {m3}
  MaxInFlight = 2
  InboxCapacity = 1
  MaxPanics = 1
  Endings = {"ok"}
  MaxHistory = 1
  KeepOnCompact = 1
SPECIFICATION FairSpec
CHECK_DEADLOCK FALSE
PROPERTIES
  WorkedOffUnlessWedged
  LoopReturnsUnlessWedged
