CONSTANTS
  m1 = m1
  m2 = m2
  m3 = m3
  chatA = chatA
  chatB = chatB
  alice = alice
  None = None
  Messages = {m1, m2, m3}
  Scopes = {chatA}
  Keys = {alice}
  Scope <- OneChat
  Key <- OneKey
  Interrupting = {m1, m2, m3}
  NewSessions = {}
  MaxInFlight = 3
  InboxCapacity = 2
  MaxPanics = 0
  Endings = {"ok"}
  MaxHistory = 6
  KeepOnCompact = 2
SPECIFICATION Spec
CHECK_DEADLOCK FALSE
INVARIANTS
  NewerInterruptsOlder
