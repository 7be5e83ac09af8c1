CONSTANTS
  m1 = m1
  m2 = m2
  m3 = m3
  chatA = chatA
  chatB = chatB
  alice = alice
  None = None
  Messages = {m1, m2, m3}
  Scopes = {chatA}
  Keys = {alice}
  Scope <- OneChat
  Key <- OneKey
  Interrupting = {}
  NewSessions = {m3}
  MaxInFlight = 2
  InboxCapacity = 2
  MaxPanics = 1
  Endings = {"ok", "overflow", "vision", "error", "timeout"}
  MaxHistory = 3
  KeepOnCompact = 2
SPECIFICATION Spec
CHECK_DEADLOCK FALSE
INVARIANTS
  TypeOK
  PermitsAccounted
  QuestionsAreClosed
  FinishedIsTidy
