SPECIFICATION Spec
CONSTANTS
  Daemon = {d1, d2}
  Cli = {c1}
  Profiles = {work, default}
  Default = default
  Override = None
  Attempts = 2
  MaxIssued = 4
  MaxOps = 3
  MaxFaults = 1
  None = None
INVARIANTS TypeOK RefreshedOnce LoginsStand
PROPERTIES WritesAreSerial OperationsEnd
CHECK_DEADLOCK FALSE
