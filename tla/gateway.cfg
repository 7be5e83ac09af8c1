SPECIFICATION Spec
CONSTANTS
  Requests = {r1, r2, r3}
  Clients = {a, b}
  Keys = {k, l}
  Limit = 1
  Window = 2
  MaxClients = 1
  Ttl = 2
  MaxKeys = 1
  MaxAttempts = 1
  Lockout = 1
  Models = 2
  Providers = 2
  MaxRetries = 1
  Horizon = 2
  MaxCodes = 1
  MaxRestarts = 1
  Mixes <- MCMixes
  Paired = paired
  None = None
SYMMETRY Symmetry
INVARIANTS TypeOK RateBound ProcessedOnce CodeOnce TokensSurvive NoProviderSkipped
CHECK_DEADLOCK FALSE
