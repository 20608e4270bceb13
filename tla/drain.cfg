SPECIFICATION FairSpec
CONSTANTS
  Workers = {w1, w2}
  Credentials = {c1}
  Connections = {k1}
  None = None
  Bound = FALSE
  RevocationFails = TRUE
  RegisterInside = TRUE
  ActInside = TRUE
  DurableEpochs = {}
  MaxFences = 1
  MaxRecovered = 0
  MaxRevoked = 0
INVARIANTS RevokedIsDead OnlyNestedCallsDeadlock
PROPERTY ContainReturns
CHECK_DEADLOCK FALSE
