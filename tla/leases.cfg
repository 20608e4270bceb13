SPECIFICATION Spec
CONSTANTS
  Workers = {w1, w2}
  Credentials = {c1}
  Connections = {k1}
  None = None
  Bound = TRUE
  RevocationFails = TRUE
  RegisterInside = TRUE
  ActInside = FALSE
  DurableEpochs = {0, 1, 2}
  MaxFences = 2
  MaxRecovered = 4
  MaxRevoked = 2
INVARIANTS IInv InFlightIsAdmitted SweptStaysEmpty
  OnlyNestedCallsDeadlock FenceStalesCredentials
PROPERTIES ImplementsFence
CHECK_DEADLOCK FALSE
SYMMETRY WorkerSymmetry
