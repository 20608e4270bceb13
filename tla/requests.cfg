SPECIFICATION FairSpec
CONSTANTS
  Operations <- MCOperations
  Denied = {}
  OperationRisk <- MCRisk
  MaxRisk = 80
  Rules <- MCRules
  Connections = {k1, k2, k3}
  Gateways = {g1}
  NoOne = NoOne
  HistoryLimit = 1
  Slots = 2
  Risks = {0, 90}
  MaxRequests = 3
INVARIANTS NoForbiddenChain MatchesIsExact HaltIsFinal SlotsComeBack
PROPERTIES CallsEnd
CHECK_DEADLOCK FALSE
