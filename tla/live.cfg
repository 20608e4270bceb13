SPECIFICATION FairSpec
CONSTANTS
  NumEnforcers = 2
  Untimed = {2}
  MaxEpoch = 3
  MaxHalts = 1
  Settings <- ForwardClock
INVARIANTS
  RefusedIncidentIsKnown
  ContainedIsRecoverable
  RestartAdmitsContained
PROPERTIES
  OperationsReturn
  FulfilsAuthority
