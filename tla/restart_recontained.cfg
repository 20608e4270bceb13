SPECIFICATION Spec
CONSTANTS
  NumEnforcers = 1
  Untimed = {}
  MaxEpoch = 3
  MaxHalts = 0
  Settings <- OnlyRecontained
INVARIANTS
  RestartAdmits
