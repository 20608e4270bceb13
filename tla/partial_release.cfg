SPECIFICATION Spec
CONSTANTS
  NumEnforcers = 2
  Untimed = {}
  MaxEpoch = 3
  MaxHalts = 0
  Settings <- Undisturbed
PROPERTIES
  AbortedReleaseRestores
ACTION_CONSTRAINTS
  NoReconfiguration
