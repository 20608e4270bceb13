SPECIFICATION Spec
CONSTANTS
  NumEnforcers = 2
  Untimed = {}
  MaxEpoch = 3
  MaxHalts = 1
  Settings <- AllAtOnce
INVARIANTS
  IInv
  ContainmentSticks
  CertificateIsTrue
  CleanAbortRestores
PROPERTIES
  ActivationIsAuthorized
  ActivationIsLast
  ImplementsAuthority
