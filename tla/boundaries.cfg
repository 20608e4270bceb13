SPECIFICATION Spec
CONSTANTS
  Procs = {p1, p2}
  Endpoints = {e1, e2}
  Others = {}
  Late = TRUE
INVARIANTS CertifiedIsEnforced
PROPERTIES RecoveryReleasesFirst
SYMMETRY Symmetry
