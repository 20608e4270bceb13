SPECIFICATION Spec
CONSTANTS
  Callers = {c1, c2}
  NoCaller = NoCaller
  MaxCalls = 3
  MaxChanges = 1
INVARIANTS VerifiedIsWritten ReturnedIsEvidenced
CHECK_DEADLOCK FALSE
SYMMETRY Symmetry
