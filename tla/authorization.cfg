SPECIFICATION Spec
CONSTANTS
  Handlers = {h1, h2}
  Pids = {p1, p2}
  Reviews = {r1}
  None = None
  MaxTokens = 2
  MaxEpoch = 1
  MaxRuntimes = 2
INVARIANTS OneVerdict
PROPERTIES AllowIsCurrent SpentTokensStayDead CleanUpIsOwn
SYMMETRY Symmetry
