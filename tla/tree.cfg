SPECIFICATION FairSpec
CONSTANTS
  Agents = {a1, a2}
  Threads = {t1, t2}
  Capabilities = {c1}
  NoAgent = NoAgent
  NoThread = NoThread
INVARIANTS NoOrphan
PROPERTIES ContainReturns
CHECK_DEADLOCK FALSE
