SPECIFICATION Spec
CONSTANTS
  Programs = {p1, p2, p3}
  Links = {l1, l2, l3, l4}
  None = None
  Orphans = TRUE
INVARIANTS ContainedIsInForce ReleasedIsOpen
PROPERTIES ContainKeepsThePin ImplementsContract
SYMMETRY Symmetry
