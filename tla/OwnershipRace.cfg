SPECIFICATION Spec
CHECK_DEADLOCK FALSE
CONSTANTS
  Procs = {p1, p2, p3}
  None = None
  MaxTries = 2
  MaxCrashes = 1
SYMMETRY Symmetry
INVARIANTS
  OneOwner
