SPECIFICATION Spec
CONSTANTS
  PORT_SCAN_COUNT = 3
  Apis = {"register", "raw"}
INVARIANTS
  NeverIdle
CHECK_DEADLOCK FALSE
