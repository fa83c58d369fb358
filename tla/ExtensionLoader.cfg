SPECIFICATION FairSpec
CONSTANTS
  PORT_SCAN_COUNT = 3
  Apis = {"register", "raw"}
INVARIANTS
  TypeOK
  OffIsOff
PROPERTIES
  Reconnects
