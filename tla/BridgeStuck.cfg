SPECIFICATION FairSpec
CHECK_DEADLOCK FALSE
CONSTANTS
  fresh1 = fresh1
  fresh2 = fresh2
  stale = stale
  write = write
  None = None
  Conns = {fresh1, fresh2, stale}
  Version <- Reports
  Calls = {}
  Writes = {}
  Pairing = FALSE
  Attempts = 2
  Ports = 2
  LockErrors = TRUE
  MaxTimers = 1
PROPERTIES
  NeverStopsRetrying
