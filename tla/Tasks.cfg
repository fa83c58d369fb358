SPECIFICATION FairSpec
CONSTANTS
  r1 = r1
  r2 = r2
  w1 = w1
  Tasks = {r1, r2}
  Workers = {w1}
  MaxConcurrent = 1
  MaxQueued = 1
  Quota = 2
  TaskTtl = 2
  LeaseTtl = 1
  MaxNow = 2
  MaxTokens = 2
  MaxRestarts = 1
INVARIANTS
  TypeOK
  RunsOnce
PROPERTIES
  LatestLeaseCompletes
  CancelWins
  ImplementsTaskLifecycle
  AcceptedTasksEnd
CHECK_DEADLOCK FALSE
