SPECIFICATION FairSpec
CONSTANTS
  w1 = w1
  w2 = w2
  r1 = r1
  Calls = {w1, w2, r1}
  Writes = {w1, w2}
  Input <- MCInput
  MaxSessions = 2
  MaxApprovals = 1
PROPERTY
  HealthyLinkIsKept
CHECK_DEADLOCK FALSE
