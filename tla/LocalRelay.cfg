SPECIFICATION FairSpec
CONSTANTS
  f1 = f1
  f2 = f2
  c1 = c1
  Followers = {f1, f2}
  Calls = {c1}
  CallerOf <- MCCallerOf
  MaxClients = 2
  MaxDown = 2
INVARIANTS
  TypeOK
  FollowersSeeOwner
PROPERTIES
  MissedStatusIsRepaired
  RelayedCallsEnd
