SPECIFICATION FairSpec
CONSTANTS
  None = None
  d1 = d1
  d2 = d2
  k1 = k1
  k2 = k2
  Docs = {d1}
  MaxTx = 2
  MaxOps <- TwoThenOne
  MaxReads = 1
  Loops = {k1}
  Lapsing = {1, 2}
  Overlapping = {1}
INVARIANTS
  TypeOK
  LockEntryIsHolder
  CommittedAsValidated
  ApprovedLogSettled
  RolledBackIsClean
PROPERTIES
  EndedStaysEnded
  LocksAreReleased
