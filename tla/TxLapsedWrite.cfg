SPECIFICATION Spec
CONSTANTS
  None = None
  d1 = d1
  d2 = d2
  k1 = k1
  k2 = k2
  Docs = {d1}
  MaxTx = 2
  MaxOps <- OneEach
  MaxReads = 0
  Loops = {k1}
  Lapsing = {1}
  Overlapping = {}
INVARIANTS
  SingleHolder
