SPECIFICATION Spec
CONSTANTS
  None = None
  d1 = d1
  d2 = d2
  k1 = k1
  k2 = k2
  Docs = {d1, d2}
  MaxTx = 3
  MaxOps <- OneEach
  MaxReads = 1
  Loops = {k1}
  Lapsing = {}
  Overlapping = {}
SYMMETRY Symmetry
PROPERTIES
  ImplementsDocumentLock
