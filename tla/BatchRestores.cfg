SPECIFICATION Spec
CONSTANTS
  v1 = v1
  v2 = v2
  Absent = Absent
  Values = {v1, v2}
  Drawing <- TwoPrimitives
  MaxId = 6
  Batches <- UpToTwo
  MaxBatches = 2
  CallerOwned = TRUE
  FaultyRuns = {"create", "modify", "delete"}
  FaultyUndos = {"create", "modify"}
  MaxFaults = 2
  Lapses = TRUE
INVARIANTS
  TypeOK
  RolledBackRestores
  CommittedIsWhole
PROPERTIES
  EndedIsUntouched
