SPECIFICATION Spec
CONSTANTS
  v1 = v1
  v2 = v2
  Absent = Absent
  Values = {v1, v2}
  Drawing <- TwoPrimitives
  MaxId = 6
  Batches <- Modify1
  MaxBatches = 2
  CallerOwned = TRUE
  FaultyRuns = {}
  FaultyUndos = {"modify"}
  MaxFaults = 1
  Lapses = FALSE
INVARIANTS
  RollbackIsExact
