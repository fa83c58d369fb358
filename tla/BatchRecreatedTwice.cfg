SPECIFICATION Spec
CONSTANTS
  v1 = v1
  v2 = v2
  Absent = Absent
  Values = {v1, v2}
  Drawing <- TwoPrimitives
  MaxId = 6
  Batches <- DeleteThenFail
  MaxBatches = 1
  CallerOwned = FALSE
  FaultyRuns = {}
  FaultyUndos = {"delete"}
  MaxFaults = 1
  Lapses = FALSE
INVARIANTS
  RollbackIsExact
