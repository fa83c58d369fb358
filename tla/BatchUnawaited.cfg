SPECIFICATION Spec
CONSTANTS
  v1 = v1
  v2 = v2
  Absent = Absent
  Values = {v1, v2}
  Drawing <- TwoPrimitives
  MaxId = 3
  Batches <- OneCreate
  MaxBatches = 1
  CallerOwned = FALSE
  FaultyRuns = {}
  FaultyUndos = {}
  MaxFaults = 0
  Lapses = TRUE
INVARIANTS
  FailureRollsBack
