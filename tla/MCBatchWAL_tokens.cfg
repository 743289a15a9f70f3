SPECIFICATION Spec
CONSTANTS
  b1 = b1  b2 = b2  b3 = b3  s1 = s1  s2 = s2  NoBatch = NoBatch
  Shards = {s1}
  Batches = {b1, b2}
  RowIdx <- OneRow
  BadRows <- NoBadRow
  MaxSeq = 4
  MaxBytes = 0
  Attempts = 1
  ReplayMax = 2
  MaxOutages = 0
  MaxCrashes = 1
  DiskFaults = FALSE
  Dedup = TRUE
INVARIANTS GuardedSurvives
CHECK_DEADLOCK FALSE
