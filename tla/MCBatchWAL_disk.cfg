SPECIFICATION Spec
CONSTANTS
  b1 = b1  b2 = b2  b3 = b3  s1 = s1  s2 = s2  NoBatch = NoBatch
  Shards = {s1}
  Batches = {b1, b2}
  RowIdx <- OneRow
  BadRows <- OnlyBadRow
  MaxSeq = 4
  MaxBytes = 2
  Attempts = 1
  ReplayMax = 2
  MaxOutages = 1
  MaxCrashes = 1
  DiskFaults = TRUE
  Dedup = FALSE
INVARIANTS TypeOK GuardedSurvives NothingForgotten
PROPERTIES NeverOverwrites Delivers
CHECK_DEADLOCK FALSE
