SPECIFICATION FairSpec
CONSTANTS
  b1 = b1  b2 = b2  b3 = b3  s1 = s1  s2 = s2  NoBatch = NoBatch
  Shards = {s1, s2}
  Batches = {b1, b2, b3}
  RowIdx <- TwoRows
  BadRows <- OneBadRow
  MaxSeq = 6
  MaxBytes = 1
  Attempts = 1
  ReplayMax = 2
  MaxOutages = 1
  MaxCrashes = 1
  DiskFaults = FALSE
  Dedup = TRUE
INVARIANTS ReplayNeverRacesOwner DiskBounded TokenedOnce
PROPERTIES AllSettle
CHECK_DEADLOCK FALSE
