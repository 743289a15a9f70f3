SPECIFICATION Spec
CONSTANTS
  r1 = r1  r2 = r2  r3 = r3  p1 = p1  p2 = p2
  Recs = {r1, r2, r3}
  Hash <- SpreadHash
  HashRange = 4
  Producers = {p1, p2}
  Sizes <- OneThenTwo
  Cap = 1
  BatchSizes <- UpToTwo
  Policies <- AllModes
  GraceSuffices = TRUE
  HTTPReload = FALSE
INVARIANTS PoolSound
CHECK_DEADLOCK FALSE
