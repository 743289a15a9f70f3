SPECIFICATION FairSpec
CONSTANTS
  r1 = r1  r2 = r2  r3 = r3  p1 = p1  p2 = p2
  Recs = {r1, r2, r3}
  Hash <- SpreadHash
  HashRange = 4
  Producers = {p1, p2}
  Sizes <- OneThenOne
  Cap = 1
  BatchSizes <- JustTwo
  Policies <- BlockOnly
  GraceSuffices = TRUE
  HTTPReload = FALSE
PROPERTIES NobodyWaits
CHECK_DEADLOCK FALSE
