SPECIFICATION FairSpec
CONSTANTS
  f1 = f1  f2 = f2  f3 = f3  i1 = i1  i2 = i2  i0 = i0
  NoIsp = NoIsp
  Rows = {f1, f2}
  ISPs = {i1, i2, i0}
  Isp <- OneEach
  Registered = {i1, i2}
  Deletable = {}
  LateRows = {}
  Manual = "never"
  Configs <- Retentions
  Reconfigure = TRUE
  DefaultAfter = 7
  SweepDaily = TRUE
  MaxAge = 4
  MaxFaults = 2
INVARIANTS TTLSafe
PROPERTIES EventuallyArchived
CHECK_DEADLOCK FALSE
