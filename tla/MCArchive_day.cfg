SPECIFICATION Spec
CONSTANTS
  f1 = f1  f2 = f2  f3 = f3  i1 = i1  i2 = i2  i0 = i0
  NoIsp = NoIsp
  Rows = {f1, f2, f3}
  ISPs = {i1, i2, i0}
  Isp <- OneForeign
  Registered = {i1, i2}
  Deletable = {i2}
  LateRows = {}
  Manual = "careful"
  Configs <- AfterOne
  Reconfigure = FALSE
  DefaultAfter = 7
  SweepDaily = FALSE
  MaxAge = 3
  MaxFaults = 1
INVARIANTS  SearchExact
CHECK_DEADLOCK FALSE
