SPECIFICATION Spec
CONSTANTS
  f1 = f1  f2 = f2  f3 = f3  i1 = i1  i2 = i2  i0 = i0
  NoIsp = NoIsp
  Rows = {f1, f2, f3}
  ISPs = {i1, i2, i0}
  Isp <- TwoTenants
  Registered = {i1, i2}
  Deletable = {}
  LateRows = {f3}
  Manual = "never"
  Configs <- AfterOneOrSo
  Reconfigure = TRUE
  DefaultAfter = 7
  SweepDaily = FALSE
  MaxAge = 2
  MaxFaults = 2
INVARIANTS ExportedRowsExist
CHECK_DEADLOCK FALSE
