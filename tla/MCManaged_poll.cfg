SPECIFICATION FairSpec
CONSTANTS
  a1 = a1  a2 = a2  a3 = a3  k1 = k1  k2 = k2  t1 = t1  t2 = t2
  Addrs = {a1, a2, a3}
  Key <- TwoSpellings
  Tenants = {t1, t2}
  Modes = {"allow", "reject"}
  LocalMode = "allow"
  ManageLive = TRUE
  MaxEdits = 3
  MaxReloads = 1
  MaxFaults = 1
INVARIANTS OneTenantPerAddress
PROPERTIES NeverGoesBack Converges
CHECK_DEADLOCK FALSE
