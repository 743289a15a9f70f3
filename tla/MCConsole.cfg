SPECIFICATION Spec
CONSTANTS
  q1 = q1
  q2 = q2
  Requests = {q1, q2}
  MaxUsers = 4
  MaxEdits = 2
  Calls = {q1, q2}
  Rules = {"keep"}
  Names = {"m", "n"}
  MaxPolicies = 2
  MaxDevices = 1
  Tabs = {1, 2, 3}
  MaxSecrets = 2
  Attempts = {1, 2, 3}
  MaxAttempts = 2
  Window = 1
  Lockout = 2
  Searches = {1, 2}
  Isp <- MCIsp
  Lookups = {"a", "b"}
  Pages <- MCPages
  NoNAT = "z"
  Answers <- MCAnswers
  CacheMax = 2
  BatchSize = 1
  MaxSaves = 1
  Writers = {1, 2, 3}
  MaxRows = 4
  Puts = {1, 2}
  MaxForms = 3
  Instants = {1, 2, 3, 4, 5}
  PageSize = 2
  MaxOffset = 6
  MaxBegins = 1
  Flows = {1, 2}
  Settle = 2
  Horizon = 5
  MaxBreaks = 2
  Viewers = {1, 2, 3}
  Refreshers = {1, 2}
  CacheTTL = 3
  LoadLimit = 2
  RefreshLimit = 2
SYMMETRY MCSymmetry
INVARIANTS  NeverLockedOut GuessesBounded EnrichmentSound ChainVerifies SettingsKept  RollupOnce
PROPERTIES AccountsSafe DashboardKept
CHECK_DEADLOCK FALSE
