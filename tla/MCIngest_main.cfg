SPECIFICATION IntakeSpec
CONSTANTS
  e1 = e1  e2 = e2  w1 = w1  w2 = w2  NoDevice = NoDevice
  Exporters = {e1, e2}
  Sources = {0, 1}
  Tids = {256}
  Workers = {w1, w2}
  Hash <- TwoSockets
  Datagrams <- Grams
  Flows <- AllFlows
  MaxRecords = 10
  MaxTemplates = 2
  TTL = 1
  SweepEvery = 0
  Registries <- RegistrySet
  Lives <- LiveSet
  DefaultId = 9
  MaxSent = 3
  MaxTime = 3
  MaxPolls = 1
  Conns = {1, 2, 3}
INVARIANTS NeverMisread  TranslationKept RightOwner StopCloses
CHECK_DEADLOCK FALSE
