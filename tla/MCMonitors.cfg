SPECIFICATION FairSpec
CONSTANTS
  d1 = d1
  Never = Never
  MaxRestarts = 1
  Channels = {"smtp"}
  Devices = {d1}
  Silence = 1
  Lookback = 2
  DeviceRemind = 2
  Remind = 2
  StallTicks = 2
  MaxParts = 2
  Exporters = {d1}
  Windows <- MCWindows
  Grace = 2
  AuditRemind = 1
  MaxFaults = 1
  Days = 2
  MaxMishaps = 1
  LastDay = 2
  DayBudget = 1
  MaxDayRows = 2
  MaxSessions = 2
  SessionTTL = 1
  MaxRepeats = 1
INVARIANTS MonitorsSound
PROPERTIES DeviceReported IngestPaged CompliancePaged  SubscriberKnown
CHECK_DEADLOCK FALSE
