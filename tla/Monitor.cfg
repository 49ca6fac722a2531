SPECIFICATION FairMonitorSpec
CONSTANTS
  Slots = {s1, s2}
  Adapters = {a1, a2}
  NoAdapter = NoAdapter
  Past = Past
INVARIANT MonitorTypeOK
PROPERTIES AlertsNeedTwoChecks DownIsAlerted
