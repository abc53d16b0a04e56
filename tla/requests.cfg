SPECIFICATION HistorySpec
CONSTANTS
  FailureThreshold = 2
  RecoveryThreshold = 2
  CounterCap = 2
  Targets = {t1}
  t1 = t1
  NoTarget = NoTarget
  IncidentIds = {1, 2}
  NoIncident = 0
  k1 = k1
  k2 = k2
  s1 = s1
  s2 = s2
  a1 = a1
  p1 = p1
  p2 = p2
  Procs = {p1}
  Jobs = {k1, s1, s2}
  TickJobs = {k1}
  Sessions = {s1, s2}
  Acknowledgers = {}
  ProcOf <- OneProcess
  Operations = {"pause", "resume", "archive", "update"}
  Starts = {"down"}
  MaxRequests = 3
  MaxAcks = 0
  MaxFlips = 0
  MaxFaults = 0
INVARIANTS PausedMeansDisabled
PROPERTIES ArchivedIsFinal ResumeStartsOver ConvergesUnlessOverwritten
