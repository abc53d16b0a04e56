SPECIFICATION MonitorFairSpec
CONSTANTS
  FailureThreshold = 2
  RecoveryThreshold = 2
  CounterCap = 2
  Targets = {t1}
  t1 = t1
  NoTarget = NoTarget
  IncidentIds = {1, 2, 3}
  NoIncident = 0
  k1 = k1
  k2 = k2
  s1 = s1
  s2 = s2
  a1 = a1
  p1 = p1
  p2 = p2
  Procs = {p1}
  Jobs = {k1, s1}
  TickJobs = {k1}
  Sessions = {s1}
  Acknowledgers = {a1}
  ProcOf <- OneProcess
  Operations = {"pause", "resume", "archive", "update", "check-now"}
  Starts = {"new", "paused", "down", "paused-down"}
  MaxRequests = 1
  MaxAcks = 1
  MaxFlips = 1
  MaxFaults = 1
INVARIANTS MonitorTypeOK LockInv OneActiveIncident IncidentTrail
PROPERTIES RequestsEnd
