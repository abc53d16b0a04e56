SPECIFICATION MonitorSpec
CONSTANTS
  FailureThreshold = 2
  RecoveryThreshold = 2
  CounterCap = 2
  Targets = {t1}
  t1 = t1
  NoTarget = NoTarget
  IncidentIds = {1, 2, 3}
  NoIncident = 0
  k1 = k1
  k2 = k2
  s1 = s1
  s2 = s2
  a1 = a1
  p1 = p1
  p2 = p2
  Procs = {p1}
  Jobs = {k1}
  TickJobs = {k1}
  Sessions = {}
  Acknowledgers = {a1}
  ProcOf <- OneProcess
  Operations = {}
  Starts = {"new"}
  MaxRequests = 0
  MaxAcks = 1
  MaxFlips = 1
  MaxFaults = 0
PROPERTY ResolvedIsFinal
