SPECIFICATION DueSpec
CONSTANTS
  FailureThreshold = 1
  RecoveryThreshold = 1
  CounterCap = 1
  t1 = t1
  t2 = t2
  Targets = {t1, t2}
  NoTarget = NoTarget
  IncidentIds = {1, 2}
  NoIncident = 0
  k1 = k1
  k2 = k2
  m1 = m1
  p1 = p1
  Procs = {p1}
  Jobs = {k1, m1}
  TickJobs = {k1}
  ProcOf <- OneProcess
  MaxFlips = 1
  MaxFaults = 1
  DueLimit = 1
INVARIANTS SchedulerTypeOK TickOwnsItsChecks TimelineOK
PROPERTIES TicksEnd Converges ServesEveryTarget
