SPECIFICATION FairSpec
CONSTANTS
  FailureThreshold = 2
  RecoveryThreshold = 2
  CounterCap = 2
  Targets = {t1, t2}
  IncidentIds = {1, 2}
  NoIncident = 0
  NoTarget = NoTarget
  j1 = j1
  j2 = j2
  p1 = p1
  p2 = p2
  Procs = {p1}
  Jobs = {j1, j2}
  ProcOf <- OneProcess
  MaxFlips = 3
  MaxFaults = 1
  t1 = t1
  t2 = t2
INVARIANTS TypeOK SnapshotCurrent CountersFollowResults StatusMatchesIncident
PROPERTIES ImplementsHealthModel LocksReleased
