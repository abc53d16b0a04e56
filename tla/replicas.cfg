SPECIFICATION FairSpec
CONSTANTS
  FailureThreshold = 2
  RecoveryThreshold = 2
  CounterCap = 2
  Targets = {t1}
  IncidentIds = {1, 2, 3, 4, 5}
  NoIncident = 0
  NoTarget = NoTarget
  j1 = j1
  j2 = j2
  p1 = p1
  p2 = p2
  Procs = {p1, p2}
  Jobs = {j1, j2}
  ProcOf <- TwoProcesses
  MaxFlips = 2
  MaxFaults = 1
  t1 = t1
  t2 = t2
INVARIANTS OneActiveIncident 
PROPERTIES ResolvedIsFinal Converges
