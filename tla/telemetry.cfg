SPECIFICATION Spec
CONSTANTS
  FailureThreshold = 1
  RecoveryThreshold = 1
  t1 = t1
  t2 = t2
  Targets = {t1, t2}
  ListOrder <- ByName
  Windows = {"day", "month"}
  DayWindow = "day"
  WindowHours <- Hours
  BucketHours <- Widths
  RetentionDays = 3
  DayTicks = 1
  ActiveTake = 1
  RecoveryTake = 1
  RecoveryHours = 2
  LatencyValues = {2}
  ListLimit = 1
  Histories <- MCHistories
  StartTime = 3
  MaxTime = 5
  MaxEvents = 2
INVARIANTS PagePiecesAgree SeriesFitsChart PercentilesAgree DashboardAddsUp
PROPERTY WindowsKept
