SPECIFICATION WorkerSpec
CONSTANTS
  nvda = nvda
  Holding = {nvda}
  Answer <- Answers
  Lease = 4
  Stretch = 6
  Refresh = 4
  Pulse = 1
  Cleanup = 1
  Work = 1
  Budget = 2
  CrisisBudget = 3
  MinRetry = 1
  Horizon = 21
INVARIANTS
  LeaseOutlivesSteps BuysAreEarned LedgerIsComplete EndsInTime
CHECK_DEADLOCK FALSE
