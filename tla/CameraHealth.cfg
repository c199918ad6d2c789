SPECIFICATION Spec
CONSTANTS
  Run = {r1, r2}
  MaxFailure = 2
  ZeroCycles = 2
  LowCycles = 3
  CounterTTL = 3
  OfflineRestart = 2
  SinceTTL = 7
  PendingTTL = 4
  None = None
  MaxChanges = 3
  MaxLate = 1
INVARIANTS OfflineIsTimed CounterExpires
PROPERTIES OfflineAfterMisses LowRateRestarts AwayRestarts
