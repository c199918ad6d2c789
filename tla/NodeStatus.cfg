SPECIFICATION FairSpec
CONSTANTS
  Request = {q1, q2}
  Run = {c1, c2}
  OffAfter = 1
  AlertCap = 1
  Troubles <- MCTroubles
  MaxFaults = 1
INVARIANTS AlertsMatchStatus
PROPERTIES SilentGoesOffline ReportingLeavesOffline
