SPECIFICATION FairSpec
CONSTANTS
  MaxIncidents = 1
  MaxLevel = 2
  Timeout <- UnitTimeout
  AutoResolve = 0
  DedupWindow = 0
  AgeCap = 1
  Ladders <- SkippedLadder
  Worker = {w1, w2}
  Operator = {}
  Poller = {}
  Receiver = {}
  Photos = {TRUE}
  MaxEdits = 1
  MaxFaults = 1
  Nobody = Nobody
INVARIANTS LevelExplained NotifiedOnce EnteredLevelNotified
PROPERTIES EventuallyClosed
