SPECIFICATION FairSpec
CONSTANTS
  MaxIncidents = 1
  MaxLevel = 3
  Timeout <- UnitTimeout
  AutoResolve = 1
  DedupWindow = 0
  AgeCap = 1
  Ladders <- AnyLadder
  Worker = {w1}
  Operator = {o1}
  Poller = {p1}
  Receiver = {}
  Photos = {FALSE}
  MaxEdits = 1
  MaxFaults = 0
  Nobody = Nobody
INVARIANTS ClosureExplained
PROPERTIES ImplementsLifecycle
