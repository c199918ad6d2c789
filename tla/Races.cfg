SPECIFICATION Spec
CONSTANTS
  MaxIncidents = 1
  MaxLevel = 2
  Timeout <- UnitTimeout
  AutoResolve = 1
  DedupWindow = 0
  AgeCap = 1
  Ladders <- FullLadder
  Worker = {w1, w2}
  Operator = {o1}
  Poller = {}
  Receiver = {r1}
  Photos = {TRUE, FALSE}
  MaxEdits = 0
  MaxFaults = 0
  Nobody = Nobody
INVARIANTS TypeOK RowConsistent SnapshotKept
PROPERTIES LifecycleKept
SYMMETRY WorkerSymmetry
