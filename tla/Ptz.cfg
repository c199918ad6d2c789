SPECIFICATION FairSpec
CONSTANTS
  Runs = {r1, r2}
  Presets = {1, 2}
  Orders <- OrdersOfTwo
  AtFirst <- AllOrOne
  Elsewhere = Elsewhere
  None = None
  MaxChanges = 1
  MaxFaults = 1
INVARIANTS OneMover
PROPERTIES PatrolInOrder EveryPresetVisited SettlesOnPreset
CHECK_DEADLOCK FALSE
