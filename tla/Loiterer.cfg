SPECIFICATION FairSpec
CONSTANTS
  NumRules = 1
  MinDuration <- Loitering
  Cooldown <- SixUnits
  Immediate = {1}
  Validity <- Always
  Timetabled = {1}
  Blocks <- FirstHour
  Days = 2
  DayLength = 1
  Gap = 1
  RefreshPeriod = 2
  MaxBusy = 1
  QueueCap = 1
  Retry = 2
  MaxFaults = 1
INVARIANTS TypeOK
PROPERTIES FiresAfterPresence PresenceNoticed FiresWhileFresh
