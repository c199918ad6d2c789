SPECIFICATION FairSpec
CONSTANTS
  Session = {s1}
  Worker = {w1}
  Runner = {r1}
  Addr = {a, b}
  Token = {t1, t2}
  None = None
  Typed = Typed
  MaxEdits = 2
  MaxFaults = 1
INVARIANTS NoOrphans
PROPERTIES OnlySessionsRevive FollowsHost
CHECK_DEADLOCK FALSE
