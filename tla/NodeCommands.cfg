SPECIFICATION CommandsFairSpec
CONSTANTS
  MaxCommands = 3
  PollLimit = 2
  PollRequest = {q1, q2}
  MaxLosses = 2
  NoRequest = NoRequest
INVARIANTS CommandsTypeOK ExecutedAtMostOnce StatusExplained OldestFirst
PROPERTIES EventuallyHandedOut
