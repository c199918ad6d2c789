SPECIFICATION FairSpec
CONSTANTS
  Device = {d1}
  Flow <- MCFlow
  ChunkCap = 3
  BufferCap = 2
  BufferKeep = 1
  FirstDelay = 5
  MaxDelay = 20
  MaxRestarts = 1
INVARIANTS PublishedInOrder NothingLost
PROPERTIES SwitchedOffStops KeptWatching
