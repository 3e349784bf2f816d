SPECIFICATION FairSpec
CONSTANTS
  QueueLimit = 1
  Prebuffers = {2}
  Clients = {"fast", "safe"}
  Modes = {"interactive", "oneshot"}
  MaxRequests = 2
  MaxLines = 2
  MaxChunks <- ChunksOf
  MaxFaults = 1
INVARIANTS
  DriverMemoryAlive
  OnlyCurrentAudio
  OneShotHeard
PROPERTIES
  QuitReturns
CHECK_DEADLOCK FALSE
