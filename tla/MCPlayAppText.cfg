SPECIFICATION Spec
CONSTANTS
  QueueLimit = 1
  Prebuffers = {2}
  Clients = {"fast", "safe"}
  Modes = {"interactive"}
  MaxRequests = 2
  MaxLines = 2
  MaxChunks <- ChunksOf
  MaxFaults = 1
INVARIANTS
  ActiveOwnsPlayer
CHECK_DEADLOCK FALSE
