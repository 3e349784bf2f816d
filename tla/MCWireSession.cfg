SPECIFICATION Spec
CONSTANTS
  MinHeader = 2
  MaxHeader = 3
  CompactThreshold = 9
  MaxU32 = 2
  MaxU64 = 3
  MaxEvents = 2
  MaxBytes = 3
  MaxTraffic = 2
  MaxSends = 2
  ReadSizes = {1, 99}
  ClientSays <- MCClientSays
  WorkerSays <- MCWorkerSays
  Strays <- MCStrays
INVARIANTS
  HeardAsSent
  EventsAsSaid
  StartOutcome
CHECK_DEADLOCK FALSE
