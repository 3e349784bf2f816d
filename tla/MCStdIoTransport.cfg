SPECIFICATION FairSpec
CONSTANTS
  Streams = {"stdout", "stderr"}
  Senders = {"sender"}
  MaxEvents = 1
  MaxReads = 2
  MaxStarts = 2
  SerialStops = TRUE
INVARIANTS
  CallbackOrder
  QuietAfterStop
  
PROPERTIES
  
  DeathReported
CHECK_DEADLOCK FALSE
