SPECIFICATION FairSpec
CONSTANTS
  Streams = {"stdout"}
  Senders = {"sender"}
  MaxEvents = 1
  MaxReads = 1
  MaxStarts = 1
  SerialStops = TRUE
PROPERTY
  SendReturns
CHECK_DEADLOCK FALSE
