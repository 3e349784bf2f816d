SPECIFICATION FairSpec
CONSTANTS
  MaxId = 2
  MaxOutbound = 1
  MaxEvents = 1
  MaxExempt = 1
  MaxStarts = 2
  MaxDepth = 2
  Frames <- MCFrames
  SerialStops = TRUE
INVARIANTS
  OneTerminalCallback
  NothingLeftBehind
  WireOrder
  
PROPERTIES
  NoCallbackAfterStop
  
  
