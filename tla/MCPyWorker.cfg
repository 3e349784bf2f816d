SPECIFICATION FairSpec
CONSTANTS
  MaxId = 2
  Inputs <- MCInputs
  MaxAdmitted = 2
  Capacity = 1
  MaxChunks = 1
  Faults = {"stdout", "startup"}
INVARIANTS
  SlotAccounting
  ExitOwesNothing
PROPERTIES
  ImplementsLifecycle
  RequestEnds
  ShutdownExits
CHECK_DEADLOCK FALSE
