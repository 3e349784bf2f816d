SPECIFICATION FairSpec
CONSTANTS
  MaxId = 2
  Inputs <- MCInputs
  MaxAdmitted = 2
  Capacity = 1
  MaxChunks = 1
  Faults = {"stdout", "chunk"}
INVARIANTS
  SlotAccounting
  NothingAfterTerminal
  ExitOwesNothing
PROPERTIES
  ImplementsLifecycle
  RequestEnds
  ShutdownExits
