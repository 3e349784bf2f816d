SPECIFICATION FairSpec
CONSTANTS
  MaxId = 2
  Inputs <- MCInputs
  MaxAdmitted = 1
  Capacity = 1
  MaxChunks = 0
  Faults = {"stdout"}
PROPERTIES
  RunReturns
CHECK_DEADLOCK FALSE
