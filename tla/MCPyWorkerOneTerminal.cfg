SPECIFICATION Spec
CONSTANTS
  MaxId = 2
  Inputs <- MCInputs
  MaxAdmitted = 2
  Capacity = 1
  MaxChunks = 1
  Faults = {}
INVARIANT
  OneTerminal
