SPECIFICATION AdapterSpec
CONSTANTS
  Chains <- MCChains
  Chunks <- MCChunks
  MaxChunks = 4
  MaxThrows = 1
INVARIANTS
  HeardIsShaped
  OneEnd
CHECK_DEADLOCK FALSE
