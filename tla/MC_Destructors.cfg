SPECIFICATION CompilerSpec
CONSTANTS
  Offered <- AllTokens
  MaxTokens = 16
  Inputs <- AllInputs
  MaxSuffix = 3
INVARIANTS
  DestructorsRunAtTheEnd
CHECK_DEADLOCK FALSE
