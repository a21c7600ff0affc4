SPECIFICATION CompilerSpec
CONSTANTS
  Offered <- AllTokens
  MaxTokens = 16
  Inputs <- Inputs_Code
INVARIANTS
  CodeIsLiteral
CHECK_DEADLOCK FALSE
