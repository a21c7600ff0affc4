SPECIFICATION CompilerSpec
CONSTANTS
  Offered <- AllTokens
  MaxTokens = 16
  Inputs <- AllInputs
  MaxSuffix = 3
INVARIANTS
  InStep
  OverruledOnlyByComment
  LeakOnlyAfterLexicalError
  GeneratesDocument
  ExitTellsTheTruth
PROPERTIES
  Exits
\* main returns.
CHECK_DEADLOCK FALSE
