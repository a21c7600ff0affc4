SPECIFICATION HeapSpec
CONSTANTS
  Offered <- AllTokens
  MaxTokens = 9
INVARIANTS
  HeapTypeOK
  SoleOwner
  NoDangling
  NoLeak
  AstIsDocument
\* The parser stops for good once it has accepted or aborted.
CHECK_DEADLOCK FALSE
