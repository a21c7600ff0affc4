SPECIFICATION HSpec
CONSTANTS
  Offered <- AllTokens
INVARIANTS
  TypeOK
  StackBounded
PROPERTIES
  ImplementsLanguage
  EveryPushReturns
\* The parser stops for good once it has accepted or aborted.
CHECK_DEADLOCK FALSE
