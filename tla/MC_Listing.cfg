SPECIFICATION Spec
CONSTANTS
  Chars <- SomeChars
  Values <- SomeValues
  Codes <- SomeCodes
  Settings <- SomeSettings
  NULL = NULL
INVARIANTS
  TypeOK
  OutFits
  NothingLost
  IndentFollowsBraces
  ListingReadsBack
PROPERTY LoopsAdvance
\* The code is written.
CHECK_DEADLOCK FALSE
