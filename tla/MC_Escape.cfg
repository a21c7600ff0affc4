SPECIFICATION Spec
CONSTANTS
  Chars <- SomeChars
  Titles <- SomeTitles
  Size = 7
INVARIANTS
  InBounds
  OnlyDollarsBare
\* The loop has ended.
CHECK_DEADLOCK FALSE
