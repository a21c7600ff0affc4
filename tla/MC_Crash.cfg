SPECIFICATION BackendSpec
CONSTANTS
  Alnum <- Letters
  Lower <- ToLower
  NULL = NULL
  Room = 4
  Texts <- SomeTexts
  Programs <- TargetBehind
  MaxSuffix = 4
  Outcomes = {"stored"}
PROPERTY DocumentCompleted
\* The document is closed, or the process has ended.
CHECK_DEADLOCK FALSE
