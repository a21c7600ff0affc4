SPECIFICATION BackendSpec
CONSTANTS
  Alnum <- Letters
  Lower <- ToLower
  NULL = NULL
  Room = 4
  Texts <- SomeTexts
  Programs <- SomePrograms
  MaxSuffix = 4
  Outcomes = {"stored", "denied"}
INVARIANTS
  TypeOK
  AcceptedLinksHaveLabels
PROPERTIES
  ImplementsDeck
  RejectedOrWritten
\* The program is rejected or written, or the process has ended.
CHECK_DEADLOCK FALSE
