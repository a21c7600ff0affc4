SPECIFICATION LabelSpec
CONSTANTS
  Alnum <- Letters
  Lower <- ToLower
  NULL = NULL
  Room = 4
  Texts <- SomeTexts
  Programs <- SomePrograms
  MaxSuffix = 4
INVARIANTS
  LabelTypeOK
  LabelsUnique
  LinksLeadToFirst
  CrashesUnlessTargetsFirst
\* The map is complete, or the process has ended.
CHECK_DEADLOCK FALSE
