SPECIFICATION ScanSpec
CONSTANTS
  Inputs <- AllInputs
  MaxFragments = 5
INVARIANTS
  ScanTypeOK
  ContextDiscipline
  CodeIsBracketed
  AcceptedIsComplete
PROPERTIES
  ScanningEnds
\* The scanner stops for good once a final status is returned.
CHECK_DEADLOCK FALSE
