SPECIFICATION Spec
CONSTANTS
  Names = {a, b}
  NULL = NULL
  Programs <- SomePrograms
  Outcomes = {"stored", "denied", "blank"}
INVARIANTS
  TypeOK
  AcceptedLinksResolve
  VerdictIsExact
PROPERTIES
  AnalysisEnds
\* The analysis returns.
CHECK_DEADLOCK FALSE
