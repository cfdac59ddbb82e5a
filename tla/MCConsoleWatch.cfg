SPECIFICATION WatchSpec
INVARIANTS
  ShownIsReal
  FoldsSurvive
PROPERTIES
  PagesSettle
  ReportsComeUp
\* A page may have nothing left to do within the bounds.
CHECK_DEADLOCK FALSE
