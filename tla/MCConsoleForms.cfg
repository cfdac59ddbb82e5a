SPECIFICATION FormsSpec
INVARIANTS
  RequestsAsShown
  PageAgrees
PROPERTIES
  NothingTaken
\* A page may have nothing left to do within the bounds.
CHECK_DEADLOCK FALSE
