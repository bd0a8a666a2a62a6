SPECIFICATION Spec
CONSTANTS
  Pages = {p1, p2}
  Statuses = {clean, dirty}
  Gone = Gone
  None = None
  MaxStrays = 2
  MaxRunning = 2
  MaxReferences = 2
  MaxChanges = 2
  MaxErrors = 1
INVARIANTS
  TypeOK
  WatchedIsPolled
PROPERTIES
  PagesLearnStatus
CHECK_DEADLOCK FALSE
